------------------------------ MODULE SttNode ------------------------------
(***************************************************************************)
(* The capture thread of stt_node: it listens for the wake word on a       *)
(* PyAudio stream, closes it, records the command with sounddevice, has it *)
(* transcribed and publishes the text.  Every audio or network call may    *)
(* raise; the loop catches it, waits a second and starts again.            *)
(***************************************************************************)
VARIABLES
  at,      \* where the thread is in _capture_loop
  woken,   \* _wait_for_wake_word's answer
  stream,  \* MicController.stream
  stop     \* _stop_event; the node is destroyed with it

sttVars == <<at, woken, stream, stop>>

Places ==
  {"top", "open", "listen", "close", "record", "transcribe", "backoff", "ended"}

SttTypeOK ==
  /\ at \in Places
  /\ woken \in {"no", "yes", "raised"}
  /\ stream \in {"none", "open"}
  /\ stop \in BOOLEAN

SttInit == at = "top" /\ woken = "no" /\ stream = "none" /\ stop = FALSE

GoTo(place) == at' = place

\* Faulty variant, for the mutation runs: the exception ends the thread.
FailsForGood == GoTo("ended")

\* _capture_loop's except: it reports, unless the node is gone, and waits.
Fails == GoTo(IF stop THEN "ended" ELSE "backoff")

LoopTop ==
  /\ at = "top"
  /\ GoTo(IF stop THEN "ended" ELSE "open")
  /\ UNCHANGED <<woken, stream, stop>>

\* A stream that could not be closed is replaced, or kept when opening raises.
OpensMic ==
  /\ at = "open"
  /\ \/ GoTo("listen") /\ stream' = "open"
     \/ Fails /\ UNCHANGED stream
  /\ UNCHANGED <<woken, stop>>

\* A chunk brings the wake word or an error; else the next one is read, until the stop.
Listens ==
  /\ at = "listen"
  /\ woken' \in {"yes", "raised"} \cup (IF stop THEN {"no"} ELSE {})
  /\ GoTo("close") /\ UNCHANGED <<stream, stop>>

\* Faulty variant, for the mutation runs: an error of the close is swallowed.
ClosesMicAnyhow ==
  /\ at = "close"
  /\ stream' \in {"none", stream}
  /\ CASE woken = "yes" -> GoTo("record")
       [] woken = "no" -> GoTo("top")
       [] woken = "raised" -> Fails
  /\ woken' = "no" /\ UNCHANGED stop

\* finally: an error here hides the wake word, or the error before it.
ClosesMic ==
  /\ at = "close"
  /\ \/ /\ stream' = "none"
        /\ CASE woken = "yes" -> GoTo("record")
             [] woken = "no" -> GoTo("top")
             [] woken = "raised" -> Fails
     \/ Fails /\ UNCHANGED stream
  /\ woken' = "no" /\ UNCHANGED stop

\* From the report of the wake word on; silence is skipped.
Records ==
  /\ at = "record"
  /\ GoTo("transcribe") \/ GoTo("top") \/ Fails
  /\ UNCHANGED <<woken, stream, stop>>

\* No key (NotImplementedError), an invented sentence or no text: nothing is published.
Transcribes ==
  /\ at = "transcribe"
  /\ GoTo("top") \/ Fails
  /\ UNCHANGED <<woken, stream, stop>>

\* Publishing on a destroyed node raises, and so does the report of that.
PublishesUtterance ==
  /\ at = "transcribe"
  /\ GoTo(IF stop THEN "ended" ELSE "top")
  /\ UNCHANGED <<woken, stream, stop>>

BacksOff ==
  /\ at = "backoff"
  /\ GoTo("top") /\ UNCHANGED <<woken, stream, stop>>

\* destroy_node does not wait for the thread.
Stops == ~stop /\ stop' = TRUE /\ UNCHANGED <<at, woken, stream>>

Captures ==
  LoopTop \/ OpensMic \/ Listens \/ ClosesMic \/ Records \/ Transcribes \/ BacksOff

=============================================================================

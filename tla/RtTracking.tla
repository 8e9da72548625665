----------------------------- MODULE RtTracking -----------------------------
(***************************************************************************)
(* The two goals of TaskExecutor that stream velocities, servo_pick and    *)
(* handover_approach: the loop of _run_rt_tracking, the thread that closes *)
(* the gripper while the loop goes on, the lift that follows, and the      *)
(* SpeedlWatchdog, with hardware enabled and ready.                        *)
(*                                                                         *)
(* A velocity holds until another one or a MoveStop replaces it.  A step   *)
(* of the goal's thread is what it does between two points where another   *)
(* thread can change what it has looked at.  What the servo loops decide   *)
(* is free here; ServoLoops models it.                                     *)
(***************************************************************************)
EXTENDS Naturals

\* COMMUNICATION_ERROR stands for TIMEOUT and INVALID_INPUT too: all end in FAULT.
Status == {"SUCCESS", "CANCELED", "FAULT", "COMMUNICATION_ERROR"}

VARIABLES
  goal,       \* the goal that executes, or executed last: "pick" or "approach"
  at,         \* where its thread is
  exit,       \* how its tracking loop was left
  outcome,    \* what it will answer
  command,    \* velocity computed and not yet published
  closer,     \* _servo_pick_close_thread exists
  closes,     \* history: gripper closings this goal has begun
  hung,       \* the thread does not return from a call
  arm,        \* "still" or "moving"
  stopFailed, \* history: the last MoveStop on behalf of this goal failed
  cancel,     \* goal_handle.is_cancel_requested
  normal,     \* safety_state is NORMAL
  emergency,  \* safety_state is EMERGENCY_STOP, above what a goal declares
  declaring,  \* the other threads that are in declare_fault, before their MoveStop
  gripper,    \* the gripper and the close call, see GripperCommand
  call,
  watchdog,   \* "off", "on", or "firing": it has decided to publish zero
  starved,    \* no pet within watchdog_timeout_s
  cache,      \* age of _tcp_pose_cache
  caching     \* _tcp_tracking_active

armVars == <<arm, stopFailed>>
safetyVars == <<cancel, normal, emergency, declaring>>
gripperVars == <<gripper, call>>
dogVars == <<watchdog, starved>>
cacheVars == <<cache, caching>>
threadVars == <<goal, at, exit, outcome, command, closer, closes, hung>>
vars == <<threadVars, armVars, safetyVars, gripperVars, dogVars, cacheVars>>

Close == INSTANCE GripperCommand

Loop == {"top", "tick", "step", "publish"}
Lift == {"lift", "lifttop", "liftpublish"}
Done == {"idle", "over"}

\* _on_state_poll_timer and _on_direct_contact
Declarers == {"poll", "contact"}

TypeOK ==
  /\ goal \in {"pick", "approach"}
  /\ at \in Done \cup Loop \cup Lift \cup {"leave", "finish", "settle", "liftleave"}
  /\ exit \in {"none", "canceled", "fault", "abort", "closed", "invalid", "shutdown", "raised"}
  /\ outcome \in {"ABORT", "CANCELED", "ARRIVED", "FAULT"}
  /\ command \in {"none", "move", "rest", "invalid"}
  /\ closer \in BOOLEAN /\ closes \in 0..1 /\ hung \in BOOLEAN
  /\ arm \in {"still", "moving"} /\ stopFailed \in BOOLEAN
  /\ emergency \in BOOLEAN /\ declaring \subseteq Declarers
  /\ Close!CommandTypeOK
  /\ watchdog \in {"off", "on", "firing"} /\ starved \in BOOLEAN
  /\ cache \in {"fresh", "stale"} /\ caching \in BOOLEAN

Init ==
  /\ goal = "pick" /\ at = "idle" /\ exit = "none" /\ outcome = "ABORT" /\ command = "none"
  /\ closer = FALSE /\ closes = 0 /\ hung = FALSE
  /\ arm = "still" /\ stopFailed = FALSE
  /\ emergency = FALSE /\ declaring = {}
  /\ Close!CommandInit
  /\ watchdog = "off" /\ starved = FALSE
  /\ cache = "stale" /\ caching = FALSE

(***************************************************************************)
(* Pieces of the steps.                                                    *)
(***************************************************************************)
\* The goal's thread moves on; its loop's and its answer's variables stay.
Goto(place) ==
  /\ at' = place
  /\ UNCHANGED <<goal, exit, outcome, command, closer, closes, hung>>

Answer(place, how, answer) ==
  /\ at' = place /\ exit' = how /\ outcome' = answer /\ command' = "none"
  /\ UNCHANGED <<goal, closer, closes, hung>>

Published ==
  /\ at' = "top" /\ command' = "none"
  /\ UNCHANGED <<goal, exit, outcome, closer, closes, hung>>

\* _cleanup_stop_motion
MoveStop(ok) ==
  /\ arm' = IF ok THEN "still" ELSE arm
  /\ stopFailed' = ~ok

\* declare_fault by the goal's thread, always a FAULT: it stops the arm as well, but below
\* an EMERGENCY_STOP it is dropped, the stop with it.  (Its test and its assignment are one
\* step here; RobotSafety takes them apart, and a level that is lowered drops less.)
DeclareFault ==
  /\ normal' = FALSE
  /\ UNCHANGED <<cancel, emergency, declaring>>
  /\ IF emergency THEN UNCHANGED armVars ELSE \E ok \in BOOLEAN : MoveStop(ok)

\* A stop that fails makes the goal end in FAULT, and declare it.
StopOrFault(place, how, answer) ==
  \/ MoveStop(TRUE) /\ Answer(place, how, answer) /\ UNCHANGED safetyVars
  \/ ~emergency /\ DeclareFault /\ Answer(place, how, "FAULT")
  \/ emergency /\ MoveStop(FALSE) /\ Answer(place, how, "FAULT") /\ UNCHANGED safetyVars

\* A stop whose answer nobody reads.
StopAnyway(place, how, answer) ==
  /\ \E ok \in BOOLEAN : MoveStop(ok)
  /\ Answer(place, how, answer)
  /\ UNCHANGED safetyVars

\* A stop whose answer nobody reads, and then declare_fault, with another unless dropped.
StopAndFault(place, how) ==
  /\ stopFailed' \in BOOLEAN
  /\ arm' \in IF stopFailed' THEN {"still", arm} ELSE {"still"}
  /\ normal' = FALSE
  /\ Answer(place, how, "FAULT")
  /\ UNCHANGED <<cancel, emergency, declaring>>

Calm == UNCHANGED <<armVars, safetyVars>>
Rest == UNCHANGED <<gripperVars, dogVars, cacheVars>>

(***************************************************************************)
(* _execute_servo_pick, _execute_handover_approach and _run_rt_tracking.   *)
(***************************************************************************)
Started(g) ==
  /\ goal' = g /\ at' = "top" /\ exit' = "none" /\ outcome' = "ABORT" /\ command' = "none"
  /\ closes' = 0 /\ hung' = FALSE
  /\ cancel' = FALSE /\ stopFailed' = FALSE
  /\ watchdog' = "on" /\ starved' = FALSE
  /\ caching' = TRUE
  /\ UNCHANGED <<arm, normal, emergency, declaring, gripperVars, cache>>

StartGoal(g) == at \in Done /\ normal /\ Started(g) /\ closer' = FALSE

\* Faulty variant, for the mutation runs: cancellations are not looked at.
LoopTopDeaf ==
  /\ at = "top"
  /\ \/ ~normal /\ Answer("leave", "fault", "ABORT") /\ Calm
     \/ normal /\ Goto("tick") /\ Calm
  /\ Rest

LoopTop ==
  /\ at = "top"
  /\ \/ cancel /\ StopOrFault("leave", "canceled", "CANCELED")
     \/ ~cancel /\ ~normal /\ Answer("leave", "fault", "ABORT") /\ Calm
     \/ ~cancel /\ normal /\ Goto("tick") /\ Calm
     \/ StopAnyway("leave", "shutdown", "ABORT")
  /\ Rest

\* Faulty variant, for the mutation runs: an abort just ends the loop.
DecidesUnstopped(decision) ==
  /\ at = "tick"
  /\ ~(goal = "pick" /\ closer)
  /\ CASE decision = "CONTINUE" -> Goto("step")
       [] decision = "ABORT" -> Answer("leave", "abort", "ABORT")
       [] decision = "STOP" -> goal = "approach" /\ Answer("leave", "closed", "ARRIVED")
  /\ Calm /\ Rest

\* The loop of the servo decides; a pick that closes waits for the thread it has started.
Decides(decision) ==
  /\ at = "tick"
  /\ ~(goal = "pick" /\ closer)
  /\ CASE decision = "CONTINUE" -> Goto("step") /\ Calm
       [] decision = "ABORT" -> StopOrFault("leave", "abort", "ABORT")
       [] decision = "STOP" -> goal = "approach" /\ Answer("leave", "closed", "ARRIVED") /\ Calm
  /\ Rest

\* _servo_pick_tick_with_grasp_lock looks once more before it starts the thread.
StartsClosing ==
  /\ at = "tick" /\ goal = "pick" /\ ~closer
  /\ ~cancel /\ normal
  /\ Close!Begin
  /\ at' = "step" /\ closer' = TRUE /\ closes' = closes + 1
  /\ UNCHANGED <<goal, exit, outcome, command, hung, armVars, emergency, declaring, dogVars, cacheVars>>

WhileClosing ==
  /\ at = "tick" /\ goal = "pick" /\ closer
  /\ IF call = "running" THEN Goto("step") ELSE Answer("leave", "closed", "ARRIVED")
  /\ Calm /\ Rest

\* Without a fresh TCP position no velocity is computed.
ComputesVelocity ==
  /\ at = "step"
  /\ command' \in IF cache = "fresh" THEN {"move", "rest", "invalid"} ELSE {"none"}
  /\ at' = "publish"
  /\ UNCHANGED <<goal, exit, outcome, closer, closes, hung>>
  /\ Calm /\ Rest

\* Faulty variant, for the mutation runs: the watchdog is fed on every turn.
PublishAlwaysFed ==
  /\ at = "publish" /\ command # "invalid"
  /\ Published
  /\ arm' = CASE command = "move" -> "moving" [] command = "rest" -> "still" [] OTHER -> arm
  /\ starved' = FALSE
  /\ UNCHANGED <<stopFailed, safetyVars, gripperVars, watchdog, cacheVars>>

PublishesVelocity ==
  /\ at = "publish" /\ command # "invalid"
  /\ Published
  /\ arm' = CASE command = "move" -> "moving" [] command = "rest" -> "still" [] OTHER -> arm
  /\ starved' = (starved /\ command = "none")
  /\ UNCHANGED <<stopFailed, safetyVars, gripperVars, watchdog, cacheVars>>

RejectsVelocity ==
  /\ at = "publish" /\ command = "invalid"
  /\ Answer("leave", "invalid", "ABORT")
  /\ Calm /\ Rest

\* except Exception, of the loop and of the lift
Raises(places, next) ==
  /\ at \in places
  /\ StopOrFault(next, "raised", IF cancel THEN "CANCELED" ELSE "ABORT")
  /\ Rest

\* The finally clause waits for the watchdog's thread.
LeavesLoop ==
  /\ at = "leave"
  /\ watchdog # "firing"
  /\ watchdog' = "off" /\ starved' = FALSE /\ caching' = FALSE
  /\ \/ Goto("finish") /\ Calm
     \/ DeclareFault /\ Answer("finish", exit, "FAULT")
  /\ UNCHANGED <<gripperVars, cache>>

Joined == ~closer \/ call # "running"

\* Faulty variant, for the mutation runs: the goal ends without its close thread.
FinishUnjoined ==
  /\ at = "finish" /\ outcome # "ARRIVED"
  /\ Goto("over") /\ Calm /\ Rest

FinishesLost ==
  /\ at = "finish" /\ outcome # "ARRIVED"
  /\ goal = "pick" => Joined
  /\ Goto("over") /\ Calm /\ Rest

ApproachArrives ==
  /\ at = "finish" /\ outcome = "ARRIVED" /\ goal = "approach"
  /\ StopOrFault("over", exit, "ARRIVED")
  /\ Rest

\* "settle": the gripper has closed, and get_state is on its way.
PickArrives ==
  /\ at = "finish" /\ outcome = "ARRIVED" /\ goal = "pick" /\ Joined
  /\ CASE call = "SUCCESS" -> Goto("settle") /\ Calm
       [] call = "CANCELED" -> StopAnyway("over", exit, "CANCELED")
       [] OTHER -> DeclareFault /\ Answer("over", exit, "FAULT")
  /\ Rest

StopsForLift == at = "settle" /\ StopAnyway("lift", exit, "ARRIVED") /\ Rest

(***************************************************************************)
(* _run_grasp_lift                                                         *)
(***************************************************************************)
\* The TCP cache was last filled when the tracking loop ended.
StartsLift ==
  /\ at = "lift"
  /\ IF cache = "fresh"
       THEN Goto("lifttop") /\ Calm /\ watchdog' = "on" /\ starved' = FALSE /\ caching' = TRUE
       ELSE DeclareFault /\ Answer("over", exit, "FAULT") /\ UNCHANGED <<dogVars, caching>>
  /\ UNCHANGED <<gripperVars, cache>>

\* Top of the loop: cancellation, safety, deadline, height reached, or another velocity.
LiftTop ==
  /\ at = "lifttop"
  /\ \/ cancel /\ StopOrFault("liftleave", exit, "CANCELED")
     \/ ~cancel /\ ~normal /\ StopAnyway("liftleave", exit, "ABORT")
     \/ ~cancel /\ normal /\ StopAndFault("liftleave", exit)
     \/ ~cancel /\ normal /\ cache = "fresh" /\ Goto("liftleave") /\ Calm
     \/ ~cancel /\ normal /\ cache = "fresh" /\ Goto("liftpublish") /\ Calm
     \/ StopAnyway("liftleave", exit, "ABORT")
  /\ Rest

LiftPublishes ==
  /\ at = "liftpublish"
  /\ Goto("lifttop")
  /\ arm' = "moving" /\ starved' = FALSE
  /\ UNCHANGED <<stopFailed, safetyVars, gripperVars, watchdog, cacheVars>>

\* The stop after the lift: its answer is not read either.
LeavesLift ==
  /\ at = "liftleave"
  /\ watchdog # "firing"
  /\ watchdog' = "off" /\ starved' = FALSE /\ caching' = FALSE
  /\ IF outcome = "ARRIVED" THEN StopAnyway("over", exit, "ARRIVED") ELSE Goto("over") /\ Calm
  /\ UNCHANGED <<gripperVars, cache>>

GoalStep ==
  /\ ~hung
  /\ \/ LoopTop \/ StartsClosing \/ WhileClosing
     \/ \E decision \in {"CONTINUE", "ABORT", "STOP"} : Decides(decision)
     \/ ComputesVelocity \/ PublishesVelocity \/ RejectsVelocity
     \/ Raises(Loop, "leave") \/ LeavesLoop
     \/ FinishesLost \/ ApproachArrives \/ PickArrives \/ StopsForLift
     \/ StartsLift \/ LiftTop \/ LiftPublishes \/ Raises(Lift \ {"lift"}, "liftleave") \/ LeavesLift

(***************************************************************************)
(* The other threads, and the world.                                       *)
(***************************************************************************)
CloseStep ==
  /\ Close!Drive \/ Close!Settle \/ Close!End
  /\ UNCHANGED <<threadVars, armVars, emergency, declaring, dogVars, cacheVars>>

\* SpeedlWatchdog._run: the pet may come between the look and the zero, and a thread
\* that leaves its loop sets the stop event first.
WatchdogLooks ==
  /\ watchdog = "on" /\ starved
  /\ at \notin {"leave", "liftleave"}
  /\ watchdog' = "firing"
  /\ UNCHANGED <<threadVars, armVars, safetyVars, gripperVars, starved, cacheVars>>

WatchdogFires ==
  /\ watchdog = "firing"
  /\ watchdog' = "on" /\ arm' = "still"
  /\ UNCHANGED <<threadVars, stopFailed, safetyVars, gripperVars, starved, cacheVars>>

PetAges ==
  /\ watchdog = "on" /\ ~starved
  /\ starved' = TRUE
  /\ UNCHANGED <<threadVars, armVars, safetyVars, gripperVars, watchdog, cacheVars>>

\* _on_tf_broadcast_timer, and time
CacheFilled ==
  /\ caching /\ normal
  /\ cache' = "fresh"
  /\ UNCHANGED <<threadVars, armVars, safetyVars, gripperVars, dogVars, caching>>

CacheAges ==
  /\ cache = "fresh" /\ cache' = "stale"
  /\ UNCHANGED <<threadVars, armVars, safetyVars, gripperVars, dogVars, caching>>

CancelRequested ==
  /\ at \notin Done /\ ~cancel
  /\ cancel' = TRUE
  /\ UNCHANGED <<threadVars, armVars, normal, emergency, declaring, gripperVars, dogVars, cacheVars>>

\* declare_fault in another thread: the level first, the stop some time later.  Contact is a
\* FAULT, a robot state a PROTECTIVE_STOP or an EMERGENCY_STOP.
FaultAssigned(thread) ==
  /\ thread \notin declaring
  /\ \/ thread = "poll" /\ emergency' = TRUE
     \/ ~emergency /\ UNCHANGED emergency
  /\ normal' = FALSE /\ declaring' = declaring \cup {thread}
  /\ UNCHANGED <<threadVars, armVars, cancel, gripperVars, dogVars, cacheVars>>

FaultStops(thread) ==
  /\ thread \in declaring
  /\ declaring' = declaring \ {thread}
  /\ \E ok \in BOOLEAN : MoveStop(ok)
  /\ UNCHANGED <<threadVars, cancel, normal, emergency, gripperVars, dogVars, cacheVars>>

\* task_manager asks for a recovery when no goal executes.
Recovered ==
  /\ at \in Done /\ ~normal /\ declaring = {}
  /\ normal' = TRUE /\ emergency' = FALSE
  /\ UNCHANGED <<threadVars, armVars, cancel, declaring, gripperVars, dogVars, cacheVars>>

Hangs ==
  /\ at \in Loop \cup (Lift \ {"lift"}) /\ ~hung
  /\ hung' = TRUE
  /\ UNCHANGED <<goal, at, exit, outcome, command, closer, closes>>
  /\ UNCHANGED <<armVars, safetyVars, gripperVars, dogVars, cacheVars>>

Next ==
  \/ \E g \in {"pick", "approach"} : StartGoal(g)
  \/ GoalStep \/ CloseStep \/ WatchdogLooks \/ WatchdogFires \/ PetAges
  \/ CacheFilled \/ CacheAges \/ CancelRequested
  \/ \E thread \in Declarers : FaultAssigned(thread) \/ FaultStops(thread)
  \/ Recovered \/ Hangs

(***************************************************************************)
(* Threads run on unless they hang, a close call ends (RG2Client!CallEnds),*)
(* and a pet that is not repeated grows old.                               *)
(***************************************************************************)
Fairness ==
  /\ WF_vars(GoalStep)
  /\ SF_vars(CloseStep /\ call = "running" /\ call' # "running")
  /\ WF_vars(WatchdogLooks) /\ WF_vars(WatchdogFires) /\ WF_vars(PetAges)

Spec == Init /\ [][Next]_vars /\ Fairness

-----------------------------------------------------------------------------
(***************************************************************************)
(* The arm rests when a goal is over, unless its MoveStop failed or the    *)
(* loop was left at a fault or at an invalid velocity, the two exits that  *)
(* send no MoveStop: whatever the watchdog and the close thread have done, *)
(* and also when the goal's own FAULT was dropped.  Then the goal has not  *)
(* stopped the arm, and it is the stop of the thread that declared the     *)
(* EMERGENCY_STOP that has come, or is still to come, after the goal's     *)
(* last velocity.                                                          *)
(***************************************************************************)
GoalLeavesArmStill ==
  at = "over" /\ declaring = {} /\ ~stopFailed /\ exit \notin {"fault", "invalid"}
    => arm = "still"

(***************************************************************************)
(* The close of a pick is settled with it: a goal that is over has no      *)
(* thread left that may still write to the gripper, and one that reports   *)
(* success closed it once, in this goal, and the close ended well.         *)
(***************************************************************************)
GraspSettled ==
  /\ at \in Done => call # "running"
  /\ at = "over" /\ goal = "pick" /\ outcome = "ARRIVED"
       => closes = 1 /\ call = "SUCCESS" /\ gripper = "rest"

(***************************************************************************)
(* A loop that hangs, or that computes nothing because the TCP position is *)
(* missing, does not leave the arm at its last velocity: the watchdog      *)
(* stops it.                                                               *)
(***************************************************************************)
UnfedArmStops ==
  watchdog = "on" /\ (hung \/ cache = "stale")
    ~> arm = "still" \/ watchdog = "off" \/ (~hung /\ cache = "fresh")

(***************************************************************************)
(* A canceled goal ends, also when the gripper is just closing.            *)
(***************************************************************************)
CancelEndsGoal == cancel ~> at \in Done \/ hung

=============================================================================

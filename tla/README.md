# Verification of the tool hand-over robot

A person asks for a tool by voice or on a screen; the robot looks for it, follows it on
the conveyor, grasps it, carries it to the person's hand and lets go when the person
pulls. This directory holds the TLA+ model of the program, the TLC runs that check it on
small instances and the TLAPS proofs that hold for every instance. Paths below are
relative to `src/src/` unless they start with `docs/`.

## 1. Inventory

| Component | State it keeps | Operations | Talks to |
|---|---|---|---|
| `task_manager` (one thread) | state of the hand-over, mode, safety level, present goal, pending cancellation, pending recovery, grasp retries, resume snapshot, six timers | user commands, tool tracks, faults, goal responses and results, answers of services, timers | sends `RobotTask` goals and cancels, calls `/vision/set_mode` and `/robot/recover`, reads `/robot/fault`, `/vision/tool_track`, `/user_command/text` |
| `task_manager/command_parser.py` | none | text to command | `task_manager` |
| `robot_control_node.py` (4 executor threads) | one reserved goal, TCP cache, latest robot sample | accept or refuse goals, poll the robot, TCP cache timer, dispatch | serves `RobotTask` and `/robot/recover`, publishes `/robot/fault` |
| `safety_monitor.py` | safety state, last fault text | check, declare, wait for a pull, recover | called from the poll timer, goal threads, the DRFL thread, the recover service |
| `task_executor.py`, `speedl_watchdog.py` | what the running goal has switched on: watchdog, subscription, compliance, RG2 close thread | the five goal types | Doosan driver, RG2, servo loops |
| `drfl_force_monitor.py` (own thread) | triggered, below count, suspended | process a torque sample | `declare_fault` |
| `rg2_client.py` | last status, configuration | open, close, read state, with retry | Modbus/TCP gripper |
| `servo_loop.py`, `hand_servo_loop.py`, `kalman.py` | filter, stability counters, grasp lock | track in, velocity out, close/abort decision | the tracking loop |
| `doosan_driver.py` | vendor service clients | move, stop, state, compliance, speedl | robot controller |
| `vision_node` | mode, tool, tracker, hand window | set mode, synchronised images, publish tracks | camera, detector |
| `operator_gui` (Qt thread, ROS thread) | last status, connection, buttons | commands, status display | `task_manager` |
| `stt_node` | capture loop, wake-up word | record, recognise, publish text | `task_manager` |
| `handover_interfaces` | none | message, service and action types | all |

How a hand-over runs: `fetch_tool` asks the camera for the tool and moves to *watch*; a
matching track starts `servo_pick`; its result is verified against the tool's grasp widths
(retry by `release_and_retry`); then `handover_safe`, `handover_approach` (hand tracking),
`handover_hold` (wait for the pull) and `home`. `stop`, a mode switch, `reset` and every
fault interrupt this at any moment by a cancellation that the robot confirms later.

What is hard here, and what correctness means for each part:

- **task_manager.** Every call is asynchronous and its answer may come late, never, or
  after the task that made it is over; generations and timers decide which answers count.
  Correct: no answer of the past moves the present task; one goal at a time; a
  cancellation, a recovery and every stage end; the retry budget holds; the stages agree
  with gripper, camera and grasp specification; the safety level is not relaxed silently.
- **robot_control.** Poll timer, goal threads, watchdog, DRFL thread, gripper thread and
  service calls interleave. Correct: a fault is declared once and never lowered or lost; no
  goal is accepted or succeeds away from NORMAL; when a goal is over the arm is at rest
  and compliance off; the gripper opens only after a pull and closes only in a live pick.
  The gripper timer uses the same Modbus connection as a gripper command, without a lock;
  a retried command may meet a gripper that still obeys the first attempt. Correct: an
  answer says what the gripper does, and every command answers.
- **servo loops with vision_node.** Frames, hand detections and mode changes come in any
  order, and what the tracker remembers outlives a mode. Correct: a height or a fist is that
  of the present tool and hand-over; the gripper closes only once each test was passed as often
  in a row as it needs; both loops end.
- **operator_gui, stt_node.** A fault and the status that confirms it come on two topics;
  the ROS thread may die; every audio call may raise. Correct: the operator comes to see
  every fault, closing the window ends, the microphone is listened to again.

The hazards list of PROJECT.json names the lines where each of these bites.

## 2. Modules

| Module | What it is |
|---|---|
| `TaskManager` | the node: state `tm` (its attributes), environment `up`, `tracks`, `gripper`; one action per callback; the safety properties |
| `MCTaskManager` | the fairness of its timers and its liveness properties, the module the runs check |
| `GoalSupervisor` | abstract specification: one goal, its cancellation, the safety level and the recovery, without stages |
| `RobotSafety` | `robot_control`'s safety state: `declare_fault` step by step, poll timer, DRFL thread, recover service, admission and reservation of goals |
| `HandoverSafety` | both nodes: `RobotSafety` with `GoalSupervisor` for `task_manager`, goals, `/robot/fault` and `/robot/recover` between them |
| `MCHandoverSafety` | fairness of the threads, liveness, and the two properties the code violates |
| `GripperCommand` | abstract specification: one gripper command, and what its status lets the caller conclude |
| `RG2Client` | `rg2_client.py`: open and close with waits, retries and stop, and the timer's `get_state` on the same connection |
| `RtTracking` | `servo_pick` and `handover_approach`: tracking loop, close thread, lift, watchdog, TCP cache, faults |
| `OpenGoals` | `move_named`, `release_and_retry`, `handover_hold`, and the `DrflForceMonitor` |
| `VisionNode` | `vision_node`: mode, what `ToolTracker` remembers, the cached hand, the track each frame publishes |
| `ServoLoops` | the decisions of `ServoLoop` and `HandServoLoop`: counters, locks, close, abort, grip-lost |
| `VisualServo` | `VisionNode` with `ServoLoops`, the tracks between them, fairness |
| `OperatorGui` | the window: ROS thread, hand-over of messages to the Qt thread, fault banner, buttons, closing |
| `SttNode` | the capture loop of the speech node |
| `OperatorInput` | `OperatorGui` with `SttNode`: a reset may be pressed or spoken |
| `TaskManagerProofs`, `TaskManagerFlowProofs`, `HandoverSafetyProofs`, `RG2ClientProofs`, `OpenGoalsProofs`, `RtTrackingProofs`, `VisualServoProofs`, `OperatorInputProofs` | theorems, see section 5 |

**TaskManager.** A ROS node spun by one thread runs a callback to its end, so one callback
is one step. Methods are operators from the record of attributes to the record after the
call (`RequestCancel`, `EnterFault`, `SendRobotGoal`, ...); they compose the way the methods
call each other, so the whole handler is one step, the trailing calls included. An
outstanding asynchronous call is a record in `tm.calls`. The code stamps calls with a
generation and compares it with the counter when the answer arrives; only equality
matters, so a call keeps one bit `current`, and incrementing the counter clears it
(`Retire`). The bit `timed` says that the call's response timer is still running: the
timer and the answer race. An endpoint may be absent or raise whenever a call is made
(`up`, limited to `Flaky`). `gripper` is what the robot's gripper holds, changed by the
goals as `task_executor.py` does; only a property reads it. Left out: the texts of status
messages, heartbeats and checkpoints, numeric tests on a track (a track triggers or not),
the difference between front, up and down moves. A grasp specification is named by its tool.

**RobotSafety, HandoverSafety.** `robot_control` has four executor threads, a DRFL thread
outside them and no lock around the safety state, so here a step is what runs between two
points at which another thread can matter: in `declare_fault` the priority test
(`Declare`), the two assignments (`AssignFault`), and, after the stop of the arm, the
publication (`PublishFault`); in the poll the read (`PollReads`) and the test against
`last_fault_reason` (`PollJudges`); in `recover` the test for NORMAL, the reads, the
control command and the assignment. `_goal_callback` tests the safety state (`AdmitGoal`)
and takes the reservation under `_goal_lock` (`ReserveGoal`). A fault text is told apart
by the controller state it quotes, the only thing the poll compares. `recover[r] = "yes"`
is an answer not read yet; `task_manager` counts only the call in `called`, which is what
its `_recovery_generation` does. `faults` is `/robot/fault`, reliable and in order.
`RobotChanges` is the controller and whoever presses its buttons. `HandoverSafety` uses
the actions of `GoalSupervisor`, justified by the refinement `Supervised`, and ties each to
the message behind it.

**RG2Client.** A command waits until the gripper is not busy, writes, and waits again; `at`
is the place in these. Each Modbus call is two steps, `_ensure_connected` and the call, as
the gripper timer may close `_client` between them: a thread holds the client it fetched,
and finds it "gone" once the other has closed it; `client` is "dead" when the peer has
dropped it and nobody has noticed. `drove` and `Settle` are the gripper obeying and coming
to rest. Width and force are not kept, as a retry writes the same ones. Stop (command 8) is
sent on a cancellation or a fault seen while the gripper moves.

**RtTracking.** A velocity holds until another or a MoveStop replaces it; `arm` is what it
leaves. The goal's thread, the close thread, the watchdog, the timer that fills the TCP
cache and another thread in `declare_fault` take their steps independently; the goal's
thread may hang in a call (`hung`). What the servo loops decide is free here: `ServoLoops`
says when they decide it. `exit`, `outcome`, `stopFailed` and `closes` are history for the
properties. `declaring` are the threads (poll timer, DRFL callback) that have assigned a
level in `declare_fault` and not yet sent its MoveStop; `emergency` says that the level is
EMERGENCY_STOP, below which the FAULT of the goal's own thread is dropped, MoveStop and all
(`safety_monitor.py:122`). PROTECTIVE_STOP and FAULT drop nothing of a goal's, so they are
one level here.

**OpenGoals.** Four goals: a move home or to watch, a move to another pose, a release with
its move, a hold. A robot sample counts only if it is new and fresh; the pull counter and
the monitor's hysteresis follow the code. `owed` is `compliance_on`; `quiet` records that
no stop and no release failed, and none was skipped by an exception. `contact` is what
touches the arm. The gripper call inside a goal, here and in `RtTracking`, is the abstract
`GripperCommand`, which `RG2Client` implements (`Promised`).

**VisionNode, ServoLoops, VisualServo.** `vision_node` has a single-threaded executor, so a
callback is one step. Of a height the model keeps which tool it was measured on and
whether at the grasp point. The published z is a mean, as `_filter_update` pulls the last
value towards the new one: the model keeps what is in it, the set of heights since the last
reset (`Mixed`), and not the weights; `known` marks those that went in when a height of the
grasp point was known. In the servo loops a step finds each test (position, height, speed,
yaw) passed or not; the four counters, each with its own threshold (`Need`), the two locks
and the decision follow the code. `recent` is history: which tests the last steps passed. `VisualServo` delivers tracks late or not at all. The decisions of a pick depend on
the arrival of a track and on its yaw only, so while a pick runs its tracks are free and
the memory of `vision_node` stands still, which keeps the product small; the memory is
checked while no pick runs, under every mode change.

**OperatorGui, SttNode, OperatorInput.** `task_manager` and the robot are reduced to what
they publish. A message on a topic waits for the ROS thread, then in `inbox` for the Qt
thread. The ROS thread may die and is started again by the reconnect timer. `heard` and
`raised` say what was published; `shower` is history, the fault whose message brought the
banner up, if no status of an earlier fault was under way then (`Alone`). In
`SttNode` every audio or network call may raise, and stopping meets the loop anywhere.

## 3. Runs

| Run | Question | Bounds | Distinct states |
|---|---|---|---|
| `tm_calls` | are goal, cancellation, recovery, waits and the retry budget accounted for when every endpoint fails at will and old tracks arrive late | one tool, one retry, two outstanding calls; all of reset, stop, fetch and resume | 1 217 760 |
| `tm_flow` | do the stages agree with goal, gripper, camera and grasp spec, and does the node implement `GoalSupervisor` | two tools, one not configured; every command but resume; no retry; no track of an old mode | 411 456 |
| `tm_live` | does every wait that has a deadline end | one tool, no retry, resume and manual moves, emergency stop; endpoints stay up | 39 506 |
| `tm_resume_empty` | violated: a carried stage has a verified grasp, once resume is allowed | one tool | stops at the violation |
| `hs_safety` | does `task_manager` know what `robot_control` has declared; does the robot execute one goal | two goals, two recover calls, one poll thread, protective stops, the action client may break | 1 571 438 |
| `hs_live` | does a declared fault make `task_manager` leave NORMAL, also one wiped out by a recovery | one goal, one recover call | 20 328 |
| `hs_unnoticed` | violated: an emergency stop is noticed | emergency stop, one goal | stops at the violation |
| `rg2` | does a gripper command answer, and truly; is a dead connection replaced; is it a `GripperCommand` | one retry, two network failures per command | 16 563 |
| `rt` | does a tracking goal leave arm and gripper settled, a hung loop the arm stopped, and a cancellation end it, also where `declare_fault` drops the goal's FAULT | none needed | 309 260 |
| `open` | does the gripper open only on a pull or before a safe move; is the arm left still and stiff; is a contact reported | two pull samples, hysteresis of two | 65 024 |
| `servo` | are heights and fists those of this tool and hand-over; does the gripper close only once each test was passed often enough in a row; do the loops end | two tools, two fist frames, thresholds 1, 2, 2, 2 | 286 812 |
| `ui` | does a fault reach the operator's eyes, does the window close, does the node go on listening | queues of one, two faults, one death of the ROS thread | 305 300 |

`MaxCalls` = 2 outstanding calls suffices for a stale and a present answer of any kind to
race, which is what the generations are for; a third would be a second stale one, treated
the same. One retry distinguishes "first", "last allowed" and "one too many". A second
tool matters only where two tasks' data could mix. `tm_flow` leaves `resume` and late tracks
out because its properties are false with them: see `tm_resume_empty`, `task_flow.py:91`
below and the hazard at `task_flow.py:377`. `Flaky` is the recover service alone in
`tm_flow`, so that `Supervised` is checked with a recovery that cannot be called; with
`set_mode` or the action client flaky its properties are false too (section 5).

In `hs_safety` two goals are a lost one and the present one, two recover calls an answer
given up and the one that counts, and three threads (poll, DRFL, handler) can be in
`declare_fault` at once. One unread message (`MaxFaults`) only delays the publishers. In
`rg2` one retry makes every call a first or a last attempt, and two failures suffice for
both to fail. Where `open` and `servo` count to two, counting to one could not tell
"enough" from "enough in a row". The four thresholds of `servo` are 1, 2, 2, 2 for the
configured 1, 5, 5, 5 (`robot_control_params.yaml`): the position test is passed once, the
others in a row. In `ui` a queue of one loses a status (keep-last), which
the code's depth of 10 does only under load; two faults are the one on the screen and the
one on its way. `ui` does not check deadlock, as a closed window and a stopped node are the
end. The theorems of section 5 hold for any values of these constants that their
hypotheses allow.

Seven configurations are kept that are not among the runs. Each shows a counterexample to a
claim that the code does not keep: `tm_safety_relaxed.cfg` and `tm_resume_blind.cfg` (module
`MCTaskManager`), `hs_lowered.cfg` (`MCHandoverSafety`), `rg2_canceled.cfg` (`RG2Client`),
`servo_lost_hand.cfg` and `servo_blended.cfg` (`VisualServo`), `ui_second_fault.cfg` (`OperatorInput`). Section 6
says what each refutes. Every module with a run also has its `TypeOK`, which can be added to
the run's INVARIANTS and is proved (in `HandoverSafety` as a part of `Knowing`).

## 4. Fairness

- `MCTaskManager`: the executor spins for ever, so an armed timer fires: weak fairness for
  the cancel, detect, vision and recovery timers, nothing else. Two waits have no deadline
  in the code and no property here: a goal's execution, and a reset that waits for a
  cancellation already timed out.
- `MCHandoverSafety`: a thread inside `declare_fault` runs on, the poll timer fires and
  `task_manager` reads `/robot/fault`; the services `declare_fault` waits for have timeouts.
- `RG2Client`: the command's thread and the timer run on, and the deadline of every wait
  passes. Nothing is assumed of the gripper or the network.
- `RtTracking`: a goal thread that does not hang runs on; the watchdog fires and its time
  passes; the close call ends, which `RG2Client!CallEnds` shows. `UnfedArmStops` is about a
  thread that hangs.
- `OpenGoals`: the goal's thread, the force monitor and a thread in `declare_fault` run on,
  and the call that opens the gripper ends.
- `VisualServo`: the loop takes its turns, `timeout_s` passes (it is above zero as
  configured) and the close thread ends. No track has to arrive.
- `OperatorInput`: the Qt thread handles its queue, connects again and goes on closing; the
  ROS thread spins and, while it does, reads both topics in turn (strong fairness, as
  reading one may make the other wait); the capture thread runs on, and opening the
  microphone does not fail for ever. Nothing is assumed of the operator.

## 5. Proofs

Every theorem holds for all values of the constants that the named assumption of its module
and the hypotheses of the theorem allow. Every invariant and every action property of the
passing runs, and both refinements, are proved. `TypeCorrect`, `SupervisorTypeCorrect`,
`ClientTypeCorrect`, `OpenGoalsTypeCorrect`, `TrackingTypeCorrect`, `VisualServoTypeCorrect`
and `InputTypeCorrect` say that the variables keep their ranges; the runs therefore do not
repeat it. The others rest on these invariants.

- `GoalsTracked`, `CancelsTracked`, `RecoveriesTracked`, `RetriesBounded`, `TasksWatched`
  (`TaskManager`: any tools, retry limit, failing endpoints, commands, faults, tracks as late
  as they like). None of the five properties is inductive alone: whether a cancellation can
  end depends on the goal's last reply being current, whether a recovery may be called on no
  cancellation being pending, whether the budget holds on the state a late result is
  handled in. The inductive invariant is `Inv = Book /\ Budget /\ Watched`. `Book` collects
  the facts about goals (`Goals`: exactly one current goal call while one is in progress),
  cancellations (`Cancels`), levels (`Guarded`: at NORMAL a pending cancellation has its timer
  and leads somewhere), recoveries (`Recovers`) and vision waits (`Waits`). A helper is called
  in the middle of a callback, where `Watched` does not hold yet, so its lemmas are stated for
  the weaker `Base`, and the action lemmas restore the rest. `InvMeaning` reads the five
  properties off `Inv`.
- `SupervisedButForStrayPicks`: `task_manager` implements `GoalSupervisor` in every behaviour
  in which no ToolTrack starts a pick away from NORMAL (`StrayPick`; `_on_tool_track` tests the
  state and not the safety level). Besides `Inv` this needs `Flow`: away from NORMAL a goal is
  one being cancelled (`Stopped`), no answer of `vision_node` is waited for there
  (`AnswersWanted`), the state the next result is handled in is the one whose goal was sent
  (`Matched`, `Carrying`). `Step` says of each callback that it keeps `Flow` and is a step of
  the supervisor or a stutter; there is one lemma per callback, on top of lemmas that say what
  each helper leaves behind. `FlowButForStrayPicks` reads `IdleMeansStill` and
  `GoalMatchesState` off the same invariant.
- `TaskManagerSupervised`, `IdleStill`, `StateShowsGoal`: a stray pick cannot happen where no
  track of a mode that was switched off is read (`~LateTracks`) and `vision_node` can always
  be asked (`"set_mode" \notin Flaky`), since every way out of NORMAL and every cancellation
  asks it to stop tracking (`Dark`). Both hypotheses are needed: TLC has a stray pick without
  either, the hazard at `task_flow.py:377`. Every other endpoint may fail.
- `VisionServes` needs in addition that nobody resumes, as the snapshots of `task_flow.py:62`
  and `:91` break it (section 6): then each stage follows its predecessor and `Staged` is kept.
  `GraspBacks` needs in addition that the action client does not break: when it does, a goal
  `task_manager` has forgotten can still move the gripper under a later task
  (`NothingLate`, `Gripped`).
- `SupervisorKeepsPromises`: the abstract specification recovers only at rest and, away
  from NORMAL, has only goals that are being cancelled. `NodeKeepsPromises` carries this over
  to the node by `TaskManagerSupervised`.
- `FaultsAreKnown` (`HandoverSafety`: any poll threads, recover calls, goals):
  `ManagerKnows` is not inductive, as an answer may be read long after it was given.
  `Knowing` adds that an answer still counted can be "yes" only if what was declared since
  is announced (`AnswerCounts`), and that counted answers exist only while the supervisor is
  "calling" (`Bookkeeping`), at RECOVERY_REQUIRED, hence not once a fault was read. Steps of
  `task_manager` that take nothing from the topic share one lemma (`Quiet`).
- `GoalsExecuteOneByOne`, `BusyOnlyWhileExecuting`: the robot executes one goal at a time and
  refuses as busy only while it executes another, which is then a goal `task_manager` has
  lost; from `ReservedForOne`: the reservation is there exactly while a goal executes.
- `AnswersAreTrue` (`RG2Client`: any retries, any failures): `AnswerMatchesGripper` needs
  to know what each place of a call says of its command and of the gripper (`Driving`),
  that a call runs exactly while its thread is somewhere (`Underway`), and that a stop is
  sent only for a cancellation or a fault (`Stopping`).
- `ClientKeepsPromises`: under that invariant every step is one of `GripperCommand` or a
  stutter (`StepImplements`), so `RG2Client` implements it for all constants.
- `OpensOnlyAsPromised`, `GoalsLeaveArmSafe` (`OpenGoals`: any number of pulls, any
  hysteresis): `Keeping` joins which goal can be where (`Placed`), that a sample is
  counted at most once, so the count never exceeds the pulls taken (`Counting`), what an
  answer presupposes (`Answering`), that only the move moves the arm and compliance is owed
  a release (`Quiet`, `Owing`).
- `GoalsLeaveArmStill`, `GraspsSettle` (`RtTracking`): `Settling` joins that the close
  thread exists exactly if the gripper was closed (`Closing`), where the goal can be while
  it closes (`Joining`), that the lift and a success follow a close that ended well
  (`Lifting`), and at which places a MoveStop has been sent or is still to come from a thread
  in `declare_fault` (`Stopping`, `Resting`); the watchdog only ever stops the arm, and nothing
  it can do disturbs these. The exits after a failed close and a failed unsubscribe rely on
  `declare_fault` alone. When it drops their FAULT, an EMERGENCY_STOP was assigned; the loop
  has not published since, for it tests the level before each tick, so the MoveStop that
  comes with the EMERGENCY_STOP is the last word. The theorem therefore says that the arm is
  still once no other thread has a MoveStop left to send; until then it may move although
  the goal is over.
- `HeightsAreOfTheGrasp`, `ReachedStaysReached` (`VisualServo`: any tools, thresholds):
  what the tracker remembers and what its filter has mixed while it tracks is of the tool
  it tracks, and of the grasp point once a height there is known (`Remembered`), the
  height lock is set with the first full count and holds the descent back (`Locked`), and
  an approach is given tracks of the hand only (`Facing`).

- `FistsAreOfThisHandover`, `ClosesSteadily` (action properties of `VisualServo`): the count
  of fists never exceeds the frames shown since the mode was set (`FistsShown`), and the
  counter of each test is the number of steps in a row that passed it in this goal, as far as
  its threshold asks (`Counting`), for any four thresholds, so
  the step that ends or closes at the threshold has the promised history behind it.
- `FaultsAreInView` (`OperatorInput`: any depth of the topic, any inbox, any number of
  faults): `NewsUnderWay` follows the last status from the topic through the inbox to the
  screen: what `task_manager` says now is the last on the topic, or, with the topic read, the
  last status in the inbox with nothing but faults behind it, or it has been handled.
- `PastNormalHidesNothing` (an action property): while the fault on the screen, come alone, is
  unheard (`Unheard`), it is the next one `task_manager` will hear of and every status under
  way is NORMAL, so nothing can confirm an abnormal level and no NORMAL hides the banner.
- `RecordsWithFreeMic`: inductive as it stands; only a close that took the stream leads to
  recording.

Only model-checked: liveness, as the prover has neither fairness nor ENABLED. These are
`VisionWaitsEnd`, `CancellingEnds`, `RecoveryDecided`, `FaultsArrive`, `CallEnds`,
`DeadSocketReplaced`, `UnfedArmStops`, `CancelEndsGoal`, `ContactReported`, `LoopEnds`,
`FaultComesIntoView`, `ClosingEnds` and `ListensAgain`. The violations are TLC's too.

## 6. What the code does differently from what it says

Documents and comments that the code contradicts, with the check that shows it:

- `action_coordinator.py:38` (also `:74`, `safety_recovery.py:24`) writes FAULT over
  EMERGENCY_STOP; the docs say the level is only raised. `tm_safety_relaxed.cfg`.
- `task_flow.py:62`: a "continue" snapshot survives a later fetch that ends without fault;
  resume then carries an empty gripper to the person. Run `tm_resume_empty`.
- `task_flow.py:91`: a "retry_pick" resume searches for the tool with the camera off.
  `tm_resume_blind.cfg`.
- `robot_control_node.py:557`: a fault is declared only if its text differs from the last
  one's, which a recovery does not clear; the same stop after a recovery is not declared.
  Run `hs_unnoticed`.
- `safety_monitor.py:122`: priority test and assignment are separate, so FAULT can replace
  EMERGENCY_STOP. `hs_lowered.cfg`.
- `rg2_client.py:278`: a retry that sees a cancellation before its write answers CANCELED
  without a stop, though the gripper may still obey the first attempt. `rg2_canceled.cfg`.
- `rg2_client.py:133`: a failing read of the timer closes the connection that the command
  has just made; the command loses a retry.
- `hand_servo_loop.py:103`: frames without a hand are messages too, so "hand_lost" is not
  reached by a lost hand, only `timeout_s` ends the approach. `servo_lost_hand.cfg`.
- `tracking.py:264`: a height of the box or of an end, seen before the first frame at the
  grasp point, stays in the mean and so in every later z, with `depth_valid` too, and a
  frame without the grasp point publishes that mean where `test_tracking.py:157` asks for the
  frozen value of the grasp point. `servo_blended.cfg`; `HeightOfTheGrasp` is what does hold.
- `vision_node.py:529`: with a hole in the depth image a height of the base frame stands in
  for a distance along the camera axis. From reading; coordinates are not modelled.
- `task_executor.py:548`, `:518`: an invalid velocity, and a loop that sees a fault, leave
  without MoveStop. At `:518` the one of `declare_fault` may come before the last velocity.
  `GoalLeavesArmStill` excludes these two exits and fails without either exclusion.
- `task_executor.py:983`: a call that switches compliance on and times out is never undone.
  `GoalLeavesArmSafe` counts such a goal as not `quiet`, and fails otherwise.
- `main_window.py:742`: with a second fault on the screen that `task_manager` has not heard of,
  the NORMAL that ends the first one hides the banner, until the next abnormal status: the
  first one's confirmation is still set. `ui_second_fault.cfg`; `StaleNormalKeepsBanner` is
  what does hold, for a fault that came alone.
- `main_window.py:822`: a status sent before `task_manager` heard of the fault enables the
  buttons the fault has blocked.

Without a sentence in the repository to compare with: a recovery can wipe out a fault
declared between its reads and its assignment (`safety_monitor.py:197`, `:219`;
`FaultsArrive` limits the damage, as that fault is still published and `task_manager` still
leaves NORMAL); answers of MoveStop are ignored at `task_executor.py:762`, `:776`, `:784`,
and of the cleanup at `:1055` (`stopFailed`, `quiet`); a blocking read of the gripper stands
before the MoveStop at `:776` without a watchdog; a goal whose FAULT is dropped below an
EMERGENCY_STOP (`:767`, `:578`) answers before the arm has stopped, which the other thread's
MoveStop does; `SendsMove` does not test the safety state
again after opening; `_fist_counter` counts frames and not detections, so one detection may
confirm a fist; a stream of `stt_node` that fails to close is overwritten by the next.

## 7. Not modelled

The Kalman filter, the control law, grasp geometry, coordinates and the weights of their
filters (floating point); detection and speech recognition (networks, external services); widgets, layout,
colours, checklist and camera view; texts of messages; dry-run branches, which move nothing;
start-up, parameters, launch files, `handover_interfaces` and the offline tools; the words
the command parser knows. `rclpy` and the executors are what their callbacks assume of them.

## 8. Plan

Done: all parts whose behaviour is control rather than arithmetic have a module and a run.
Left:

1. Proofs of the liveness properties' safety parts: from each waiting state the timer or the
   reply it waits for leads out (`NormalTaskIsWatched` is this for `task_manager`).
2. `CommandParser`: which command a text with several keywords becomes.
3. `RtTracking` and `OpenGoals` below `HandoverSafety`, whose goals are one running state.

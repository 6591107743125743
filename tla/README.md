# A verification of the MyArm M750 SDK

TLA+ models of the parts of the SDK in which several threads share a robot, of the
way a motion takes from a request to the firmware, of how a session comes out of a
configuration, and of the gates that release a build; the TLC runs that check them
on small instances, and TLAPS proofs for every instance.  Paths are relative to
the repository (`src/`); `PROJECT.json` maps every definition to the lines it models.

## 1. The system

| part | code | state it keeps | operations | models |
|---|---|---|---|---|
| driver state machine | `pycore/src/runtime/state_machine.py` | the driver state | `apply(event)`: transition or typed error | `DriverStates` |
| trajectory executor, admission | `pycore/src/runtime/executor.py`, `admission.py`, `scheduler.py` | execution lock, command lane, cancellation generation, active command, cached stop | `execute`, `cancel_current_command`, `stop_now` | `TrajectoryExecutor` |
| robot controller and session | `pycore/src/application/robot_controller.py`, `api/session.py` | connected flag, lifecycle lock | `connect`, `close`, `recover`, and the calls above | `RobotSession` |
| cameras | `pycore/src/application/camera_pipeline.py`, `api/camera_session.py` | per camera: state, thread, stop event, slot, counters; session: started | `start`, `close`, `latest_frame`, the worker thread | `CameraPipeline` |
| vendor serial adapter | `pycore/src/adapters/vendor_serial.py` | port, identity, observed capabilities, lock | `connect`, `disconnect`, `read`, `write`, `stop`, probe, status, with retries and deadlines | `VendorSerial` |
| mock and replay adapters | `pycore/src/adapters/mock_robot.py`, `replay_robot.py` | position; replay cursor | as above | not modelled |
| ROS driver lifecycle | `ros2/src/myarm_m750_driver/.../lifecycle_manager.py`, `driver_node.py`, `core_facade.py` | lifecycle state, facade | configure, activate, deactivate, cleanup, recover, shutdown, state poll | `DriverLifecycle`, `CoreFacade`, `DriverNode` |
| ROS action coordinator | `.../action_coordinator.py` | reserved goal, path violation, one worker | goal, cancel, execute and progress callbacks, shutdown | `ActionCoordinator`, `DriverNode` |
| goal conversion | `.../trajectory_converter.py` | none | convert, compare with tolerances | `GoalConversion`, `MotionPath` |
| trajectory validator, generator | `pycore/src/domain/safety/trajectory_validator.py`, `domain/models.py`, `runtime/trajectory.py` | none | `validate`, `generate`, constructors | `TrajectorySafety`, `MotionPath` |
| joint mapping | `pycore/src/adapters/joint_mapping.py` | none | core to firmware and back | `JointMapping`, `MotionPath` |
| configuration and session builder | `pycore/src/runtime/config/loader.py`, `api/builders.py` | the files read; objects built | `load_sdk_config`, `build` | `Startup`, `Commissioning` |
| live release gates | `tools/ros_runtime_gate.py`, `moveit_runtime_gate.py` | launches, probes, what was observed | one scenario, cleanup | `RuntimeGates` |
| kinematics, camera configuration, other tools, visualization, MoveIt packages | `domain/kinematics/`, `runtime/config/camera_loader.py`, `tools/`, `ros2/src/...` | none shared | numerics, documents, reports, launch files, plots | section 6 |

How they interact.  A `RobotSession` owns one `RobotController`, which owns one
executor, one state machine and one adapter.  Any thread may call the session:
`execute_trajectory` runs on the caller's thread and takes seconds, while
others cancel, stop, recover or close.  The ROS driver is such a caller, with a
pool thread for the command and executor threads for services, timers and
action callbacks.  Below the session the adapter has a lock of its own, which a stop
waits for, and a port that answers late or not at all.  A motion is a pure function
of the request, the measured state and the configuration up to the waypoints that
are written; the configuration is read from files that a deployment may replace.
The cameras are separate: each has its own thread, and consumers wait on its
condition variable.  The release gates start all of this as processes, drive it
through its ROS interface and have to clean up after any failure.

What is hard.  Three locks are held at different depths (lifecycle, execution,
lane); the driver state machine is atomic per call but the code around it
checks first and applies later; cancellation is a generation counter compared
at several points; stop is asked for by up to three parties and cached; the
adapter may refuse, fail or be closed at any step.  For the cameras: the worker
and `close` write the same state, a join may time out, and a thread that was
given up goes on.  In the ROS driver the lifecycle manager serializes transitions
with one lock, but the coordinator takes no part in it: it polls the state,
keeps a facade it read once, and cancels whatever command the core has published
by then, while its own may still be in the worker's queue.  The serial adapter retries
until a deadline, sleeps under its lock and looks at its claims without it.  The
pure parts are hard at their edges: orders of joints, values that are not finite,
rounding up, and two places that check the same thing.  The gates have to run every
cleanup when another cleanup raises.  The full list is under `hazards` in `PROJECT.json`.

What makes each part correct.

* Executor: what the caller is told is what happened; a cancel is final; the
  robot gets one stop per command; commands do not mix; a failure leaves the
  driver unready; no call waits forever.
* Session: its flag, the driver state and the adapter agree.
* ROS driver: one goal at a time; the lifecycle state is true of the hardware;
  what a goal reports is true of its command; every goal ends and frees the
  driver; nothing moves after the end of the process.
* Serial adapter: a late reply is a failure; the lock is held no longer than a deadline
  and one operation; what it claims of its port is true of it.
* Motion: numbers stay with their joint; nothing leaves the workspace unseen; what one
  stage accepts the next one takes.
* Startup: a session has the model its configuration pins; the loader has the last
  word on a configuration.
* Gates: every launch is stopped; a pass is earned; every gate ends.
* Cameras: frames are accounted for, waiting consumers are woken, CLOSED means
  released, a stopped thread ends.

## 2. Modules

| module | what it is |
|---|---|
| `DriverStates` | the transition table of the driver state machine as a function of state and event |
| `TrajectoryExecutor` | the command path: one action per interval between two points of interference, `pc[t]` naming the next step of thread `t` |
| `RobotSession` | connect, close, recover and the public calls; extends the executor's actions into the whole next-state relation; all properties of the core |
| `TrajectoryCommand` | the abstract specification: what a submitted trajectory promises, without threads, locks or generations |
| `MCRobotSession` | call budgets and symmetry for TLC |
| `RobotSessionProofs` | typing lemmas, theorem `TypeCorrect`; session, driver and adapter agree |
| `RobotSessionSafety` | the inductive invariant of the command path and the safety theorems |
| `RobotSessionRefinement` | the core implements `TrajectoryCommand` |
| `CameraPipeline` | camera workers, their session and their consumers |
| `MCCameraPipeline` | symmetry for TLC |
| `CameraPipelineProofs` | the inductive invariant of the cameras and its theorems |
| `CoreFacade` | the core as the ROS driver sees it: facade, session, worker thread |
| `DriverLifecycle` | the lifecycle manager; extends `CoreFacade` |
| `ActionCoordinator` | the callbacks of goals; extends `DriverLifecycle` |
| `DriverNode` | services, state poll and end of the process; the whole next-state relation and all properties of the driver |
| `GoalService` | the abstract specification: what the driver promises the clients of its action server, without threads, callbacks, lifecycle or queue |
| `MCDriverNode` | symmetry for TLC |
| `DriverNodeProofs` | the inductive invariant of the driver and its theorems; the driver implements `GoalService` |
| `VendorSerial` | the serial adapter: lock, retries against a deadline, probe, claims |
| `MCVendorSerial` | symmetry for TLC |
| `VendorSerialProofs` | the inductive invariant of the adapter and its theorems |
| `JointVectors` | joints and the vectors over them |
| `GoalConversion` | the checks of a goal, reordering, resolving and comparing tolerances: functions |
| `TrajectorySafety` | constructors, validator and generator: functions |
| `JointMapping` | firmware coordinates and back |
| `MotionPath` | the stages of one motion, from request to firmware; the properties of the chain |
| `MCMotionPath` | three joints, small whole numbers, the requests |
| `Startup` | loading and building, and the model file that is replaced meanwhile |
| `Commissioning` | `Startup`, and `MotionPath` on a session it built |
| `MCCommissioning` | the documents |
| `CommissioningProofs` | the invariants of `Startup` and `MotionPath`, lemmas on the validator, the generator and the tolerances, and their theorems |
| `RuntimeGates` | both release gates, their launches and the driver under test |
| `MCRuntimeGates` | the module TLC runs |
| `RuntimeGatesProofs` | the inductive invariant of the gates and its theorems |

### The core

State.  `driver` is `DriverStateMachine._state`; `adapter` is TRUE while the
hardware port is open; `execLock`, `lane` and `lifecycle` hold the owner of
`_execution_lock`, `_command_lane_lock` and the session's lifecycle lock;
`generation`, `active` and `stopOutcome` are `_cancellation_generation`,
`_active_command_id` and `_stop_outcome`; `cmd`, `point`, `accepted`, `handling`
are locals of `execute` (the command, the loop index, the generation it was
accepted with, being inside the except clause).  `writes`, `stops`,
`stopAcked`, `canceled` and `outcome` are history: what reached the hardware
and what the caller was told.

Grain.  A step ends where another thread can interfere: at a lock, at a read or
an apply of the state machine, at a call of the adapter.  Sections under the
lane lock that make no such call are one step; those that do keep the lane in
`lane` across their steps.  `_finish_canceled` and `_finish_failed` read the
state and apply an event in two steps, as the code does, and an apply that is
refused raises into the except clause (`Raise`), once; a second one leaves
`execute` with the exception (outcome `raised`).

The adapter is a port: every call succeeds, reports a failure, or raises, and
on a closed adapter it raises.  Admission's verdict, the freshness of a read
and the time of a waypoint are choices.  The public calls a thread makes are
bounded by `CallBudget`.

Left out: kinematics queries and other calls without side effects, metrics,
logging, the history of state records, the contents of a trajectory.

### The abstract specification

`TrajectoryCommand` knows only a phase, a number of waypoints and a result for
each command: one command at a time is open or closed; it sends waypoints while
open; it is closed once and sends nothing afterwards; it succeeds only when
open with every waypoint sent.  The mapping (`Phase` in `RobotSession`) reads a
command as closed from the moment a cancellation is accepted for it or a stop is
sent for it, and as open from its publication in the lane.

### The cameras

State.  `mode`, `thread`, `stopEvent`, `latest`, `consumed`, `captured` and
`overflow` are fields of `CameraWorker`; `worker` is the next step of its
thread, with `none` (never started), `unborn` (`Thread.start` raised) and `done`;
`device` is the capture port; `attempts` is the local of `_run`, counted up to
one past the limit.  `started`, `op`, `todo`, `begun`, `now`, `failed` are the
session: which of start, rollback and close holds its lock, and how far it has
come.  `ask` is the `latest_frame` call of each consumer, `delivered` the
history of what consumers got.

Grain.  One action per locked section or per call of the device or the stop
event.  The clock is abstracted: a wait with a timeout may end at any time, a
read may give a frame or fail, and a join may find the thread alive.  The order
of the workers in the session's dictionary is any order.  The capture device
numbers its frames on from where it stopped (`opencv_capture.py:120-133`).

Left out: counters of timeouts, errors and reconnects, back-off times, reads of
state and metrics.  `capture.close` is assumed not to raise, and one read to be
bounded by its timeout, as the port promises; the repository's own README says
that a stalled V4L read on real hardware is unverified (`README.md:525`).
`latest_frame` without `after_sequence` may return a frame of an earlier start:
the slot is never emptied; the model has this too (`Ask` with `after` 0).

### The ROS driver

State.  `facade` and `lifecycle` are `_facade` and `_state` of the manager;
`transition` names the next call of the facade inside a transition, which holds
`_lock` throughout (`Unlocked` is `transition = "none"`).  `link` is the session
behind the facade: `closed`, `open`, `faulted` (open, the core is in FAULT) or
`dead` (it calls itself connected but its port is lost, which a failed close
leaves).  `pool` is the queue of the one-thread `_worker`, `work` how far the
command of each goal is: `queued`, `admitting` (readiness check and validation),
`published` (active in the core, not yet EXECUTING), `running`, and the same two
after a stop that was acknowledged (`withdrawn`, `stopping`) or that failed
(`void`, `failing`).  `shut` is the worker after `shutdown`.  `exec` names the
next step of the callbacks of each goal, `handle` the state of its rclpy handle,
`fac` the facade its callback read, `sent` its local `cancel_sent`; `reserved`
and `accepted` name the goal for which `_goal_reserved` and `_accepted_goal` were
set (the code keeps no name), `strayed` says that `_path_violation` is not empty.
`polling` is the state poll between its check and its read; `node` the steps of
the end of `main`.  `outlived` is history for one finding.

Grain.  Every call of the session is one step: what happens inside it, and that
its outcomes are the ones `CoreFacade` offers, is the subject of `RobotSession`.
Where a callback reads the lifecycle state or the facade it waits for the
manager's lock.  Two reads merged into one step are the reservation's
description and the facade (nobody else can take the first), the start check and
the submission, and the last check for a cancellation with the settling loop,
which does the same (stop, then canceled).  The release of a goal and the state of
its handle are two steps; a goal that finds the driver inactive is released
first (`refuse`), so another may be accepted before its handle is aborted.

The promise.  `GoalService` keeps three things: what the client of each goal is
told, what the command of each goal can do to the robot, and whether the port is
open.  `ServesGoals` says that the driver implements it, with `Told` of a goal's
handle (a request for cancellation changes nothing yet), `Moves` of its command
(`running` moves; what has been stopped, whether or not the stop was acknowledged,
does not) and an open or faulted session as the open port.  So goals are executed
one at a time, a command starts to move once, alone and on an open port, a close
stops what moves, a success is a complete motion, and behind a cancellation nothing
can move any more.

rclpy is external: `canceled()` raises unless the cancellation was requested,
`succeed()` and `abort()` are allowed while canceling, services exclude one
another (`lifecycle_group`), the action callbacks do not, and the executor's
shutdown waits for running services, timers and goal callbacks but not for
execute callbacks.

Left out: diagnostics and feedback (no state), parameters, the conversion of a
goal and its tolerances (choices), waypoints (the core's), and the automatic
transitions of the constructor (a prefix of the requested ones).

### The serial adapter

State.  `lock` holds the owner of `_lock`; `vendor`, `identity` and `observed` are
`_vendor`, `_identity` and the stop entry of `_observed_capabilities`.  Connections
are numbered, so that the identity of one is not that of the next.  `declared` and
`hasStop` are the deployment's: what it declares of stop, and whether the vendor
class has the method.  `call`, `tries`, `wait`, `port`, `probed`, `seen` are locals;
`left` is the time left to the deadline of a call's context; `reply` is history.

Grain.  Under the lock a step is one operation of the vendor library, one sleep or
one assignment others look at; `stop` reads the claim, and `read_hardware_status`
its three fields, without the lock, so each look is a step.  Time is explicit:
`Tick` lets it pass while the holder of the lock is in an operation of at most
`OpTime` or in a sleep, and at any time for the others.  That an operation of the
library returns at all is assumed, as its own serial timeout promises.

Left out: diagnostic counters, the sample number, logging, and the capabilities
nobody calls (pause, resume, power).

### Motion

State.  `MotionPath` takes one request through `stage`: a goal is converted, a move
generated from the measured state, a trajectory of a caller taken as it is; it is
then constructed and validated (`Admit`), sent waypoint by waypoint through the joint
mapping (`Send`).  A goal is watched on its way: after each waypoint the joints are
measured (`readings`) and compared with that waypoint (`Watch`, the progress callback),
a violation stays, and `result` is what the goal ends with: off its path (`EndOffPath`)
or as the last reading and the goal tolerances decide (`Settle`).  A goal that is
canceled or whose command fails ends in `DriverNode`.  Threads, locks and time are
the business of the modules above; here each stage is a function and the question is
whether they fit.

Data.  Numbers are whole and the quotients of the validator are kept as fractions, so
that every comparison is exact; the tolerances the code allows for rounding (1e-12)
are zero.  `NonFinite` is what NaN and the infinities have in common: no comparison
with it holds.  Kinematics are two predicates (`Outside`, `Singular`) on a position
of the joints.  The generator is modelled where its cubic is one of whole numbers
(`WholeCubic`), with time counted in periods of the command rate.

The validator's loop over the points carries the previous position, time and velocity
along.  Since every trajectory it sees was constructed, its times increase, the branch
that leaves them behind is never taken, and what is carried is that of the point before:
`PointViolations` says what one turn finds from the two points it looks at, and
`Validate` collects them.  `Along` is the sample a part of the way between two waypoints.

`NoLongExcursion` is said of the way, not of the samples: of any stretch between two
fortieths of a way between waypoints, if it is longer than the resample step in the
joint that moves furthest, some place is inside.  It is the most that sampling can
promise, and the property that rounding the number of samples down breaks.

### Startup

State.  `document` is what the files say, a record of records; `model` the robot model
file, which `ReplaceModel` may exchange between any two of the four times it is read
(SHA-256 of its bytes, fingerprint of its contract, the parse, and the fingerprint
the kinematics provider takes); `parsed` is the model that was parsed.  A contract that
was replaced does not come back: with A, then B, then A the parse could read B between
two checks that see A, and the code has no way to notice.

`Commissioning` composes the two: `Build` until a session is built, then `Operate`.

### Release gates

State.  A gate is a sequence of steps (`RosSteps`, `MoveitSteps`), `pc` its position,
`failing` an exception on its way.  A launch is its leader and its nodes, and the last
signal it was sent.  The driver under test has a lifecycle state, diagnostics in a
queue of the depth of the subscription, and one goal.  `seen` is what the probe
recorded.

Grain.  A step of the gate is one call of a scenario or one wait of a stop.  Where an
exception goes is `HandlerOf`: the next stop whose `try` was open.  The ROS gate opens
the `try` of a scenario only after the node (and probe) were constructed; `exposed`
records launches an exception met before that, or in the middle of their own stop.

Left out: the numbers of a report and the elements of a description, which are
outcomes (`StepRaises`); the environment of the processes.

## 3. Runs

Every passing run but `motion` checks deadlock; a motion ends.  In the core, the adapter and
the driver, `Quiet` lets the system stop when all calls have returned, so a deadlock is a call that waits forever.

| run | instance | states | what it shows |
|---|---|---|---|
| `commands` | 3 threads, 2 commands of 2 waypoints, one connect, cancel, stop, close, recover | 1.3 M | type invariant, ownership of EXECUTING, truth of success and of cancel, one stop, no write after a stop, exclusive writes |
| `reconnect` | 2 threads, one command of 2 waypoints, two connects, cancel, stop, close, recover, fair | 0.32 M | session, driver and adapter agree; failures latch; the core implements `TrajectoryCommand`; every call returns |
| `one_camera` | 1 camera, 2 consumers, 3 frames, 1 reconnect, thread start may fail, fair | 0.15 M | frames, wakeups, settled states, stopped threads end |
| `two_cameras` | 2 cameras, 1 frame, rollback | 0.31 M | CLOSED means released; a clean close has released all, a clean rollback all it had started |
| `driver` | 2 goals, 3 lifecycle transitions, every call may fail, the process may end at any time, fair | 0.37 M | the driver implements `GoalService`; goals end, states and results are true, the process ends quietly |
| `vendor` | 2 threads, 5 calls, 1 retry, deadline, delay and operation of 2 units | 2.2 M | deadlines, the port of an operation, claims, torn statuses, the lock |
| `motion` | 3 joints; every document one value away from a shipped one and two among related keys; 4 models; some 700 requests from 2 states, 3 readings | 0.30 M | the motion chain, the watching of a goal, and startup |
| `gates` | both gates, 5 diagnostics in a queue of 2, 1 death, 2 interrupts, fair | 0.94 M | launches are reaped, passes are earned, gates end |
| `stop_during_admission`, `deactivate`, `core_fault`, `budget` | smallest instances | | findings, section 4 |

Why the bounds are enough.  Three threads are a command, somebody who
interrupts it, and somebody who closes or recovers meanwhile; the protocol has
three locks and no step looks at more than two other parties.  Two commands are
needed for a stop or a generation of one to reach the other; a third meets
nothing a second has not left behind, since `Publish` resets the cache.  Two
waypoints give a first, a middle and a last position in the loop.  `reconnect` makes do
with two threads and one command because its safety properties and the refinement are
proved for every number of them; what it adds is the composition of all calls with
liveness.  One reconnect
reaches the limit, the exhaustion and the reset after a frame; three frames fill
the slot, overwrite it and leave one; two consumers compete for it; two cameras
are the least a rollback can leave half done.  Two goals are one and its
successor, which is all the reservation lets meet; three transitions reach an
active driver and one more call (deactivate, recover after a fault, cleanup).
What a driver does that is deactivated and activated again needs a fourth: the
run `deactivate` has it with one goal, and the proofs cover any number.

In `vendor` five calls are a connect and a probe, a call in progress, and a disconnect
and connect against it; a delay and an operation as long as the deadline make a reply
early, on time and late, and a sleep that has to be cut; one retry reaches the last
attempt.  In `motion` three joints tell a rotation from its inverse, which two do not;
a step limit of three samples per segment makes rounding visible; the positions lie
inside, at the edge of and beyond an obstacle narrower than a segment.  A document one
value away from a good one shows what one check misses; the keys that are compared
with each other vary in pairs.  Four models are a rewrite, another arm and an arm of
fewer joints beside the one that is pinned.  In `gates` the clean path needs five diagnostics, a
queue of two overflows, two interrupts reach a stop and the stop after it.

The proofs make the bounds immaterial for every safety property of every passing run;
what rests on them is the liveness properties alone.

Symmetry: threads are interchangeable, cameras and consumers too; it is not used
in the runs that check liveness.

Fairness.  `FairSpec` of the core asks weak fairness of each thread inside a
call: calls into the adapter return (the ports promise a bounded call) and the
operating system schedules threads.  Nothing is assumed of callers.  Weak
fairness suffices for the locks because the number of calls is bounded, so the
lane is contended only finitely often.  `FairSpec` of the cameras asks it of the
worker threads only; neither `close` nor a consumer has to come back.  `FairSpec`
of the driver asks it of a transition in progress, of the end of the process, of
each goal's callback and of the one worker thread: calls of the core return, which
is what `EveryCallReturns` shows of them, and threads are scheduled.  Nobody has to
ask for a transition, a goal or a cancellation, and the state poll need not go on.
`FairSpec` of the gates asks it of the gate's own steps (`GateStep`), its deadlines among
them, and of nothing else: launches, driver and messages owe it nothing.

Mutants.  Each property is also checked against a plausible mistake in one
action (listed under `mutants`): a recheck left out, a stop sent again, a
generation not advanced, a lane not released, a frame not counted, a notify
forgotten, a thread not looked at after the join, a reservation not looked at, a
goal not released on an early return, a close whose failure is swallowed, a
worker not waited for, a deadline not looked at, a lock not given back, an inverse
permutation, a quotient rounded down, a check left to somebody else, a cleanup
skipped, a wait without an end.

## 4. Findings

The runs below each check a statement of the repository's own text that the
code does not meet.

* `stop_during_admission`: `stop_now` cancels "any generation", but a command
  takes its generation only after admission; a stop in between is not seen.
* `deactivate`: `NO_ACTIVE_COMMAND` counts as a safe answer, but a command that is
  queued or in admission is not active yet; deactivate reports success, the goal
  polls the state too late to notice, and after the next activate it moves the
  robot.
* `core_fault`: a failed trajectory leaves the core in FAULT and the driver ACTIVE,
  where `recover`, "the single recovery policy", is refused; every goal fails
  until somebody deactivates.
* `budget`: the sample budget of the validator is skipped from the first position
  that is not finite on, although the finite segments are still sampled; such a
  trajectory is refused, but only after more kinematics samples than the budget.

Further statements of the repository that the code does not meet have a definition in
the models and no standing run:

* `DisconnectBoundsActiveWork` (`RobotSession`): `disconnect` reads the state once
  (`robot_controller.py:100`); a command accepted after that read has the adapter closed
  under it without a stop.
* `FailedStopFaults` (`RobotSession`): a stop that fails during a recovery is not
  recorded as FAULT (`executor.py:100`) and the recovery ends in IDLE.
* `StartedMeansRunning` (`CameraPipeline`): a camera start after a close that timed out
  takes the thread on its way out for a running one (`camera_pipeline.py:56`); the
  session reports started and the camera ends.
* `StopOnProbedPort` (`VendorSerial`): `stop` reads its claim without the lock
  (`vendor_serial.py:357`); a disconnect and a connect in between have it sent on a port
  that was not probed, against the docstring at line 447.
* `GroupsStop` (`RuntimeGates`): `stop` of the ROS gate requires "the complete launch group
  to stop" (`ros_runtime_gate.py:183`) but waits for the leader only; nodes may outlive a
  leader that died or obeyed SIGTERM first.

Smaller observations have no run.  A camera worker whose thread could not be
started is not rolled back and stays OPENING (`camera_session.py:53-60`).  A session
whose adapter raised on its close may stay connected with an idle driver and a closed
adapter, which `SessionAgrees` allows: the next operation fails, and the next close
sets it right.  A state
poll that fails because of a clean deactivation records FAULT in a driver that was
INACTIVE, and `recover` then opens the hardware.  The progress of a command whose
goal was given up counts as a path violation of the next goal.  An aborted goal may
still move the robot: when its command waits behind a failing one, its cancellation
reaches the other, whose failed stop raises, and the goal is aborted with its command
in the queue; after a recovery the worker begins it.  `GoalService` therefore lets
the command of an aborted goal start; that needs four transitions.  A cancellation
accepted after the check for a late stop is reported canceled without a stop; the
command has ended by then.  The close of a camera that times out
writes FAULT without notifying, so a waiting consumer learns it only at its own
timeout; `NoLostWakeup` is stated for frames and CLOSED.  After a stop failed in
`_finish_canceled`, the outcome is `failed` and the cached stop is not repeated,
which is what `OneStopPerCommand` states.
A Ctrl-C in the middle of a stop of a gate leaves that launch (`Reaped` excludes it), and
so does a failure to construct the node of a ROS scenario after its launch was
started (`ros_runtime_gate.py:967`); a ROS probe whose `destroy` raises, or a
`destroy_node` that does, ahead of the stop in the same `finally` (lines 978-980 and
1003) would too, and is not a step of the model.  The time a stop waits for the adapter's lock is
bounded by the deadline of the call in front and one operation, but not by its own
deadline, so it may time out unsent.

## 5. Proofs

All theorems hold for every set of threads, number of waypoints, call budget,
set of cameras and consumers, every set of goals and number of transitions, every
set of joints, requests, documents and models, every timeout, delay and limit, under the named assumptions of the
modules (`NoThread` is not a thread, `Waypoints` is positive, `NoGoal` is not a goal, budgets are
naturals, there is a camera, bounds are naturals).

**Core safety** (`RobotSessionSafety`).  The properties are not inductive: that a
success was not canceled depends on what the generation means, which depends on
who owns the execution lock.  `SafetyInv` adds, in this order: who may own the
lock and at which steps (`Ownership`), that commands in flight are distinct and
their numbers not used again (`Identity`), that nothing happened to a command
before publication (`Freshness`), that EXECUTING belongs to a running, canceling
or failing owner (`ExecutingInv`), that the published command is the owner's
(`ActiveInv`), that a running command's generation is current exactly when it was
neither canceled nor stopped (`GenerationInv`), that the loop index counts the
writes (`WritesInv`), and that the cached stop is the one stop of its command
(`StopInv`).  Steps are classified as a step of `execute`, an invocation of it, a
halt (any step that stops or cancels), or outside; each class is one lemma.

| theorem | property |
|---|---|
| `TypeCorrect` | `TypeOK` |
| `ExecutingIsOwned` | `ExecutingHasOwner` |
| `SuccessIsTrue`, `CancelIsTrue` | `SuccessIsUninterrupted`, `CanceledMeansStopped` |
| `StopIsSentOnce`, `NothingAfterStop`, `OneWriter` | `OneStopPerCommand`, `NoWriteAfterStop`, `WritesAreExclusive` |
| `FailureIsLatched` | `FailureLatches` |
| `CoreKeepsPromise` | `KeepsPromise`, refinement of `TrajectoryCommand` |
| `SessionIsConsistent` | `SessionAgrees` |

**Refinement** (`RobotSessionRefinement`) adds that whatever happened to a command
is over or in the hands of a call (`Accounted`) and that a failing call has sent
its stop before it decides (`Reported`); each step then maps to one abstract step
or to a stutter.

**Lifecycle** (at the end of `RobotSessionProofs`) needs only typing: who holds the lifecycle
lock, which steps run in CONNECTING, and when the adapter is closed.

**Cameras** (`CameraPipelineProofs`).  `CameraInv` adds to the properties that the
slot holds the device's last frame or the one before it (`SlotInv`: frames handed
out end with the one consumed, so a newly handed-out frame is new and the count of
`FramesAccounted` moves by one), at which steps the device may be open and what
the state says about the thread (`ModeInv`), and that the workers a close, or a
rollback, has come past without a failure have no thread (`CloseInv`).  Theorems:
`CamerasTyped`, `FramesAreAccounted`,
`WakeupsAreKept`, `ClosedMeansReleased`, `DeadSettles`, `CloseDoesRelease`.

**ROS driver** (`DriverNodeProofs`).  That a result is true depends on the queue:
a success is reported after a check of the path violation, which the progress of
another goal's command could set again.  `DriverInv` therefore says that the queue
holds each unfinished command once and only its head is past `queued` (`PoolInv`),
that the command of the reserved goal is the last in it, so that when that goal's
command is over the queue is empty (`LastInv`), and how far a command is at each
step of its goal (`StepInv`).  `LinkInv` says what the manager's state and its next
call mean for the session, and that only a command of the current facade runs and
only on an open session; `NodeInv` what the end of the process has already done.
The calls of the core are classified once (`Nudged` for those that stop commands,
`WorkMoves` for the worker, `CallbackMoves` for the rest).

For the refinement `HandleInv` ties the handle to the callback: it has no state
before the acceptance and a terminal one exactly when the callback only has to
release the goal.  Then each kind of step maps to one step of `GoalService` or to a
stutter: callbacks (`CallbackServes`, `SubmitServes`),
calls that stop or close (`CancelTurns`, `CloseTurns`), the worker (`BeginServes`,
`WorkServes`), and the rest, which neither client nor robot notices (`Unseen`).

| theorem | property |
|---|---|
| `TypeCorrect` | `TypeOK` |
| `Serialized` | `OneGoalAtATime`: the reservation belongs to the one goal between acceptance and end (a conjunct of `DriverInv`, in no run) |
| `StateIsHonest` | `StateTellsHardware` |
| `ReportsHold` | `ReportsAreTrue` |
| `QuietAfterEnd` | `GoneIsQuiet` |
| `DriverServesGoals` | `ServesGoals`, refinement of `GoalService` |

**Serial adapter** (`VendorSerialProofs`).  That a status is never of an earlier
connection, or a claim of another port, depends on who may write what: `VendorInv` says
that a step under the lock belongs to its owner, that the owner's port is the open one
until it forgets it, that identity and claims are those of the open port or
withdrawn except at the steps between their assignments, that the looks of a status
are ordered by connection number, and how the time left bounds an operation and a
sleep.  One lemma per kind of step.

| theorem | property |
|---|---|
| `AdapterTyped` | `TypeOK` of `VendorSerial` |
| `LockIsReleased`, `LockIsHeldBriefly` | `LockReleased`, `LockHeldBriefly` |
| `LateReplyFails` | `LateIsFailure` |
| `PortStays`, `ClaimsAreHonest`, `StatusIsCurrent` | `PortKept`, `ClaimsHonest`, `StatusIdentityCurrent` |

**Startup** (`CommissioningProofs`).  `StartupInv` says at each step what has been
checked of the document and, of the model, that everything read before the current
contract changed was of a contract that will not come back; so the two fingerprints
that are equal enclose a parse of that contract.  That a loaded document builds
(`LoaderDecides`) is that each constructor's checks follow from the loader's.

**Motion** (`CommissioningProofs`).  `MotionInv` is in three parts: `SourceInv` ties the points to
the request they came from, through conversion, generation or construction; `OutcomeInv`
says that the verdict and the last firmware angles are those of these points; and `WatchInv`
that of a goal on its way no more readings were taken than waypoints sent, that there is a
violation exactly when one of them was off its waypoint, and which comparison the result
stands for (`ProgressInv`).  The first two are inductive because every stage is a function
of the one before; there, what is hard is what the functions have to do with each other.

* `AcceptedGoalsConstruct` and `NamesAreKept` rest on the lemma that the reordering indices
  of names that match are a permutation of them.
* `ExcursionsAreShort`.  An admitted way was resampled, since both its ends are finite and
  its positions whole (`AdmittedWay`); rounded up, the samples are no further apart than the
  step (`SamplesEnough`); so a longer stretch holds one (`SampleBetween`).
* `GeneratedPasses`.  In units of the d^3-th part of its way a joint's derived velocities
  are `CubicStep`, at most 3/2 d^2, and their changes at most 6 d (`CubicSteps`), which is also
  what the generator gives as velocity and acceleration; what `ProfileAllows` grants, divided
  by d or d^2, is what those bounds ask (`UnitBounded`).  The first point, at time zero and
  without a displacement, has no velocity derived at all (`GeneratedSteps`).
* `GoalsAreWatched`.  Of an accepted goal no name has two tolerances (`ToleranceEntries`), so
  resolving them by name finds the one that is given (`ToleranceResolved`); the point a
  reading is compared with has the numbers of the request under the names of the request, so
  the joints found off it are those that stray from the request (`StraysAreFound`).
* `MappingInverts`.  A direction is its own inverse; an admitted waypoint is finite.

That something increases, or has a least or a greatest element, is proved where it is
needed by taking the least counterexample (`LeastNatural`, from the well-foundedness of the naturals).

| theorem | property |
|---|---|
| `LoaderDecides` | `NeverRefusedLate` |
| `ModelIsPinned` | `BuiltOnPinnedModel` |
| `AcceptedGoalsConstruct` | `AcceptedIsConstructible` |
| `NamesAreKept` | `ConversionKeepsNames` |
| `ExcursionsAreShort` | `NoLongExcursion` |
| `GeneratedPasses` | `GeneratedIsSmooth` |
| `GoalsAreWatched` | `WatchedByName` |
| `MappingInverts` | `FirmwareRoundTrip` |

They assume what the constructors and loaders ensure: joint names are distinct, `NonFinite`
and `Unbounded` are no numbers, limits and measured states are whole numbers for every joint,
velocity and acceleration limits are not negative (`PolicyAssumption`, `StatesAssumption`),
directions are 1 or -1 (`MapperAssumption`), the mapper is one for the joints of the model
(`AxesAssumption`), a message has numbers where its type has them, and requests of the
core's callers have passed its constructors (`RequestsAssumption`).

**Release gates** (`RuntimeGatesProofs`).  The steps of a gate are data, so the proof
first says of the two sequences where each launch, its stop, and each requirement
stands.  `GateInv` then adds, to the types: a launch that is up and not exposed has its stop
still ahead (`LaunchInv`), and an exception goes to the next stop whose `try` was open, which
is no further than that (`HandlerIsNext`, `StopProtects`); a probe is up only in its own step or after
a Ctrl-C (`ProbeInv`); a forced launch is in the stop that will fail (`SignalInv`); on a run without an
exception, the number of transitions and the state of the driver are those of the steps
behind (`DriverInv`); diagnostics arrive in order and what was seen is no newer than what
was published (`DiagnosticsInv`); and what each step behind required was seen (`EarnedInv`).

| theorem | property |
|---|---|
| `LaunchesAreReaped` | `Reaped` |
| `PassesAreEarned` | `PassIsEarned` |

**Only model-checked**: `EveryCallReturns`, `StoppedWorkerEnds`, `GoalsEnd`,
`ShutdownEnds` and `GateEnds`, which are liveness under fairness and beyond the prover.
The findings of section 4 are counterexamples, and rest on their runs.
That `CoreFacade` offers all outcomes the
session's calls have, and that the port of `RobotSession` offers all those of
`VendorSerial`, is argued from the code, not proved.

## 6. Not modelled

* Forward and inverse kinematics, `math3d` and the Pinocchio provider: floating-point
  linear algebra, out of reach of model checking.  They enter the validator as predicates
  and the session as calls without side effects.
* Rounding: the models of the motion chain are exact, so they say nothing about the
  tolerances of 1e-12 and 1e-9 in the code.
* `interpolate_desired_position` (`trajectory_converter.py:128`): the driver never calls it;
  progress is compared with waypoints only.
* `camera_loader.py`: checks of a document as in `loader.py`, without a file that is read
  twice or constructors that check again.
* The mock and replay adapters: every outcome they have is one the session model lets
  an adapter have.  The capture devices are external to `CameraPipeline`.
* `verify_release.py` and the other tools: sequential scripts that read files and report.
* Visualization and MoveIt packages: launch files, plots, statistics over samples.

What would come next, in this order: `RobotSession` as an implementation of `CoreFacade`;
`VendorSerial` as one of the port of `RobotSession`.

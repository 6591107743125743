---------------------------- MODULE CameraPipeline ----------------------------
(***************************************************************************)
(* The cameras of the core: CameraSession (api/camera_session.py) and one  *)
(* CameraWorker (application/camera_pipeline.py) per camera.               *)
(*                                                                         *)
(* A worker thread opens its device, reads frames into a slot of depth one *)
(* and reconnects after a failure.  Consumers wait for the slot.  start    *)
(* and close of the session hold one lock, so at most one of them runs;    *)
(* each goes through the workers in the order of the profile, which is any *)
(* order here.  The worker's clock is not modelled: a wait with a timeout  *)
(* may end at any time.                                                    *)
(***************************************************************************)
EXTENDS Integers, FiniteSets

CONSTANTS
    Cameras,          \* enabled cameras of the profile
    NoCamera,         \* the session is not in the middle of closing a worker
    Consumers,        \* threads calling latest_frame
    MaximumAttempts,  \* reconnect.maximum_attempts; 0 is no limit
    FrameLimit,       \* bound: frames a device delivers in all
    SpawnMayFail      \* TRUE when the start of a thread may raise

ASSUME CamerasAssumption == Cameras # {}
ASSUME NoCameraAssumption == NoCamera \notin Cameras
ASSUME BoundsAssumption == MaximumAttempts \in Nat /\ FrameLimit \in Nat
ASSUME SpawnAssumption == SpawnMayFail \in BOOLEAN

VARIABLES         \* one per worker
    mode,         \* CameraWorker._state
    thread,       \* TRUE when _thread is not None
    worker,       \* next step of the thread
    stopEvent,    \* _stop_event is set
    device,       \* the capture device is open
    attempts,     \* attempts, counted up to one more than the limit
    sequence,     \* sequence of the last frame the device delivered
    latest,       \* sequence of _latest_frame, 0 when there is none
    consumed,     \* _consumed_sequence
    captured,     \* _frames_captured
    overflow,     \* _queue_overflow_count
    delivered     \* history: the sequences given to consumers

VARIABLES         \* the session and its callers
    started,      \* CameraSession._started
    op,           \* what the holder of the session lock runs
    todo,         \* workers it has not come to yet
    begun,        \* workers start has started and not yet forgotten
    now,          \* worker in the middle of close
    failed,       \* a close of the operation raised
    ask           \* the latest_frame call of each consumer

slotVars == <<latest, consumed, captured, overflow, delivered>>
runVars == <<worker, attempts, sequence>>
sessionVars == <<started, op, todo, begun, now, failed>>
vars == <<mode, thread, stopEvent, device, runVars, slotVars, sessionVars, ask>>

NoAsk == [at |-> "idle", camera |-> NoCamera, after |-> 0]

Init ==
    /\ mode = [k \in Cameras |-> "closed"]
    /\ thread = [k \in Cameras |-> FALSE]
    /\ worker = [k \in Cameras |-> "none"]
    /\ stopEvent = [k \in Cameras |-> FALSE]
    /\ device = [k \in Cameras |-> FALSE]
    /\ attempts = [k \in Cameras |-> 0]
    /\ sequence = [k \in Cameras |-> 0]
    /\ latest = [k \in Cameras |-> 0]
    /\ consumed = [k \in Cameras |-> 0]
    /\ captured = [k \in Cameras |-> 0]
    /\ overflow = [k \in Cameras |-> 0]
    /\ delivered = [k \in Cameras |-> {}]
    /\ started = FALSE
    /\ op = "none"
    /\ todo = {}
    /\ begun = {}
    /\ now = NoCamera
    /\ failed = FALSE
    /\ ask = [c \in Consumers |-> NoAsk]

-----------------------------------------------------------------------------
(* Shared pieces of the steps.                                             *)

\* Thread.is_alive: a thread that was never started or has returned is not.
Alive(k) == worker[k] \notin {"none", "unborn", "done"}

Goto(k, label) == worker' = [worker EXCEPT ![k] = label]

\* Condition.notify_all: the waiting consumers of the camera look again.
Notify(k) ==
    ask' = [c \in Consumers |->
              IF ask[c].at = "wait" /\ ask[c].camera = k
                THEN [ask[c] EXCEPT !.at = "look"] ELSE ask[c]]

\* _set_state, by the worker thread.
SetState(k, state) == mode' = [mode EXCEPT ![k] = state] /\ Notify(k)

-----------------------------------------------------------------------------
(* CameraWorker._run                                                       *)

\* The condition of the outer loop.
CheckStop(k) ==
    /\ worker[k] = "check"
    /\ Goto(k, IF stopEvent[k] THEN "closed" ELSE "opening")
    /\ UNCHANGED <<mode, thread, stopEvent, device, attempts, sequence, slotVars,
                   sessionVars, ask>>

EnterOpening(k) ==
    /\ worker[k] = "opening"
    /\ SetState(k, "opening")
    /\ Goto(k, "open")
    /\ UNCHANGED <<thread, stopEvent, device, attempts, sequence, slotVars, sessionVars>>

\* The device opens, even after close has asked the worker to stop, or raises.
OpenDevice(k) ==
    /\ worker[k] = "open"
    /\ \/ device' = [device EXCEPT ![k] = TRUE] /\ Goto(k, "streaming")
       \/ UNCHANGED device /\ Goto(k, "failure")
    /\ UNCHANGED <<mode, thread, stopEvent, attempts, sequence, slotVars,
                   sessionVars, ask>>

EnterStreaming(k) ==
    /\ worker[k] = "streaming"
    /\ SetState(k, "streaming")
    /\ Goto(k, "loop")
    /\ UNCHANGED <<thread, stopEvent, device, attempts, sequence, slotVars, sessionVars>>

\* The condition of the inner loop.
CheckLoop(k) ==
    /\ worker[k] = "loop"
    /\ Goto(k, IF stopEvent[k] THEN "finally" ELSE "read")
    /\ UNCHANGED <<mode, thread, stopEvent, device, attempts, sequence, slotVars,
                   sessionVars, ask>>

\* A frame, a timeout or a capture error; a device closed by the session gives
\* no frame.
ReadFrame(k) ==
    /\ worker[k] = "read"
    /\ \/ /\ device[k]
          /\ sequence[k] < FrameLimit
          /\ sequence' = [sequence EXCEPT ![k] = @ + 1]
          /\ Goto(k, "publish")
       \/ UNCHANGED sequence /\ Goto(k, "failure")
    /\ UNCHANGED <<mode, thread, stopEvent, device, attempts, slotVars,
                   sessionVars, ask>>

\* Mutant of Publish: a frame that waits is not told from one that was taken.
PublishUncounted(k) ==
    /\ worker[k] = "publish"
    /\ latest' = [latest EXCEPT ![k] = sequence[k]]
    /\ captured' = [captured EXCEPT ![k] = @ + 1]
    /\ attempts' = [attempts EXCEPT ![k] = 0]
    /\ Notify(k)
    /\ Goto(k, "loop")
    /\ UNCHANGED <<mode, thread, stopEvent, device, sequence, consumed, overflow,
                   delivered, sessionVars>>

\* Mutant of Publish: the waiting consumers are not told.
PublishSilently(k) ==
    /\ worker[k] = "publish"
    /\ overflow' = [overflow EXCEPT ![k] = IF latest[k] > consumed[k] THEN @ + 1 ELSE @]
    /\ latest' = [latest EXCEPT ![k] = sequence[k]]
    /\ captured' = [captured EXCEPT ![k] = @ + 1]
    /\ attempts' = [attempts EXCEPT ![k] = 0]
    /\ Goto(k, "loop")
    /\ UNCHANGED <<mode, thread, stopEvent, device, sequence, consumed, delivered,
                   sessionVars, ask>>

\* _publish, the reset of the reconnect count and the pause up to the next frame.
Publish(k) ==
    /\ worker[k] = "publish"
    /\ overflow' = [overflow EXCEPT ![k] = IF latest[k] > consumed[k] THEN @ + 1 ELSE @]
    /\ latest' = [latest EXCEPT ![k] = sequence[k]]
    /\ captured' = [captured EXCEPT ![k] = @ + 1]
    /\ attempts' = [attempts EXCEPT ![k] = 0]
    /\ Notify(k)
    /\ Goto(k, "loop")
    /\ UNCHANGED <<mode, thread, stopEvent, device, sequence, consumed, delivered,
                   sessionVars>>

\* The except clauses count the failure and wake the consumers.
CaptureFailure(k) ==
    /\ worker[k] = "failure"
    /\ Notify(k)
    /\ Goto(k, "finally")
    /\ UNCHANGED <<mode, thread, stopEvent, device, attempts, sequence, slotVars,
                   sessionVars>>

\* Mutant of Release: the device stays open between two attempts.
ReleaseNothing(k) ==
    /\ worker[k] = "finally"
    /\ Goto(k, "after")
    /\ UNCHANGED <<mode, thread, stopEvent, device, attempts, sequence, slotVars,
                   sessionVars, ask>>

\* The finally clause closes the device.
Release(k) ==
    /\ worker[k] = "finally"
    /\ device' = [device EXCEPT ![k] = FALSE]
    /\ Goto(k, "after")
    /\ UNCHANGED <<mode, thread, stopEvent, attempts, sequence, slotVars,
                   sessionVars, ask>>

\* A worker asked to stop leaves the loop; otherwise it counts the attempt.
CountAttempt(k) ==
    /\ worker[k] = "after"
    /\ IF stopEvent[k]
         THEN Goto(k, "closed") /\ UNCHANGED attempts
         ELSE /\ attempts' = [attempts EXCEPT ![k] =
                                IF @ > MaximumAttempts THEN @ ELSE @ + 1]
              /\ Goto(k, IF MaximumAttempts # 0 /\ attempts'[k] > MaximumAttempts
                           THEN "exhausted" ELSE "backoff")
    /\ UNCHANGED <<mode, thread, stopEvent, device, sequence, slotVars, sessionVars, ask>>

\* Mutant of EnterFault: the worker gives up without saying so.
EnterFaultSilently(k) ==
    /\ worker[k] = "exhausted"
    /\ Notify(k)
    /\ Goto(k, "exit")
    /\ UNCHANGED <<mode, thread, stopEvent, device, attempts, sequence, slotVars, sessionVars>>

EnterFault(k) ==
    /\ worker[k] = "exhausted"
    /\ SetState(k, "fault")
    /\ Goto(k, "exit")
    /\ UNCHANGED <<thread, stopEvent, device, attempts, sequence, slotVars, sessionVars>>

\* BACKOFF, and the wait that the stop event cuts short.
EnterBackoff(k) ==
    /\ worker[k] = "backoff"
    /\ SetState(k, "backoff")
    /\ Goto(k, "check")
    /\ UNCHANGED <<thread, stopEvent, device, attempts, sequence, slotVars, sessionVars>>

EnterClosed(k) ==
    /\ worker[k] = "closed"
    /\ SetState(k, "closed")
    /\ Goto(k, "exit")
    /\ UNCHANGED <<thread, stopEvent, device, attempts, sequence, slotVars, sessionVars>>

\* The thread is alive until it has returned from _run.
Exit(k) ==
    /\ worker[k] = "exit"
    /\ Goto(k, "done")
    /\ UNCHANGED <<mode, thread, stopEvent, device, attempts, sequence, slotVars,
                   sessionVars, ask>>

Run(k) ==
    \/ CheckStop(k) \/ EnterOpening(k) \/ OpenDevice(k) \/ EnterStreaming(k)
    \/ CheckLoop(k) \/ ReadFrame(k) \/ Publish(k) \/ CaptureFailure(k)
    \/ Release(k) \/ CountAttempt(k) \/ EnterFault(k) \/ EnterBackoff(k)
    \/ EnterClosed(k) \/ Exit(k)

-----------------------------------------------------------------------------
(* CameraWorker.latest_frame                                               *)

\* A consumer asks for any frame (after 0) or for one newer than a frame that
\* was handed out before.
Ask(c) ==
    /\ ask[c].at = "idle"
    /\ \E k \in Cameras : \E after \in {0} \cup delivered[k] :
          ask' = [ask EXCEPT ![c] = [at |-> "look", camera |-> k, after |-> after]]
    /\ UNCHANGED <<mode, thread, stopEvent, device, runVars, slotVars, sessionVars>>

\* One round of the loop, under the condition's lock: the frame is taken, or
\* the deadline has passed or the worker is over and the call raises, or the
\* consumer waits.
Look(c) ==
    LET k == ask[c].camera IN
    /\ ask[c].at = "look"
    /\ \/ /\ latest[k] > ask[c].after
          /\ consumed' = [consumed EXCEPT ![k] = latest[k]]
          /\ delivered' = [delivered EXCEPT ![k] = @ \cup {latest[k]}]
          /\ ask' = [ask EXCEPT ![c] = NoAsk]
       \/ /\ latest[k] <= ask[c].after
          /\ ask' = [ask EXCEPT ![c] = NoAsk]
          /\ UNCHANGED <<consumed, delivered>>
       \/ /\ latest[k] <= ask[c].after
          /\ mode[k] \notin {"closed", "fault"}
          /\ ask' = [ask EXCEPT ![c].at = "wait"]
          /\ UNCHANGED <<consumed, delivered>>
    /\ UNCHANGED <<mode, thread, stopEvent, device, runVars, latest, captured, overflow,
                   sessionVars>>

\* The wait times out.
WaitEnds(c) ==
    /\ ask[c].at = "wait"
    /\ ask' = [ask EXCEPT ![c].at = "look"]
    /\ UNCHANGED <<mode, thread, stopEvent, device, runVars, slotVars, sessionVars>>

Consume(c) == Ask(c) \/ Look(c) \/ WaitEnds(c)

-----------------------------------------------------------------------------
(* CameraSession.start and CameraWorker.start                              *)

\* A session that has started returns at once.
BeginStart ==
    /\ op = "none"
    /\ ~started
    /\ op' = "start"
    /\ todo' = Cameras
    /\ failed' = FALSE
    /\ UNCHANGED <<mode, thread, stopEvent, device, runVars, slotVars, started, begun,
                   now, ask>>

\* What start does to a worker whose thread is not alive.
Reset(k) ==
    /\ stopEvent' = [stopEvent EXCEPT ![k] = FALSE]
    /\ mode' = [mode EXCEPT ![k] = "opening"]
    /\ thread' = [thread EXCEPT ![k] = TRUE]
    /\ attempts' = [attempts EXCEPT ![k] = 0]

\* A worker whose thread is alive is left as it is.
StartWorker(k) ==
    /\ op = "start"
    /\ k \in todo
    /\ IF Alive(k)
         THEN UNCHANGED <<mode, thread, stopEvent, worker, attempts>>
         ELSE Reset(k) /\ Goto(k, "check")
    /\ todo' = todo \ {k}
    /\ IF todo = {k}
         THEN op' = "none" /\ started' = TRUE /\ begun' = {}
         ELSE begun' = begun \cup {k} /\ UNCHANGED <<op, started>>
    /\ UNCHANGED <<device, sequence, slotVars, now, failed, ask>>

\* Mutant of SpawnFails: the workers started before are left running.
SpawnFailsAlone(k) ==
    /\ SpawnMayFail
    /\ op = "start"
    /\ k \in todo
    /\ ~Alive(k)
    /\ Reset(k)
    /\ Goto(k, "unborn")
    /\ op' = "none"
    /\ todo' = {}
    /\ begun' = {}
    /\ UNCHANGED <<device, sequence, slotVars, started, now, failed, ask>>

\* The thread could not be started: the workers started before are closed.
SpawnFails(k) ==
    /\ SpawnMayFail
    /\ op = "start"
    /\ k \in todo
    /\ ~Alive(k)
    /\ Reset(k)
    /\ Goto(k, "unborn")
    /\ op' = IF begun = {} THEN "none" ELSE "rollback"
    /\ todo' = begun
    /\ UNCHANGED <<device, sequence, slotVars, started, begun, now, failed, ask>>

-----------------------------------------------------------------------------
(* CameraSession.close and CameraWorker.close                              *)

BeginClose ==
    /\ op = "none"
    /\ op' = "close"
    /\ todo' = Cameras
    /\ failed' = FALSE
    /\ UNCHANGED <<mode, thread, stopEvent, device, runVars, slotVars, started, begun,
                   now, ask>>

\* The operation goes on with the rest of its workers or returns.
EndOne(rest) ==
    /\ todo' = rest
    /\ now' = NoCamera
    /\ IF rest = {}
         THEN op' = "none" /\ started' = FALSE /\ begun' = {}
         ELSE UNCHANGED <<op, started, begun>>

\* The first locked section of CameraWorker.close.
CloseWorker(k) ==
    /\ op \in {"close", "rollback"}
    /\ now = NoCamera
    /\ k \in todo
    /\ IF thread[k]
         THEN /\ mode' = [mode EXCEPT ![k] = "stopping"]
              /\ stopEvent' = [stopEvent EXCEPT ![k] = TRUE]
              /\ Notify(k)
              /\ now' = k
              /\ UNCHANGED <<device, todo, op, started, begun>>
         ELSE /\ device' = [device EXCEPT ![k] = FALSE]
              /\ mode' = [mode EXCEPT ![k] = "closed"]
              /\ EndOne(todo \ {k})
              /\ UNCHANGED <<stopEvent, ask>>
    /\ UNCHANGED <<thread, runVars, slotVars, failed>>

\* The device is closed under the worker, outside the lock.
CloseDevice ==
    /\ now # NoCamera
    /\ now \in todo
    /\ device' = [device EXCEPT ![now] = FALSE]
    /\ todo' = todo \ {now}
    /\ UNCHANGED <<mode, thread, stopEvent, runVars, slotVars, started, op, begun, now,
                   failed, ask>>

\* Mutant of Join: the thread is not looked at again.
JoinUnchecked ==
    /\ now # NoCamera
    /\ now \notin todo
    /\ thread' = [thread EXCEPT ![now] = FALSE]
    /\ mode' = [mode EXCEPT ![now] = "closed"]
    /\ Notify(now)
    /\ EndOne(todo)
    /\ UNCHANGED <<stopEvent, device, runVars, slotVars, failed>>

\* The join ends, in time or not, and the thread is looked at again.  The join
\* of a thread that was never started raises.  A close that raises ends a
\* rollback; close of the session goes on.
Join ==
    /\ now # NoCamera
    /\ now \notin todo
    /\ IF Alive(now) \/ worker[now] = "unborn"
         THEN /\ mode' = [mode EXCEPT ![now] = IF Alive(now) THEN "fault" ELSE @]
              /\ failed' = TRUE
              /\ EndOne(IF op = "rollback" THEN {} ELSE todo)
              /\ UNCHANGED <<thread, ask>>
         ELSE /\ thread' = [thread EXCEPT ![now] = FALSE]
              /\ mode' = [mode EXCEPT ![now] = "closed"]
              /\ Notify(now)
              /\ EndOne(todo)
              /\ UNCHANGED failed
    /\ UNCHANGED <<stopEvent, device, runVars, slotVars>>

Session ==
    \/ BeginStart \/ BeginClose \/ CloseDevice \/ Join
    \/ \E k \in Cameras : StartWorker(k) \/ SpawnFails(k) \/ CloseWorker(k)

-----------------------------------------------------------------------------
Next ==
    \/ \E k \in Cameras : Run(k)
    \/ \E c \in Consumers : Consume(c)
    \/ Session

Spec == Init /\ [][Next]_vars

\* A worker thread goes on: reads of the device and waits for the stop event
\* have timeouts.
FairSpec == Spec /\ \A k \in Cameras : WF_vars(Run(k))

-----------------------------------------------------------------------------
(* Properties                                                              *)

Modes == {"closed", "opening", "streaming", "backoff", "fault", "stopping"}

WorkerLabels ==
    {"none", "unborn", "check", "opening", "open", "streaming", "loop", "read",
     "publish", "failure", "finally", "after", "exhausted", "backoff", "closed",
     "exit", "done"}

Asks ==
    {NoAsk} \cup [at : {"look", "wait"}, camera : Cameras, after : Nat]

\* The state is well typed.
TypeOK ==
    /\ mode \in [Cameras -> Modes]
    /\ thread \in [Cameras -> BOOLEAN]
    /\ worker \in [Cameras -> WorkerLabels]
    /\ stopEvent \in [Cameras -> BOOLEAN]
    /\ device \in [Cameras -> BOOLEAN]
    /\ attempts \in [Cameras -> 0 .. MaximumAttempts + 1]
    /\ sequence \in [Cameras -> 0 .. FrameLimit]
    /\ latest \in [Cameras -> 0 .. FrameLimit]
    /\ consumed \in [Cameras -> 0 .. FrameLimit]
    /\ captured \in [Cameras -> Nat]
    /\ overflow \in [Cameras -> Nat]
    /\ delivered \in [Cameras -> SUBSET (1 .. FrameLimit)]
    /\ started \in BOOLEAN
    /\ op \in {"none", "start", "rollback", "close"}
    /\ todo \in SUBSET Cameras
    /\ begun \in SUBSET Cameras
    /\ now \in Cameras \cup {NoCamera}
    /\ failed \in BOOLEAN
    /\ ask \in [Consumers -> Asks]

\* Every frame captured was handed to a consumer, counted as overflow, or is
\* still in the slot: none is lost and none is counted twice, whichever
\* consumers share the camera and however often it is reopened (_publish and
\* latest_frame).
FramesAccounted ==
    \A k \in Cameras :
        captured[k] = Cardinality(delivered[k]) + overflow[k]
                        + (IF latest[k] > consumed[k] THEN 1 ELSE 0)

\* No wakeup is lost: a consumer that waits without having been notified has
\* nothing to take, and its camera is not CLOSED (Condition.notify_all in
\* _publish, _set_state and close).
NoLostWakeup ==
    \A c \in Consumers :
        ask[c].at = "wait" =>
            /\ latest[ask[c].camera] <= ask[c].after
            /\ mode[ask[c].camera] # "closed"

\* A camera that says CLOSED has released its device and has no thread that
\* could open it again, although close and the worker write the state in any order.
ClosedIsReleased ==
    \A k \in Cameras :
        mode[k] = "closed" =>
            ~device[k] /\ worker[k] \in {"none", "unborn", "exit", "done"}

\* The state of a worker whose thread has ended is CLOSED or FAULT, unless the
\* close that asked it to end is still running.
DeadIsSettled ==
    \A k \in Cameras :
        worker[k] = "done" => mode[k] \in {"closed", "fault"} \/ now = k

\* A close of the session that raises nothing has ended every thread and
\* released every device; so has a start that could not start a thread, for the
\* workers it had started before, when no close of its rollback raised.
CloseReleases ==
    [][op # "none" /\ op' = "none" /\ ~started' /\ ~failed' =>
          \A k \in (IF op = "close" THEN Cameras ELSE begun) :
              ~Alive(k)' /\ ~device'[k] /\ mode'[k] = "closed"]_vars

\* A worker asked to stop ends with its device released, also when the close
\* that asked has given up waiting.
StoppedWorkerEnds ==
    \A k \in Cameras : stopEvent[k] /\ Alive(k) ~> ~Alive(k) /\ ~device[k]

-----------------------------------------------------------------------------
(* Statements of the documentation that the code does not meet             *)

\* CameraSession.start: "Start every configured worker".  Once the session has
\* started, no worker is on its way to stop.
StartedMeansRunning ==
    started /\ op = "none" => \A k \in Cameras : ~stopEvent[k]
=============================================================================

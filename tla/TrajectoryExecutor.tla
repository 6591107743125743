------------------------- MODULE TrajectoryExecutor -------------------------
(***************************************************************************)
(* The command path of the core (runtime/executor.py): any thread may call *)
(* execute, cancel_current_command and stop_now while others do the same.  *)
(*                                                                         *)
(* A call is a sequence of steps, one per interval between two points      *)
(* where another thread can interfere: taking a lock, reading or applying  *)
(* the driver state machine, calling the adapter.  pc[t] names the step    *)
(* thread t takes next.  Locks are variables holding their owner.  What    *)
(* the adapter answers is a nondeterministic choice among the outcomes the *)
(* executor tells apart; a closed adapter raises on every operation.       *)
(*                                                                         *)
(* The actions are composed with the session's in RobotSession.            *)
(***************************************************************************)
EXTENDS DriverStates, Integers, FiniteSets

CONSTANTS
    Threads,      \* threads calling the public API
    NoThread,     \* owner of a free lock
    Waypoints,    \* points of an admitted trajectory
    CallBudget    \* how often each public call is made, a function on Calls

Calls == {"execute", "cancel", "stop", "connect", "close", "recover"}

ASSUME NoThreadAssumption == NoThread \notin Threads
ASSUME WaypointsAssumption == Waypoints \in Nat \ {0}
ASSUME CallBudgetAssumption == CallBudget \in [Calls -> Nat]

Commands == 1 .. CallBudget["execute"]
NoCommand == 0    \* _active_command_id is None

VARIABLES
    driver,        \* DriverStateMachine._state
    adapter,       \* TRUE while the hardware port is open
    execLock,      \* owner of _execution_lock
    lane,          \* owner of _command_lane_lock, when held across steps
    generation,    \* _cancellation_generation
    active,        \* _active_command_id
    stopOutcome,   \* _stop_outcome: the command stopped last and the result
    pc,            \* next step of each thread
    cmd,           \* command_id of the thread's execute call
    point,         \* point_index of that call
    accepted,      \* accepted_generation of that call
    handling,      \* TRUE inside the except clause of that call
    budget         \* public calls not made yet

VARIABLES          \* history: what happened to each command
    writes,        \* write_joint_target calls that reached an open adapter
    stops,         \* hardware.stop calls issued
    stopAcked,     \* commands with a stop the hardware reported done
    canceled,      \* commands whose cancellation was accepted in the lane
    outcome        \* how the execute call ended

locals  == <<cmd, point, accepted, handling>>
lanes   == <<generation, active, stopOutcome>>
history == <<writes, stops, stopAcked, canceled, outcome>>
execVars == <<driver, adapter, execLock, lane, lanes, pc, locals, budget, history>>

NoStop == [id |-> NoCommand, ok |-> FALSE]

ExecInit ==
    /\ driver = "disconnected"
    /\ adapter = FALSE
    /\ execLock = NoThread
    /\ lane = NoThread
    /\ generation = 0
    /\ active = NoCommand
    /\ stopOutcome = NoStop
    /\ pc = [t \in Threads |-> "idle"]
    /\ cmd = [t \in Threads |-> NoCommand]
    /\ point = [t \in Threads |-> 0]
    /\ accepted = [t \in Threads |-> 0]
    /\ handling = [t \in Threads |-> FALSE]
    /\ budget = CallBudget
    /\ writes = [c \in Commands |-> 0]
    /\ stops = [c \in Commands |-> 0]
    /\ stopAcked = {}
    /\ canceled = {}
    /\ outcome = [c \in Commands |-> "none"]

-----------------------------------------------------------------------------
(* Shared pieces of the steps.                                             *)

Goto(t, label) == pc' = [pc EXCEPT ![t] = label]

Spend(call) ==
    /\ budget[call] > 0
    /\ budget' = [budget EXCEPT ![call] = @ - 1]

LaneFree(t) == lane \in {NoThread, t}    \* the lock is re-entrant

IsCanceled(t) == accepted[t] # generation

Settle(c, how) == outcome' = [outcome EXCEPT ![c] = how]

\* Mutant of IssueStop: the cached outcome is not replayed.
IssueStopAgain(id, ok) ==
    /\ ok => adapter
    /\ stopOutcome' = [id |-> id, ok |-> ok]
    /\ stops' = [stops EXCEPT ![id] = @ + 1]
    /\ stopAcked' = IF ok THEN stopAcked \cup {id} ELSE stopAcked

\* _issue_stop_locked for command id: a stop is sent once per command and its
\* result replayed afterwards.  Exceptions of the adapter become a failed result.
IssueStop(id, ok) ==
    IF stopOutcome.id = id
      THEN ok = stopOutcome.ok /\ UNCHANGED <<stopOutcome, stops, stopAcked>>
      ELSE /\ ok => adapter
           /\ stopOutcome' = [id |-> id, ok |-> ok]
           /\ stops' = [stops EXCEPT ![id] = @ + 1]
           /\ stopAcked' = IF ok THEN stopAcked \cup {id} ELSE stopAcked

\* stop_now without an active command: a fresh id no later call can match.
IssueAdHocStop(ok) ==
    /\ ok => adapter
    /\ stopOutcome' = NoStop
    /\ UNCHANGED <<stops, stopAcked>>

\* An exception inside execute's try: release the lane, enter the handler.
Raise(t) ==
    /\ handling' = [handling EXCEPT ![t] = TRUE]
    /\ lane' = IF lane = t THEN NoThread ELSE lane
    /\ Goto(t, "ff_stop")

\* A return inside execute's try: release the lane, run the finally clause.
Leave(t, how) ==
    /\ Settle(cmd[t], how)
    /\ lane' = IF lane = t THEN NoThread ELSE lane
    /\ Goto(t, "finally")

-----------------------------------------------------------------------------
(* TrajectoryExecutor.execute                                              *)

\* Mutant of Acquire: a second command is let in beside the first.
AcquireShared(t) ==
    /\ pc[t] = "acquire"
    /\ adapter
    /\ execLock' = t
    /\ Goto(t, "admit")
    /\ UNCHANGED <<driver, adapter, lane, lanes, locals, budget, history>>

\* controller.execute_trajectory reads the joint state first (the read may
\* raise), then tries the execution lock without blocking.
Acquire(t) ==
    /\ pc[t] = "acquire"
    /\ \/ /\ Settle(cmd[t], "refused")
          /\ Goto(t, "idle")
          /\ cmd' = [cmd EXCEPT ![t] = NoCommand]
          /\ UNCHANGED execLock
       \/ /\ execLock = NoThread
          /\ adapter
          /\ execLock' = t
          /\ Goto(t, "admit")
          /\ UNCHANGED <<cmd, outcome>>
    /\ UNCHANGED <<driver, adapter, lane, lanes, point, accepted, handling,
                   budget, writes, stops, stopAcked, canceled>>

\* CommandAdmission.admit: IDLE is required, the safety validator may reject,
\* and its kinematics may raise.
Admit(t) ==
    /\ pc[t] = "admit"
    /\ \/ Leave(t, "refused") /\ UNCHANGED handling
       \/ driver = "idle" /\ Goto(t, "publish") /\ UNCHANGED <<lane, outcome, handling>>
       \/ driver = "idle" /\ Raise(t) /\ UNCHANGED outcome
    /\ UNCHANGED <<driver, adapter, execLock, lanes, cmd, point, accepted,
                   budget, writes, stops, stopAcked, canceled>>

\* The command becomes cancelable: its id and generation enter the lane.
Publish(t) ==
    /\ pc[t] = "publish"
    /\ LaneFree(t)
    /\ accepted' = [accepted EXCEPT ![t] = generation]
    /\ active' = cmd[t]
    /\ stopOutcome' = NoStop
    /\ Goto(t, "accept")
    /\ UNCHANGED <<driver, adapter, execLock, lane, generation, cmd, point,
                   handling, budget, history>>

Accept(t) ==
    /\ pc[t] = "accept"
    /\ IF Permits(driver, "execution_accepted")
         THEN /\ driver' = Target("execution_accepted")
              /\ Goto(t, "wait")
              /\ UNCHANGED <<lane, handling>>
         ELSE Raise(t) /\ UNCHANGED driver
    /\ UNCHANGED <<adapter, execLock, lanes, cmd, point, accepted, budget, history>>

\* wait_until returns at the waypoint's time or once canceled; the generation
\* is read again before the waypoint is prepared.
WaitPoint(t) ==
    /\ pc[t] = "wait"
    /\ LaneFree(t)
    /\ Goto(t, IF IsCanceled(t) THEN "fc_stop" ELSE "write")
    /\ UNCHANGED <<driver, adapter, execLock, lane, lanes, locals, budget, history>>

\* Mutant of WritePoint: the generation read before the lane is trusted.
WritePointUnchecked(t) ==
    /\ pc[t] = "write"
    /\ LaneFree(t)
    /\ writes' = [writes EXCEPT ![cmd[t]] = IF adapter THEN @ + 1 ELSE @]
    /\ \/ adapter /\ Goto(t, "read") /\ UNCHANGED <<lane, handling>>
       \/ Raise(t)
    /\ UNCHANGED <<driver, adapter, execLock, lanes, cmd, point, accepted,
                   budget, stops, stopAcked, canceled, outcome>>

\* The lane is held from the recheck to the end of the write.  A recheck that
\* fails runs _finish_canceled with the lane still held.
WritePoint(t) ==
    /\ pc[t] = "write"
    /\ LaneFree(t)
    /\ \/ /\ IsCanceled(t)
          /\ lane' = t
          /\ Goto(t, "fc_stop")
          /\ UNCHANGED <<handling, writes>>
       \/ /\ ~IsCanceled(t)
          /\ writes' = [writes EXCEPT ![cmd[t]] = IF adapter THEN @ + 1 ELSE @]
          /\ \/ adapter /\ Goto(t, "read") /\ UNCHANGED <<lane, handling>>
             \/ adapter /\ Goto(t, "ff_stop") /\ UNCHANGED <<lane, handling>>
             \/ Raise(t)
    /\ UNCHANGED <<driver, adapter, execLock, lanes, cmd, point, accepted,
                   budget, stops, stopAcked, canceled, outcome>>

\* Mutant of ReadBack: the loop runs one waypoint too far.
ReadBackTooFar(t) ==
    /\ pc[t] = "read"
    /\ adapter
    /\ point' = [point EXCEPT ![t] = @ + 1]
    /\ Goto(t, IF point[t] < Waypoints THEN "wait" ELSE "finalize")
    /\ UNCHANGED <<lane, handling>>
    /\ UNCHANGED <<driver, adapter, execLock, lanes, cmd, accepted, budget, history>>

\* The watchdog read after a waypoint is fresh, stale or raises (so may the
\* progress callback).
ReadBack(t) ==
    /\ pc[t] = "read"
    /\ \/ /\ adapter
          /\ point' = [point EXCEPT ![t] = @ + 1]
          /\ Goto(t, IF point[t] + 1 < Waypoints THEN "wait" ELSE "finalize")
          /\ UNCHANGED <<lane, handling>>
       \/ adapter /\ Goto(t, "ff_stop") /\ UNCHANGED <<lane, handling, point>>
       \/ Raise(t) /\ UNCHANGED point
    /\ UNCHANGED <<driver, adapter, execLock, lanes, cmd, accepted, budget, history>>

\* Mutant of Finalize: success is reported without looking at the generation.
FinalizeUnchecked(t) ==
    /\ pc[t] = "finalize"
    /\ LaneFree(t)
    /\ IF Permits(driver, "execution_succeeded")
         THEN /\ driver' = Target("execution_succeeded")
              /\ active' = NoCommand
              /\ Leave(t, "success")
              /\ UNCHANGED handling
         ELSE Raise(t) /\ UNCHANGED <<driver, active, outcome>>
    /\ UNCHANGED <<adapter, execLock, generation, stopOutcome, cmd, point,
                   accepted, budget, writes, stops, stopAcked, canceled>>

\* Success and cancellation are decided in one lane section.
Finalize(t) ==
    /\ pc[t] = "finalize"
    /\ LaneFree(t)
    /\ CASE IsCanceled(t) ->
              /\ lane' = t
              /\ Goto(t, "fc_stop")
              /\ UNCHANGED <<driver, active, handling, outcome>>
         [] ~IsCanceled(t) /\ Permits(driver, "execution_succeeded") ->
              /\ driver' = Target("execution_succeeded")
              /\ active' = NoCommand
              /\ Leave(t, "success")
              /\ UNCHANGED handling
         [] OTHER -> Raise(t) /\ UNCHANGED <<driver, active, outcome>>
    /\ UNCHANGED <<adapter, execLock, generation, stopOutcome, cmd, point,
                   accepted, budget, writes, stops, stopAcked, canceled>>

-----------------------------------------------------------------------------
(* _finish_canceled                                                        *)

\* Mutant of CancelStop: a failed stop is taken for a stop.
CancelStopUnchecked(t) ==
    /\ pc[t] = "fc_stop"
    /\ LaneFree(t)
    /\ \E ok \in BOOLEAN : IssueStop(cmd[t], ok)
    /\ Goto(t, "fc_check")
    /\ UNCHANGED <<driver, adapter, execLock, lane, generation, active, locals,
                   budget, writes, canceled, outcome>>

CancelStop(t) ==
    /\ pc[t] = "fc_stop"
    /\ LaneFree(t)
    /\ \E ok \in BOOLEAN :
          /\ IssueStop(cmd[t], ok)
          /\ Goto(t, IF ok THEN "fc_check" ELSE "ff_stop")
    /\ UNCHANGED <<driver, adapter, execLock, lane, generation, active, locals,
                   budget, writes, canceled, outcome>>

\* Mutant of CancelCheck: the driver state is left to somebody else.
CancelCheckForgets(t) ==
    /\ pc[t] = "fc_check"
    /\ Leave(t, "canceled")
    /\ UNCHANGED <<driver, adapter, execLock, lanes, locals, budget, writes,
                   stops, stopAcked, canceled>>

\* The state is read here and the event applied in the next step.
CancelCheck(t) ==
    /\ pc[t] = "fc_check"
    /\ IF driver = "executing"
         THEN Goto(t, "fc_apply") /\ UNCHANGED <<lane, outcome>>
         ELSE Leave(t, "canceled")
    /\ UNCHANGED <<driver, adapter, execLock, lanes, locals, budget, writes,
                   stops, stopAcked, canceled>>

CancelApply(t) ==
    /\ pc[t] = "fc_apply"
    /\ IF Permits(driver, "execution_canceled")
         THEN /\ driver' = Target("execution_canceled")
              /\ Leave(t, "canceled")
              /\ UNCHANGED handling
         ELSE Raise(t) /\ UNCHANGED <<driver, outcome>>
    /\ UNCHANGED <<adapter, execLock, lanes, cmd, point, accepted, budget,
                   writes, stops, stopAcked, canceled>>

-----------------------------------------------------------------------------
(* _finish_failed                                                          *)

FailStop(t) ==
    /\ pc[t] = "ff_stop"
    /\ LaneFree(t)
    /\ \E ok \in BOOLEAN : IssueStop(cmd[t], ok)
    /\ Goto(t, "ff_check")
    /\ UNCHANGED <<driver, adapter, execLock, lane, generation, active, locals,
                   budget, writes, canceled, outcome>>

\* Mutant of FailCheck: IDLE is taken to need no fault.
FailCheckExecutingOnly(t) ==
    /\ pc[t] = "ff_check"
    /\ IF driver = "executing"
         THEN Goto(t, "ff_apply") /\ UNCHANGED <<lane, outcome>>
         ELSE Leave(t, "failed")
    /\ UNCHANGED <<driver, adapter, execLock, lanes, locals, budget, writes,
                   stops, stopAcked, canceled>>

FailCheck(t) ==
    /\ pc[t] = "ff_check"
    /\ IF driver \in {"idle", "executing"}
         THEN Goto(t, "ff_apply") /\ UNCHANGED <<lane, outcome>>
         ELSE Leave(t, "failed")
    /\ UNCHANGED <<driver, adapter, execLock, lanes, locals, budget, writes,
                   stops, stopAcked, canceled>>

\* An apply refused inside the except clause leaves execute by raising.
FailApply(t) ==
    /\ pc[t] = "ff_apply"
    /\ CASE Permits(driver, "fault_detected") ->
              /\ driver' = Target("fault_detected")
              /\ Leave(t, "failed")
              /\ UNCHANGED handling
         [] ~Permits(driver, "fault_detected") /\ handling[t] ->
              Leave(t, "raised") /\ UNCHANGED <<driver, handling>>
         [] OTHER -> Raise(t) /\ UNCHANGED <<driver, outcome>>
    /\ UNCHANGED <<adapter, execLock, lanes, cmd, point, accepted, budget,
                   writes, stops, stopAcked, canceled>>

\* execute's finally clause.
Finally(t) ==
    /\ pc[t] = "finally"
    /\ LaneFree(t)
    /\ active' = IF active = cmd[t] THEN NoCommand ELSE active
    /\ execLock' = NoThread
    /\ cmd' = [cmd EXCEPT ![t] = NoCommand]
    /\ point' = [point EXCEPT ![t] = 0]
    /\ accepted' = [accepted EXCEPT ![t] = 0]
    /\ handling' = [handling EXCEPT ![t] = FALSE]
    /\ Goto(t, "idle")
    /\ UNCHANGED <<driver, adapter, lane, generation, stopOutcome, budget, history>>

ExecuteStep(t) ==
    \/ Acquire(t) \/ Admit(t) \/ Publish(t) \/ Accept(t)
    \/ WaitPoint(t) \/ WritePoint(t) \/ ReadBack(t) \/ Finalize(t)
    \/ CancelStop(t) \/ CancelCheck(t) \/ CancelApply(t)
    \/ FailStop(t) \/ FailCheck(t) \/ FailApply(t) \/ Finally(t)

-----------------------------------------------------------------------------
(* cancel_current_command and stop_now                                     *)

\* Mutant of CancelNow: the stop is sent and the generation stays.
CancelNowSameGeneration(t) ==
    /\ pc[t] = "cancel"
    /\ LaneFree(t)
    /\ active # NoCommand
    /\ canceled' = canceled \cup {active}
    /\ \E ok \in BOOLEAN :
          /\ IssueStop(active, ok)
          /\ lane' = IF ok THEN lane ELSE t
          /\ Goto(t, IF ok THEN "idle" ELSE "cancel_check")
    /\ UNCHANGED <<driver, adapter, execLock, generation, active, locals, budget,
                   writes, outcome>>

\* The generation moves and the stop is sent in one lane section; a stop that
\* failed keeps the lane while the driver state is checked and faulted.
CancelNow(t) ==
    /\ pc[t] = "cancel"
    /\ LaneFree(t)
    /\ IF active = NoCommand
         THEN Goto(t, "idle") /\ UNCHANGED <<lane, generation, stopOutcome, history>>
         ELSE /\ generation' = generation + 1
              /\ canceled' = canceled \cup {active}
              /\ \E ok \in BOOLEAN :
                    /\ IssueStop(active, ok)
                    /\ lane' = IF ok THEN lane ELSE t
                    /\ Goto(t, IF ok THEN "idle" ELSE "cancel_check")
              /\ UNCHANGED <<writes, outcome>>
    /\ UNCHANGED <<driver, adapter, execLock, active, locals, budget>>

\* stop_now, called at step `here`, going on with `check` after a failed stop
\* and with `next` after a good one.
StopNow(t, here, check, next) ==
    /\ pc[t] = here
    /\ LaneFree(t)
    /\ generation' = generation + 1
    /\ canceled' = IF active = NoCommand THEN canceled ELSE canceled \cup {active}
    /\ \E ok \in BOOLEAN :
          /\ IF active = NoCommand THEN IssueAdHocStop(ok) ELSE IssueStop(active, ok)
          /\ lane' = IF ok THEN lane ELSE t
          /\ Goto(t, IF ok THEN next ELSE check)
    /\ UNCHANGED <<driver, adapter, execLock, active, locals, budget, writes, outcome>>

\* Mutant of StopFaultCheck: the early return keeps the lane.
StopFaultCheckKeepsLane(t, check, fault, next) ==
    /\ pc[t] = check
    /\ Goto(t, IF driver \in {"idle", "executing"} THEN fault ELSE next)
    /\ UNCHANGED <<driver, adapter, execLock, lane, lanes, locals, budget, history>>

\* _fault_after_stop_failure_locked: the driver state is read, then faulted.
StopFaultCheck(t, check, fault, next) ==
    /\ pc[t] = check
    /\ IF driver \in {"idle", "executing"}
         THEN Goto(t, fault) /\ UNCHANGED lane
         ELSE Goto(t, next) /\ lane' = NoThread
    /\ UNCHANGED <<driver, adapter, execLock, lanes, locals, budget, history>>

\* An apply that is refused raises out of the call.
StopFault(t, fault, next) ==
    /\ pc[t] = fault
    /\ driver' = IF Permits(driver, "fault_detected")
                   THEN Target("fault_detected") ELSE driver
    /\ lane' = NoThread
    /\ Goto(t, next)
    /\ UNCHANGED <<adapter, execLock, lanes, locals, budget, history>>

ControlStep(t) ==
    \/ CancelNow(t)
    \/ StopFaultCheck(t, "cancel_check", "cancel_fault", "idle")
    \/ StopFault(t, "cancel_fault", "idle")
    \/ StopNow(t, "stop", "stop_check", "idle")
    \/ StopFaultCheck(t, "stop_check", "stop_fault", "idle")
    \/ StopFault(t, "stop_fault", "idle")

=============================================================================

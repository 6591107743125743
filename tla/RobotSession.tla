---------------------------- MODULE RobotSession ----------------------------
(***************************************************************************)
(* The core as its users see it: RobotSession (api/session.py) and         *)
(* RobotController (application/robot_controller.py) composed with the     *)
(* command path of TrajectoryExecutor.                                     *)
(*                                                                         *)
(* connect and close hold the session's lifecycle lock from beginning to   *)
(* end.  The other calls only take it to check that the session is ready:  *)
(* that check is the Invoke action of the call, and everything the call    *)
(* does afterwards can interleave with a later connect or close.  cancel   *)
(* makes no check.                                                         *)
(***************************************************************************)
EXTENDS TrajectoryExecutor

VARIABLES
    connected,    \* RobotSession._connected
    lifecycle     \* owner of RobotSession._lifecycle_lock

sessionVars == <<connected, lifecycle>>
vars == <<execVars, sessionVars>>

Init ==
    /\ ExecInit
    /\ connected = FALSE
    /\ lifecycle = NoThread

-----------------------------------------------------------------------------
(* Calls                                                                   *)

NextCommand == CallBudget["execute"] - budget["execute"] + 1

\* _require_hardware_ready: blocks while connect or close runs; a session that
\* is not ready raises and the call ends.
InvokeExecute(t) ==
    /\ pc[t] = "idle"
    /\ lifecycle = NoThread
    /\ Spend("execute")
    /\ IF connected
         THEN Goto(t, "acquire") /\ cmd' = [cmd EXCEPT ![t] = NextCommand]
         ELSE UNCHANGED <<pc, cmd>>
    /\ UNCHANGED <<driver, adapter, execLock, lane, lanes, point, accepted,
                   handling, history, sessionVars>>

InvokeCancel(t) ==
    /\ pc[t] = "idle"
    /\ Spend("cancel")
    /\ Goto(t, "cancel")
    /\ UNCHANGED <<driver, adapter, execLock, lane, lanes, locals, history, sessionVars>>

InvokeStop(t) ==
    /\ pc[t] = "idle"
    /\ lifecycle = NoThread
    /\ Spend("stop")
    /\ IF connected THEN Goto(t, "stop") ELSE UNCHANGED pc
    /\ UNCHANGED <<driver, adapter, execLock, lane, lanes, locals, history, sessionVars>>

InvokeRecover(t) ==
    /\ pc[t] = "idle"
    /\ lifecycle = NoThread
    /\ Spend("recover")
    /\ IF connected THEN Goto(t, "rec_check") ELSE UNCHANGED pc
    /\ UNCHANGED <<driver, adapter, execLock, lane, lanes, locals, history, sessionVars>>

\* A connected session returns at once; CONNECT_REQUESTED raises outside DISCONNECTED.
InvokeConnect(t) ==
    /\ pc[t] = "idle"
    /\ lifecycle = NoThread
    /\ Spend("connect")
    /\ IF ~connected /\ Permits(driver, "connect_requested")
         THEN /\ lifecycle' = t
              /\ driver' = Target("connect_requested")
              /\ Goto(t, "conn_open")
         ELSE UNCHANGED <<lifecycle, driver, pc>>
    /\ UNCHANGED <<adapter, execLock, lane, lanes, locals, history, connected>>

InvokeClose(t) ==
    /\ pc[t] = "idle"
    /\ lifecycle = NoThread
    /\ Spend("close")
    /\ IF connected \/ driver # "disconnected"
         THEN lifecycle' = t /\ Goto(t, "dis_check")
         ELSE UNCHANGED <<lifecycle, pc>>
    /\ UNCHANGED <<driver, adapter, execLock, lane, lanes, locals, history, connected>>

Invoke(t) ==
    \/ InvokeExecute(t) \/ InvokeCancel(t) \/ InvokeStop(t)
    \/ InvokeRecover(t) \/ InvokeConnect(t) \/ InvokeClose(t)

-----------------------------------------------------------------------------
(* RobotController.connect and the session's probe                         *)

ConnectOpen(t) ==
    /\ pc[t] = "conn_open"
    /\ \/ adapter' = TRUE /\ Goto(t, "conn_done")
       \/ UNCHANGED adapter /\ Goto(t, "conn_cleanup")
    /\ UNCHANGED <<driver, execLock, lane, lanes, locals, budget, history, sessionVars>>

ConnectDone(t) ==
    /\ pc[t] = "conn_done"
    /\ Permits(driver, "connect_succeeded")
    /\ driver' = Target("connect_succeeded")
    /\ Goto(t, "probe")
    /\ UNCHANGED <<adapter, execLock, lane, lanes, locals, budget, history, sessionVars>>

\* The failed open is followed by an adapter disconnect and CONNECT_FAILED.
ConnectCleanup(t) ==
    /\ pc[t] = "conn_cleanup"
    /\ Permits(driver, "connect_failed")
    /\ adapter' = FALSE
    /\ driver' = Target("connect_failed")
    /\ \/ Goto(t, "conn_reset") /\ UNCHANGED lifecycle
       \/ Goto(t, "idle") /\ lifecycle' = NoThread      \* the cleanup raised
    /\ UNCHANGED <<execLock, lane, lanes, locals, budget, history, connected>>

ConnectReset(t) ==
    /\ pc[t] = "conn_reset"
    /\ Permits(driver, "disconnect_requested")
    /\ driver' = Target("disconnect_requested")
    /\ lifecycle' = NoThread
    /\ Goto(t, "idle")
    /\ UNCHANGED <<adapter, execLock, lane, lanes, locals, budget, history, connected>>

\* A probe that fails disconnects the controller again.
Probe(t) ==
    /\ pc[t] = "probe"
    /\ \/ /\ adapter
          /\ connected' = TRUE
          /\ lifecycle' = NoThread
          /\ Goto(t, "idle")
       \/ Goto(t, "dis_check") /\ UNCHANGED sessionVars
    /\ UNCHANGED <<driver, adapter, execLock, lane, lanes, locals, budget, history>>

-----------------------------------------------------------------------------
(* RobotController.disconnect and the end of RobotSession.close            *)

\* Work is bounded only when the state read here is EXECUTING.
DisconnectCheck(t) ==
    /\ pc[t] = "dis_check"
    /\ Goto(t, IF driver = "executing" THEN "dis_stop" ELSE "dis_hw")
    /\ UNCHANGED <<driver, adapter, execLock, lane, lanes, locals, budget,
                   history, sessionVars>>

DisconnectStop(t) ==
    /\ \/ StopNow(t, "dis_stop", "dis_stop_check", "dis_hw")
       \/ StopFaultCheck(t, "dis_stop_check", "dis_stop_fault", "dis_hw")
       \/ StopFault(t, "dis_stop_fault", "dis_hw")
    /\ UNCHANGED sessionVars

\* The vendor adapter forgets its port before closing it, so an adapter whose
\* close raises is closed all the same; the driver state is then left alone.
DisconnectHardware(t) ==
    /\ pc[t] = "dis_hw"
    /\ adapter' = FALSE
    /\ \/ Goto(t, "dis_apply") /\ UNCHANGED lifecycle
       \/ adapter /\ Goto(t, "idle") /\ lifecycle' = NoThread
    /\ UNCHANGED <<driver, execLock, lane, lanes, locals, budget, history, connected>>

\* Mutant of DisconnectApply: the session forgets to drop its connected flag.
DisconnectApplyKeepsFlag(t) ==
    /\ pc[t] = "dis_apply"
    /\ driver' = Target("disconnect_requested")
    /\ lifecycle' = NoThread
    /\ Goto(t, "idle")
    /\ UNCHANGED <<adapter, execLock, lane, lanes, locals, budget, history, connected>>

DisconnectApply(t) ==
    /\ pc[t] = "dis_apply"
    /\ driver' = IF driver = "disconnected" THEN driver
                                            ELSE Target("disconnect_requested")
    /\ connected' = FALSE
    /\ lifecycle' = NoThread
    /\ Goto(t, "idle")
    /\ UNCHANGED <<adapter, execLock, lane, lanes, locals, budget, history>>

-----------------------------------------------------------------------------
(* RobotController.recover                                                 *)

RecoverCheck(t) ==
    /\ pc[t] = "rec_check"
    /\ Goto(t, IF driver = "fault" THEN "rec_request" ELSE "idle")
    /\ UNCHANGED <<driver, adapter, execLock, lane, lanes, locals, budget,
                   history, sessionVars>>

RecoverRequest(t) ==
    /\ pc[t] = "rec_request"
    /\ IF Permits(driver, "recovery_requested")
         THEN driver' = Target("recovery_requested") /\ Goto(t, "rec_read")
         ELSE Goto(t, "idle") /\ UNCHANGED driver
    /\ UNCHANGED <<adapter, execLock, lane, lanes, locals, budget, history, sessionVars>>

\* The read succeeds on an open adapter only, or raises; the event that follows
\* raises when another call has left RECOVERING in the meantime.
RecoverRead(t) ==
    /\ pc[t] = "rec_read"
    /\ \E event \in {"recovery_succeeded", "recovery_failed"} :
          /\ event = "recovery_succeeded" => adapter
          /\ driver' = IF Permits(driver, event) THEN Target(event) ELSE driver
    /\ Goto(t, "idle")
    /\ UNCHANGED <<adapter, execLock, lane, lanes, locals, budget, history, sessionVars>>

SessionStep(t) ==
    \/ ConnectOpen(t) \/ ConnectDone(t) \/ ConnectCleanup(t) \/ ConnectReset(t)
    \/ Probe(t) \/ DisconnectCheck(t) \/ DisconnectStop(t)
    \/ DisconnectHardware(t) \/ DisconnectApply(t)
    \/ RecoverCheck(t) \/ RecoverRequest(t) \/ RecoverRead(t)

-----------------------------------------------------------------------------
Step(t) ==
    \/ ExecuteStep(t) /\ UNCHANGED sessionVars
    \/ ControlStep(t) /\ UNCHANGED sessionVars
    \/ SessionStep(t)

\* All calls have returned: the program may stop here.
Quiet == (\A t \in Threads : pc[t] = "idle") /\ UNCHANGED vars

Next == (\E t \in Threads : Invoke(t) \/ Step(t)) \/ Quiet

Spec == Init /\ [][Next]_vars

\* A thread inside a call goes on: no call blocks forever on anything but a lock.
FairSpec == Spec /\ \A t \in Threads : WF_vars(Step(t))

-----------------------------------------------------------------------------
(* Properties                                                              *)

Labels ==
    {"idle", "acquire", "admit", "publish", "accept", "wait", "write", "read",
     "finalize", "fc_stop", "fc_check", "fc_apply", "ff_stop", "ff_check",
     "ff_apply", "finally", "cancel", "cancel_check", "cancel_fault", "stop",
     "stop_check", "stop_fault", "conn_open", "conn_done", "conn_cleanup",
     "conn_reset", "probe", "dis_check", "dis_stop", "dis_stop_check",
     "dis_stop_fault", "dis_hw", "dis_apply", "rec_check", "rec_request",
     "rec_read"}

Outcomes == {"none", "refused", "success", "canceled", "failed", "raised"}

\* The state is well typed.
TypeOK ==
    /\ driver \in DriverState
    /\ adapter \in BOOLEAN
    /\ execLock \in Threads \cup {NoThread}
    /\ lane \in Threads \cup {NoThread}
    /\ generation \in Nat
    /\ active \in Commands \cup {NoCommand}
    /\ stopOutcome \in [id : Commands \cup {NoCommand}, ok : BOOLEAN]
    /\ pc \in [Threads -> Labels]
    /\ cmd \in [Threads -> Commands \cup {NoCommand}]
    /\ point \in [Threads -> 0 .. Waypoints]
    /\ accepted \in [Threads -> Nat]
    /\ handling \in [Threads -> BOOLEAN]
    /\ budget \in [Calls -> Nat]
    /\ \A call \in Calls : budget[call] <= CallBudget[call]
    /\ writes \in [Commands -> Nat]
    /\ stops \in [Commands -> Nat]
    /\ stopAcked \in SUBSET Commands
    /\ canceled \in SUBSET Commands
    /\ outcome \in [Commands -> Outcomes]
    /\ connected \in BOOLEAN
    /\ lifecycle \in Threads \cup {NoThread}

\* The steps of execute between acquiring and releasing the execution lock.
OwnerLabels ==
    {"admit", "publish", "accept", "wait", "write", "read", "finalize",
     "fc_stop", "fc_check", "fc_apply", "ff_stop", "ff_check", "ff_apply",
     "finally"}

\* The driver is never left EXECUTING by a command that is over: while it is,
\* the owner of the execution lock has not decided the result of its call
\* (executor.execute, and the check-then-apply pairs of _finish_canceled and
\* _finish_failed).
ExecutingHasOwner ==
    driver = "executing" =>
        \E t \in Threads :
            /\ execLock = t
            /\ pc[t] \in OwnerLabels \ {"admit", "publish", "accept", "finally"}
            /\ outcome[cmd[t]] = "none"

\* A command reported successful was never canceled and never stopped, and
\* every waypoint of it reached the hardware: cancellation and success are
\* linearized in the lane (executor.py, the section after the waypoint loop).
SuccessIsUninterrupted ==
    \A c \in Commands :
        outcome[c] = "success" =>
            c \notin canceled /\ stops[c] = 0 /\ writes[c] = Waypoints

\* A command reported canceled was stopped by the hardware, and its
\* cancellation had been accepted (_finish_canceled).
CanceledMeansStopped ==
    \A c \in Commands :
        outcome[c] = "canceled" => c \in canceled /\ c \in stopAcked

\* However many cancels, stops, closes and failures meet in one command, the
\* hardware gets one stop for it; the others replay its result (_stop_outcome).
OneStopPerCommand == \A c \in Commands : stops[c] <= 1

\* Once a cancel or stop of a command was accepted, or a stop was sent for it,
\* no waypoint of that command is written (the generation recheck in the lane).
NoWriteAfterStop ==
    [][\A c \in Commands :
          writes'[c] # writes[c] => c \notin canceled /\ stops[c] = 0]_vars

\* Only the command published in the lane moves the robot, by the thread that
\* owns the adapter (the execution lock).
WritesAreExclusive ==
    [][\A c \in Commands :
          writes'[c] # writes[c] =>
              active = c /\ \E t \in Threads : execLock = t /\ cmd[t] = c]_vars

\* A command that fails does not leave the driver ready for the next one: at the
\* moment its result is decided the driver is neither IDLE nor EXECUTING, even
\* when cancel, stop, close and recover move the state between check and apply.
FailureLatches ==
    [][\A c \in Commands :
          outcome[c] = "none" /\ outcome'[c] \in {"failed", "raised"} =>
              driver' \notin {"idle", "executing"}]_vars

\* The session, the driver and the adapter agree: a DISCONNECTED driver has
\* released its adapter, a session nobody is opening or closing is ready only
\* outside DISCONNECTED, and CONNECTING is seen only while connect runs
\* (session.connect and close, controller.connect, disconnect and recover).
SessionAgrees ==
    /\ driver = "disconnected" => ~adapter
    /\ driver = "disconnected" /\ lifecycle = NoThread => ~connected
    /\ driver = "connecting" => lifecycle # NoThread

\* Every public call returns, whatever holds the locks when it starts.
EveryCallReturns ==
    \A t \in Threads : pc[t] # "idle" ~> pc[t] = "idle"

-----------------------------------------------------------------------------
(* The abstract specification                                              *)

\* A command is open from its publication in the lane until it is canceled,
\* stopped or over.
Phase(c) ==
    CASE outcome[c] # "none"               -> "done"
      [] outcome[c] = "none" /\ (c \in canceled \/ stops[c] > 0) -> "closed"
      [] outcome[c] = "none" /\ c \notin canceled /\ stops[c] = 0
            /\ active = c                  -> "open"
      [] OTHER                             -> "pending"

Promise == INSTANCE TrajectoryCommand
    WITH phase <- [c \in Commands |-> Phase(c)], sent <- writes, result <- outcome

\* The executor and the session, with all their interleavings, keep the
\* promises of TrajectoryCommand.
KeepsPromise == Promise!Spec

-----------------------------------------------------------------------------
(* Statements of the documentation that the code does not meet             *)

\* RobotController.disconnect: "Bound active work, release hardware, and become
\* DISCONNECTED."  Once DISCONNECTED, no command that reached the hardware is
\* still running without a cancellation or a stop.
DisconnectBoundsActiveWork ==
    driver = "disconnected" =>
        \A t \in Threads :
            execLock = t /\ outcome[cmd[t]] = "none" /\ writes[cmd[t]] > 0 =>
                cmd[t] \in canceled \/ stops[cmd[t]] > 0

\* TrajectoryExecutor.stop_now: "Cancel any generation and issue a bounded
\* backend stop."  A stop cancels every command that has passed admission.
StopCancelsAdmitted ==
    [][generation' # generation =>
          \A t \in Threads : pc[t] = "publish" => cmd[t] \in canceled']_vars

\* PLANS.md: a failed stop moves the driver to FAULT.  When the call that sent
\* it returns, the driver is in FAULT or already DISCONNECTED.
FailedStopFaults ==
    [][\A t \in Threads :
          pc[t] \in {"cancel_check", "cancel_fault", "stop_check", "stop_fault"}
            /\ pc'[t] = "idle" => driver' \in {"fault", "disconnected"}]_vars
=============================================================================

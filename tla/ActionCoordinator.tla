-------------------------- MODULE ActionCoordinator --------------------------
(***************************************************************************)
(* TrajectoryActionCoordinator of action_coordinator.py: the goal and      *)
(* cancel callbacks and, for every accepted goal, the execute callback,    *)
(* which runs on a thread of its own.  exec[g] names its next step, between *)
(* two points at which another thread can interfere.  The goal handle, its *)
(* states and the order of the callbacks are rclpy's.                      *)
(***************************************************************************)
EXTENDS DriverLifecycle

VARIABLES
    exec,        \* exec[g]: the next step of the callbacks of goal g
    handle,      \* handle[g]: the state of its goal handle
    sent,        \* sent[g]: cancel_sent of _wait_for_core_result
    reserved,    \* the goal _goal_reserved was set for, or NoGoal
    accepted,    \* the goal _accepted_goal describes, or NoGoal
    strayed      \* _path_violation is not empty

goalVars == <<exec, handle, sent, reserved, accepted, strayed>>

Steps == {"idle", "reserve", "rejected", "take", "gate", "start", "poll", "cancel",
          "result", "late_stop", "verdict", "settle", "stop", "succeed", "except",
          "release", "refuse", "done"}
Handles == {"none", "executing", "canceling", "succeeded", "canceled", "aborted"}

GoalInit ==
    /\ exec = [g \in Goals |-> "idle"]
    /\ handle = [g \in Goals |-> "none"]
    /\ sent = [g \in Goals |-> FALSE]
    /\ reserved = NoGoal
    /\ accepted = NoGoal
    /\ strayed = FALSE

Asked(g) == handle[g] = "canceling"

Goto(g, step) == exec' = [exec EXCEPT ![g] = step]

\* The handle reaches a terminal state and the finally clause follows.
Conclude(g, state) == handle' = [handle EXCEPT ![g] = state] /\ Goto(g, "release")

\* canceled() raises unless the cancellation was requested through rclpy.
ConcludeCanceled(g) ==
    IF Asked(g) THEN Conclude(g, "canceled") ELSE Goto(g, "except") /\ UNCHANGED handle

\* _release_goal
Free == reserved' = NoGoal /\ accepted' = NoGoal /\ strayed' = FALSE

locks == <<reserved, accepted, strayed>>

-----------------------------------------------------------------------------
(* goal_callback and cancel_callback                                       *)

\* The state and the facade are read before the goal lock is taken.
CheckGoal(g) ==
    /\ exec[g] = "idle"
    /\ Unlocked
    /\ Goto(g, IF lifecycle = "active" THEN "reserve" ELSE "rejected")
    /\ UNCHANGED <<coreVars, lifeVars, handle, sent, locks>>

\* Mutant of ReserveGoal: the reservation of another goal is not looked at.
ReserveAnyway(g) ==
    /\ exec[g] = "reserve"
    /\ reserved' = g
    /\ accepted' = g
    /\ strayed' = FALSE
    /\ handle' = [handle EXCEPT ![g] = "executing"]
    /\ Goto(g, "take")
    /\ UNCHANGED <<coreVars, lifeVars, sent>>

\* A goal that cannot be converted is rejected too.
ReserveGoal(g) ==
    /\ exec[g] = "reserve"
    /\ \/ /\ reserved = NoGoal
          /\ reserved' = g
          /\ accepted' = g
          /\ strayed' = FALSE
          /\ handle' = [handle EXCEPT ![g] = "executing"]
          /\ Goto(g, "take")
       \/ Goto(g, "rejected") /\ UNCHANGED <<handle, locks>>
    /\ UNCHANGED <<coreVars, lifeVars, sent>>

\* Accepted while any goal is reserved.
CancelGoal(g) ==
    /\ handle[g] = "executing"
    /\ reserved # NoGoal
    /\ handle' = [handle EXCEPT ![g] = "canceling"]
    /\ UNCHANGED <<coreVars, lifeVars, exec, sent, locks>>

-----------------------------------------------------------------------------
(* execute_callback until the command is submitted                         *)

\* Without its description the goal is aborted, and nothing is released.
Take(g) ==
    /\ exec[g] = "take"
    /\ Unlocked
    /\ accepted' = NoGoal
    /\ IF accepted = NoGoal
         THEN /\ handle' = [handle EXCEPT ![g] = "aborted"]
              /\ Goto(g, "done")
              /\ UNCHANGED fac
         ELSE /\ fac' = [fac EXCEPT ![g] = facade]
              /\ Goto(g, "gate")
              /\ UNCHANGED handle
    /\ UNCHANGED <<facade, built, link, work, pool, shut, lifeVars, sent, reserved, strayed>>

\* Mutant of Gate: the early return forgets to release the goal.
GateKeepsGoal(g) ==
    /\ exec[g] = "gate"
    /\ Unlocked
    /\ IF fac[g] = 0 \/ lifecycle # "active"
         THEN Goto(g, "refuse")
         ELSE Goto(g, "start")
    /\ UNCHANGED <<coreVars, lifeVars, handle, sent, locks>>

\* The goal is released before its handle is aborted: another may be accepted
\* in between.
Gate(g) ==
    /\ exec[g] = "gate"
    /\ Unlocked
    /\ IF fac[g] = 0 \/ lifecycle # "active"
         THEN Free /\ Goto(g, "refuse")
         ELSE Goto(g, "start") /\ UNCHANGED locks
    /\ UNCHANGED <<coreVars, lifeVars, handle, sent>>

Refuse(g) ==
    /\ exec[g] = "refuse"
    /\ handle' = [handle EXCEPT ![g] = "aborted"]
    /\ Goto(g, "done")
    /\ UNCHANGED <<coreVars, lifeVars, sent, locks>>

\* _wait_for_start: a goal with a start time waits while the driver is active.
StartRefused(g) ==
    /\ exec[g] = "start"
    /\ \/ Asked(g) /\ Conclude(g, "canceled")
       \/ ~Asked(g) /\ Unlocked /\ lifecycle # "active" /\ Conclude(g, "aborted")
    /\ UNCHANGED <<coreVars, lifeVars, sent, locks>>

\* submit raises once the worker is shut down.
Submit(g) ==
    /\ exec[g] = "start"
    /\ ~Asked(g)
    /\ IF shut THEN Goto(g, "except") /\ UNCHANGED <<work, pool>>
         ELSE /\ work' = [work EXCEPT ![g] = "queued"]
              /\ pool' = Append(pool, g)
              /\ Goto(g, "poll")
    /\ UNCHANGED <<facade, built, link, fac, shut, lifeVars, handle, sent, locks>>

-----------------------------------------------------------------------------
(* _wait_for_core_result                                                   *)

\* A pass of the loop; the lifecycle is looked at only when nothing else asks
\* for a cancellation.
Poll(g) ==
    /\ exec[g] = "poll"
    /\ \/ work[g] \in Over /\ Goto(g, "result")
       \/ /\ work[g] \notin Over
          /\ ~sent[g]
          /\ Asked(g) \/ strayed \/ (Unlocked /\ lifecycle # "active")
          /\ Goto(g, "cancel")
    /\ UNCHANGED <<coreVars, lifeVars, handle, sent, locks>>

\* NO_ACTIVE_COMMAND leaves the cancellation pending; a failed stop raises.
SendCancel(g) ==
    /\ exec[g] = "cancel"
    /\ \E outcome \in {"ok", "no_active", "failed"} :
          /\ Cancel(fac[g], outcome)
          /\ Goto(g, IF outcome = "failed" THEN "except" ELSE "poll")
          /\ sent' = [sent EXCEPT ![g] = outcome = "ok"]
    /\ UNCHANGED <<lifeVars, handle, locks>>

\* A request that came too late for the command stops the robot after it.
Result(g) ==
    /\ exec[g] = "result"
    /\ Goto(g, IF work[g] = "raised" THEN "except"
               ELSE IF (Asked(g) \/ strayed) /\ ~sent[g] /\ work[g] # "canceled"
                      THEN "late_stop" ELSE "verdict")
    /\ UNCHANGED <<coreVars, lifeVars, handle, sent, locks>>

\* No command is active: the worker is done with this goal's, and it was the last.
LateStop(g) ==
    /\ exec[g] = "late_stop"
    /\ \E outcome \in {"ok", "failed"} :
          /\ Stop(g, outcome)
          /\ Goto(g, IF outcome = "ok" THEN "verdict" ELSE "except")
    /\ UNCHANGED <<lifeVars, handle, sent, locks>>

-----------------------------------------------------------------------------
(* The end of execute_callback                                             *)

\* Mutant of Verdict: the path violation is not looked at.
VerdictIgnoresPath(g) ==
    /\ exec[g] = "verdict"
    /\ IF Asked(g) \/ work[g] = "canceled" THEN ConcludeCanceled(g)
       ELSE IF work[g] # "succeeded" THEN Conclude(g, "aborted")
       ELSE Goto(g, "settle") /\ UNCHANGED handle
    /\ UNCHANGED <<coreVars, lifeVars, sent, locks>>

Verdict(g) ==
    /\ exec[g] = "verdict"
    /\ IF strayed THEN Conclude(g, "aborted")
       ELSE IF Asked(g) \/ work[g] = "canceled" THEN ConcludeCanceled(g)
       ELSE IF work[g] # "succeeded" THEN Conclude(g, "aborted")
       ELSE Goto(g, "settle") /\ UNCHANGED handle
    /\ UNCHANGED <<coreVars, lifeVars, sent, locks>>

\* _wait_for_goal_tolerance up to its deadline, and the check after it.
SettleGoal(g) ==
    /\ exec[g] = "settle"
    /\ \/ Asked(g) /\ Goto(g, "stop") /\ UNCHANGED handle
       \/ ~Asked(g) /\ Answers(g) /\ Goto(g, "succeed") /\ UNCHANGED handle
       \/ ~Asked(g) /\ Answers(g) /\ Conclude(g, "aborted")
       \/ ~Asked(g) /\ Goto(g, "except") /\ UNCHANGED handle        \* the read raised
    /\ UNCHANGED <<coreVars, lifeVars, sent, locks>>

StopSettling(g) ==
    /\ exec[g] = "stop"
    /\ \/ Stop(g, "ok") /\ ConcludeCanceled(g)
       \/ Stop(g, "failed") /\ Goto(g, "except") /\ UNCHANGED handle
    /\ UNCHANGED <<lifeVars, sent, locks>>

\* rclpy lets a goal succeed whose cancellation was requested in the meantime.
Succeed(g) ==
    /\ exec[g] = "succeed"
    /\ Conclude(g, "succeeded")
    /\ UNCHANGED <<coreVars, lifeVars, sent, locks>>

Except(g) ==
    /\ exec[g] = "except"
    /\ RecordFault
    /\ Conclude(g, "aborted")
    /\ UNCHANGED <<coreVars, sent, locks>>

ReleaseGoal(g) ==
    /\ exec[g] = "release"
    /\ Free
    /\ Goto(g, "done")
    /\ UNCHANGED <<coreVars, lifeVars, handle, sent>>

-----------------------------------------------------------------------------
\* _progress_callback, after the read of a waypoint: also that of a command
\* whose stop has been asked for meanwhile.  The check is not per goal.
Progress(g) ==
    /\ work[g] \in {"running", "stopping", "failing"}
    /\ strayed' = TRUE
    /\ UNCHANGED <<coreVars, lifeVars, exec, handle, sent, reserved, accepted>>

Callback(g) == CheckGoal(g) \/ ReserveGoal(g)

Execute(g) ==
    \/ Take(g) \/ Gate(g) \/ Refuse(g) \/ StartRefused(g) \/ Submit(g)
    \/ Poll(g) \/ SendCancel(g) \/ Result(g) \/ LateStop(g)
    \/ Verdict(g) \/ SettleGoal(g) \/ StopSettling(g) \/ Succeed(g)
    \/ Except(g) \/ ReleaseGoal(g)
=============================================================================

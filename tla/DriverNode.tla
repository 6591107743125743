----------------------------- MODULE DriverNode -----------------------------
(***************************************************************************)
(* MyArmM750DriverNode of driver_node.py: lifecycle services, the state    *)
(* poll, the action server with its coordinator and the end of the         *)
(* process.  Services exclude one another, and so do polls; the callbacks  *)
(* of goals run concurrently with everything.                              *)
(***************************************************************************)
EXTENDS ActionCoordinator

VARIABLES
    polling,    \* _publish_state has seen ACTIVE and reads the joints
    node        \* up, or the next step of main's finally clause

vars == <<coreVars, lifeVars, goalVars, polling, node>>

NodeSteps == {"up", "cancel", "seal", "join", "gone"}

Init ==
    /\ CoreInit
    /\ LifeInit
    /\ GoalInit
    /\ polling = FALSE
    /\ node = "up"

-----------------------------------------------------------------------------
(* _publish_state                                                          *)

StartPoll ==
    /\ node = "up"
    /\ ~polling
    /\ Unlocked
    /\ lifecycle = "active"
    /\ polling' = TRUE
    /\ UNCHANGED <<coreVars, lifeVars, goalVars, node>>

\* The read answers, or raises: a fault is recorded then.
EndPoll ==
    /\ polling
    /\ polling' = FALSE
    /\ \/ link \in {"open", "faulted"} /\ UNCHANGED lifeVars
       \/ RecordFault
    /\ UNCHANGED <<coreVars, goalVars, node>>

-----------------------------------------------------------------------------
(* The end of main, and destroy_node                                       *)

\* The executor's shutdown waits for the services, the poll and the goal and
\* cancel callbacks that run, not for execute callbacks.
Interrupt ==
    /\ node = "up"
    /\ Unlocked
    /\ ~polling
    /\ \A g \in Goals : exec[g] # "reserve"
    /\ node' = "cancel"
    /\ UNCHANGED <<coreVars, lifeVars, goalVars, polling>>

\* TrajectoryActionCoordinator.shutdown: the answer of the cancel is not looked at.
ShutdownCancel ==
    /\ node = "cancel"
    /\ IF facade = 0 THEN UNCHANGED coreVars
       ELSE \E outcome \in {"ok", "no_active", "failed"} : Cancel(facade, outcome)
    /\ node' = "seal"
    /\ UNCHANGED <<lifeVars, goalVars, polling>>

Seal ==
    /\ node = "seal"
    /\ shut' = TRUE
    /\ node' = "join"
    /\ UNCHANGED <<facade, built, link, fac, work, pool, lifeVars, goalVars, polling>>

\* Mutant of ShutdownClose: the worker is not waited for.
ShutdownAtOnce ==
    /\ node = "join"
    /\ node' = "gone"
    /\ IF facade = 0
         THEN lifecycle' = "unconfigured" /\ UNCHANGED coreVars
         ELSE \/ /\ CloseSession("ok")
                 /\ lifecycle' = "unconfigured"
                 /\ facade' = 0
                 /\ UNCHANGED <<built, fac, pool, shut>>
              \/ Close("failed") /\ lifecycle' = "fault"
    /\ UNCHANGED <<transition, calls, outlived, goalVars, polling>>

\* The worker has ended; DriverLifecycleManager.shutdown finds no command to
\* cancel and closes the session.
ShutdownClose ==
    /\ node = "join"
    /\ pool = <<>>
    /\ node' = "gone"
    /\ IF facade = 0
         THEN lifecycle' = "unconfigured" /\ UNCHANGED coreVars
         ELSE \/ /\ CloseSession("ok")
                 /\ lifecycle' = "unconfigured"
                 /\ facade' = 0
                 /\ UNCHANGED <<built, fac, pool, shut>>
              \/ Close("failed") /\ lifecycle' = "fault"
    /\ UNCHANGED <<transition, calls, outlived, goalVars, polling>>

Shutdown == ShutdownCancel \/ Seal \/ ShutdownClose

-----------------------------------------------------------------------------
Serve == Service /\ node = "up" /\ UNCHANGED <<goalVars, polling, node>>

Manage == Transition /\ UNCHANGED <<goalVars, polling, node>>

Accept(g) == (CheckGoal(g) \/ CancelGoal(g)) /\ node = "up" /\ UNCHANGED <<polling, node>>

Run(g) ==
    \/ ReserveGoal(g) /\ UNCHANGED <<polling, node>>
    \/ Execute(g) /\ UNCHANGED <<polling, node>>

Command(g) == Work(g) /\ UNCHANGED <<lifeVars, goalVars, polling, node>>

Stray(g) == Progress(g) /\ UNCHANGED <<polling, node>>

\* The process may end, or run with nothing more to do.
Quiet ==
    /\ pool = <<>> /\ Unlocked /\ ~polling
    /\ \A g \in Goals : exec[g] \in {"idle", "rejected", "done"}
    /\ node \in {"up", "gone"}
    /\ UNCHANGED vars

Next ==
    \/ Serve \/ Manage \/ StartPoll \/ EndPoll \/ Interrupt \/ Shutdown \/ Quiet
    \/ \E g \in Goals : Accept(g) \/ Run(g) \/ Command(g) \/ Stray(g)

Spec == Init /\ [][Next]_vars

\* The thread of a transition, the main thread at its end, the one worker thread
\* and the thread of each goal go on when they can, and a bounded call returns.
FairSpec ==
    /\ Spec
    /\ WF_vars(Manage)
    /\ WF_vars(Shutdown)
    /\ WF_vars(\E g \in Goals : Command(g))
    /\ \A g \in Goals : WF_vars(Run(g))

-----------------------------------------------------------------------------
(* Properties                                                              *)

\* The state is well typed.
TypeOK ==
    /\ facade \in Nat /\ built \in Nat /\ calls \in Nat
    /\ link \in {"closed", "open", "faulted", "dead"}
    /\ fac \in [Goals -> Nat]
    /\ work \in [Goals -> Stages]
    /\ pool \in Seq(Goals)
    /\ shut \in BOOLEAN /\ strayed \in BOOLEAN /\ polling \in BOOLEAN
    /\ lifecycle \in Lifecycles
    /\ transition \in Transitions
    /\ outlived \in SUBSET Goals
    /\ exec \in [Goals -> Steps]
    /\ handle \in [Goals -> Handles]
    /\ sent \in [Goals -> BOOLEAN]
    /\ reserved \in Goals \cup {NoGoal}
    /\ accepted \in Goals \cup {NoGoal}
    /\ node \in NodeSteps

Unserved == {"idle", "reserve", "rejected", "refuse", "done"}

\* Goals are serialized: the reservation is held by the one goal that is between
\* its acceptance and its end, and the description it will execute is its own.
OneGoalAtATime ==
    /\ \A g \in Goals : exec[g] \notin Unserved <=> reserved = g
    /\ \A g \in Goals : exec[g] = "take" <=> accepted = g

\* ACTIVE means open hardware; INACTIVE and UNCONFIGURED mean closed hardware
\* and no command that moves the robot.
StateTellsHardware ==
    Unlocked =>
        /\ lifecycle = "active" => link \in {"open", "faulted"} /\ facade # 0
        /\ lifecycle \in {"inactive", "unconfigured"} =>
              link = "closed" /\ \A g \in Goals : work[g] # "running"

\* A goal that is reported succeeded or canceled has no command left that could
\* move the robot, and a success was a full execution without path violation.
ReportsAreTrue ==
    \A g \in Goals :
        /\ handle[g] = "succeeded" => work[g] = "succeeded"
        /\ handle[g] = "canceled" => work[g] \in Over \cup {"none"}
        /\ exec[g] \in {"settle", "stop", "succeed"} => work[g] = "succeeded" /\ ~strayed

\* After the end of the process nothing moves, and a port that may be open is a
\* recorded fault.
GoneIsQuiet ==
    node = "gone" =>
        /\ \A g \in Goals : work[g] \in Over \cup {"none"}
        /\ link = "closed" \/ lifecycle = "fault"

\* What a client is told of a goal whose handle and callback are so far, and what
\* a command that is so far can do to the robot.
Told(state, step) ==
    CASE state \in {"executing", "canceling"} -> "active"
      [] state = "none" -> IF step = "rejected" THEN "rejected" ELSE "new"
      [] OTHER -> state

Moves(stage) ==
    CASE stage = "none" -> "none"
      [] stage \in {"queued", "admitting", "published"} -> "pending"
      [] stage = "running" -> "moving"
      [] stage \in {"withdrawn", "void", "stopping", "failing"} -> "stopped"
      [] stage = "succeeded" -> "complete"
      [] OTHER -> "over"

Promised == INSTANCE GoalService
    WITH status <- [g \in Goals |-> Told(handle[g], exec[g])],
         motion <- [g \in Goals |-> Moves(work[g])],
         powered <- link \in {"open", "faulted"}

\* The action server, the lifecycle services, the worker and the end of the
\* process, however they interleave, keep the promises of GoalService.
ServesGoals == Promised!Spec

\* Every accepted goal ends and frees the driver for the next one.
GoalsEnd == reserved # NoGoal ~> reserved = NoGoal

\* The process ends once it was interrupted.
ShutdownEnds == node = "cancel" ~> node = "gone"

\* "Cancel motion and close hardware" (deactivate, lifecycle_manager.py:104): a
\* command that was unfinished when deactivate reported success never moves the
\* robot.
DeactivateCancels == \A g \in outlived : work[g] # "running"

\* "Reopen and re-probe hardware after any ROS/core boundary fault" (recover,
\* lifecycle_manager.py:141): when nothing is going on, a core in FAULT means a
\* driver in FAULT, the only state from which recover does that.
CoreFaultIsDriverFault ==
    (Unlocked /\ link = "faulted" /\ node = "up"
       /\ \A g \in Goals : exec[g] \in {"idle", "rejected", "done"}) => lifecycle = "fault"
=============================================================================

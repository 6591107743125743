----------------------------- MODULE CoreFacade -----------------------------
(***************************************************************************)
(* The core as the ROS driver sees it: the CoreRobotFacade of              *)
(* core_facade.py, the robot session behind it and the one worker thread   *)
(* of the action coordinator that executes trajectories on it.             *)
(*                                                                         *)
(* Every call of the session is one step here.  What happens inside such a *)
(* call, and that the results below are the ones it can have, is the       *)
(* subject of RobotSession.  A facade is known by its number, 0 is None;   *)
(* only the newest one can be connected, because the lifecycle manager     *)
(* drops a facade only after closing it.                                   *)
(***************************************************************************)
EXTENDS Naturals, Sequences

CONSTANTS
    Goals,        \* the goals that ever arrive
    NoGoal

ASSUME GoalsAssumption == NoGoal \notin Goals

VARIABLES
    facade,    \* the facade DriverLifecycleManager holds, 0 for None
    built,     \* how many facades have been built
    link,      \* its session: closed, open, faulted (open, the core is in FAULT)
               \* or dead (it calls itself connected, its port is lost)
    fac,       \* fac[g]: the facade the callback of goal g took
    work,      \* work[g]: how far the command of goal g is, or how it ended
    pool,      \* goals submitted to the worker and unfinished, the oldest first
    shut       \* the worker takes no more commands

coreVars == <<facade, built, link, fac, work, pool, shut>>

\* A published command does not move the robot before it is running.  A stop that
\* is acknowledged makes it withdrawn or stopping, one that fails void or failing.
Live == {"published", "withdrawn", "void", "running", "stopping", "failing"}
Unfinished == {"queued", "admitting"} \cup Live
Over == {"succeeded", "canceled", "failed", "raised"}
Stages == {"none"} \cup Unfinished \cup Over

CoreInit ==
    /\ facade = 0
    /\ built = 0
    /\ link = "closed"
    /\ fac = [g \in Goals |-> 0]
    /\ work = [g \in Goals |-> "none"]
    /\ pool = <<>>
    /\ shut = FALSE

\* A goal whose facade has been dropped meets a closed session.
LinkOf(g) == IF fac[g] = facade THEN link ELSE "closed"

\* Reads and stops need a session that is connected with its port.
Answers(g) == LinkOf(g) \in {"open", "faulted"}

\* FAULT_DETECTED in the session of facade f.
Faulted(f) == IF f = facade /\ link = "open" THEN "faulted" ELSE link

\* The command a facade's session has published as active.
Active(f) == {g \in Goals : fac[g] = f /\ work[g] \in Live}

-----------------------------------------------------------------------------
(* The worker thread inside execute_trajectory                             *)

Working(g, stages) ==
    /\ pool # <<>> /\ Head(pool) = g
    /\ work[g] \in stages
    /\ UNCHANGED <<facade, built, fac, shut>>

Reach(g, stage) == work' = [work EXCEPT ![g] = stage] /\ UNCHANGED <<pool, link>>
Finish(g, result) == work' = [work EXCEPT ![g] = result] /\ pool' = Tail(pool)

\* _finish_failed leaves the core in FAULT, unless it raises itself.
Fail(g) ==
    \/ Finish(g, "failed") /\ link' = Faulted(fac[g])
    \/ Finish(g, "raised") /\ link' \in {link, Faulted(fac[g])}

\* The readiness check may reject the command; it and the first read need the
\* session, or raise.
Ready(g) ==
    /\ Working(g, {"queued"})
    /\ \/ Answers(g) /\ Reach(g, "admitting")
       \/ \E result \in {"failed", "raised"} : Finish(g, result) /\ UNCHANGED link

\* Validation of the whole trajectory, then publication of the command.
Admit(g) ==
    /\ Working(g, {"admitting"})
    /\ \/ Reach(g, "published")
       \/ Finish(g, "failed") /\ UNCHANGED link        \* rejected
       \/ Fail(g)

\* Mutant of Begin: a command that finds no idle session waits for one.
BeginWaits(g) ==
    /\ Working(g, {"published"})
    /\ LinkOf(g) = "open"
    /\ Reach(g, "running")

\* EXECUTION_ACCEPTED is refused unless the core is connected and idle.
Begin(g) ==
    /\ Working(g, {"published"})
    /\ \/ LinkOf(g) = "open" /\ Reach(g, "running")
       \/ Fail(g)

\* A command that was stopped does not succeed; one whose stop failed is not canceled.
End(g) ==
    \/ /\ Working(g, {"running"})
       /\ \/ Finish(g, "succeeded") /\ UNCHANGED link
          \/ Fail(g)
    \/ /\ Working(g, {"withdrawn", "stopping"})
       /\ \/ Finish(g, "canceled") /\ UNCHANGED link
          \/ Fail(g)
    \/ Working(g, {"void", "failing"}) /\ Fail(g)

Work(g) == Ready(g) \/ Admit(g) \/ Begin(g) \/ End(g)

-----------------------------------------------------------------------------
(* Calls of the facade                                                     *)

\* A session that calls itself connected returns at once.
Connect(outcome) ==
    /\ link' = IF outcome = "ok" /\ link = "closed" THEN "open" ELSE link
    /\ UNCHANGED <<facade, built, fac, work, pool, shut>>

\* cancel_current_command: NO_ACTIVE_COMMAND before publication and after the
\* end; the result of one stop is cached, so a later cancel repeats it.  A stop
\* that failed leaves the core in FAULT.
Cancel(f, outcome) ==
    /\ \/ outcome = "no_active" /\ Active(f) = {} /\ UNCHANGED <<work, link>>
       \/ \E g \in Active(f) :
            \/ /\ outcome = "ok" /\ work[g] \notin {"void", "failing"}
               /\ work' = [work EXCEPT ![g] =
                             IF @ \in {"running", "stopping"} THEN "stopping" ELSE "withdrawn"]
               /\ UNCHANGED link
            \/ /\ outcome = "failed" /\ work[g] \notin {"withdrawn", "stopping"}
               /\ work' = [work EXCEPT ![g] =
                             IF @ \in {"running", "failing"} THEN "failing" ELSE "void"]
               /\ link' = Faulted(f)
    /\ UNCHANGED <<facade, built, fac, pool, shut>>

\* stop when no command is active on the session.
Stop(g, outcome) ==
    /\ \/ outcome = "ok" /\ Answers(g) /\ UNCHANGED link
       \/ outcome = "failed" /\ link' \in {link, Faulted(fac[g])}
    /\ UNCHANGED <<facade, built, fac, work, pool, shut>>

\* close bounds a running command by a stop; a published one is not EXECUTING
\* yet and is left alone.  It raises when that stop fails or the port does not
\* close; after the latter the session still calls itself connected.
CloseSession(outcome) ==
    LET running == {g \in Active(facade) : work[g] = "running"}
        After(stage) == [g \in Goals |-> IF g \in running THEN stage ELSE work[g]]
    IN \/ /\ outcome = "ok"
          /\ link' = "closed"
          /\ work' = After("stopping")
       \/ /\ outcome = "failed"
          /\ link = "open"
          /\ link' = "closed"
          /\ \E g \in Active(facade) : work[g] \in {"running", "void", "failing"}
          /\ work' = After("failing")
       \/ /\ outcome = "failed"
          /\ link \in {"open", "faulted"}
          /\ link' = "dead"
          /\ \E stage \in {"stopping", "failing"} : work' = After(stage)

Close(outcome) == CloseSession(outcome) /\ UNCHANGED <<facade, built, fac, pool, shut>>
=============================================================================

----------------------------- MODULE GoalService -----------------------------
(***************************************************************************)
(* What the driver promises the clients of its action server, without its  *)
(* threads, callbacks, lifecycle or queue.  Goals are executed one at a    *)
(* time; motion is a single start of a command whose port is open, after   *)
(* everything that moved before has ended; a command that was stopped      *)
(* never moves again; closing the port stops what moves; a success is a    *)
(* complete motion, and behind a cancellation nothing can move any more.   *)
(***************************************************************************)
CONSTANT Goals

VARIABLES
    status,     \* status[g]: what the client of goal g is told
    motion,     \* motion[g]: what the command of goal g can do to the robot
    powered     \* the port of the robot is open

serviceVars == <<status, motion, powered>>

Init ==
    /\ status = [g \in Goals |-> "new"]
    /\ motion = [g \in Goals |-> "none"]
    /\ powered = FALSE

Tell(g, from, to) ==
    /\ status[g] = from
    /\ status' = [status EXCEPT ![g] = to]
    /\ UNCHANGED <<motion, powered>>

Turn(g, from, to) ==
    /\ motion[g] \in from
    /\ motion' = [motion EXCEPT ![g] = to]
    /\ UNCHANGED <<status, powered>>

\* No other active goal has come as far as a command.
Alone(g) == \A h \in Goals \ {g} : status[h] = "active" => motion[h] = "none"

Reject(g) == Tell(g, "new", "rejected")
Accept(g) == Alone(g) /\ Tell(g, "new", "active")

Submit(g) == status[g] = "active" /\ Alone(g) /\ Turn(g, {"none"}, "pending")

\* The goal may have been aborted: not every abort withdraws a command that waits.
Start(g) ==
    /\ powered
    /\ status[g] \in {"active", "aborted"}
    /\ \A h \in Goals : motion[h] \notin {"moving", "stopped"}
    /\ Turn(g, {"pending"}, "moving")

Stop(g) == Turn(g, {"pending", "moving"}, "stopped")
Complete(g) == Turn(g, {"moving"}, "complete")
Fail(g) == Turn(g, {"pending", "moving", "stopped"}, "over")

Succeed(g) == motion[g] = "complete" /\ Tell(g, "active", "succeeded")
Cancel(g) == motion[g] \in {"none", "complete", "over"} /\ Tell(g, "active", "canceled")
Abort(g) == Tell(g, "active", "aborted")

Open == ~powered /\ powered' = TRUE /\ UNCHANGED <<status, motion>>

Close ==
    /\ powered
    /\ powered' = FALSE
    /\ motion' = [g \in Goals |-> IF motion[g] = "moving" THEN "stopped" ELSE motion[g]]
    /\ UNCHANGED status

Next ==
    \/ Open \/ Close
    \/ \E g \in Goals :
          \/ Reject(g) \/ Accept(g) \/ Submit(g)
          \/ Start(g) \/ Stop(g) \/ Complete(g) \/ Fail(g)
          \/ Succeed(g) \/ Cancel(g) \/ Abort(g)

Spec == Init /\ [][Next]_serviceVars
=============================================================================

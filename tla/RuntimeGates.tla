---------------------------- MODULE RuntimeGates ----------------------------
(***************************************************************************)
(* The two live release gates, tools/ros_runtime_gate.py and               *)
(* tools/moveit_runtime_gate.py.  Each starts ROS launches in process      *)
(* groups of their own, works through a scenario and stops every launch    *)
(* again, whatever happens on the way.  A scenario is a sequence of steps; *)
(* a step that raises goes on with the stops that protect it.              *)
(*                                                                         *)
(* A launch is its leader (the ros2 launch process) and its nodes.  The    *)
(* driver under test answers late or never, its diagnostics are delivered  *)
(* in order out of a queue of limited depth, and Ctrl-C, the death of a    *)
(* leader and a launch that ignores a signal come at any time.             *)
(***************************************************************************)
EXTENDS Integers, Sequences, FiniteSets, SequencesExt, FiniteSetsExt

CONSTANTS
    Gates,               \* which of "ros" and "moveit" to run
    QueueDepth,          \* of the diagnostics subscription
    MaxDiagnostics, MaxInterrupts, MaxDeaths    \* bounds of the model

ASSUME GateAssumption ==
    /\ Gates \subseteq {"ros", "moveit"}
    /\ QueueDepth \in Nat \ {0}

Step(op, arg) == [op |-> op, arg |-> arg]

\* _run_driver with DriverProbe.run, then _run_camera with CameraProbe.run.
RosSteps ==
    << Step("launch", "driver"), Step("node", "driver"),
       Step("wait", "unconfigured"), Step("call", "configure"), Step("wait", "inactive"),
       Step("call", "activate"), Step("wait", "joint_state"), Step("check", "contract"),
       Step("launch", "network"),
       Step("goal", "send"), Step("wait", "activity"), Step("cancel", "goal"),
       Step("result", "goal"), Step("check", "network_report"), Step("stop", "network"),
       Step("call", "deactivate"), Step("wait", "inactive"),
       Step("call", "cleanup"), Step("wait", "unconfigured"), Step("check", "evidence"),
       Step("stop", "driver"),
       Step("launch", "camera"), Step("node", "camera"),
       Step("check", "cameras"), Step("stop", "camera") >>

\* _run_scenario for each mode.
MoveitSteps ==
    << Step("launch", "plan-only"), Step("probe", "plan-only"), Step("report", "plan-only"),
       Step("stop", "plan-only"),
       Step("launch", "mock-execution"), Step("probe", "mock-execution"),
       Step("report", "mock-execution"), Step("stop", "mock-execution") >>

Modes == {"plan-only", "mock-execution"}
Launches == {"driver", "network", "camera"} \cup Modes

\* What _validate_report tells apart of a probe's report.
Reports == [mode : Modes, planned : BOOLEAN, blocked : BOOLEAN,
            execution : {"absent", "succeeded", "other"}, cancel : BOOLEAN]
NoReport == [mode |-> "none", planned |-> FALSE, blocked |-> FALSE,
             execution |-> "absent", cancel |-> FALSE]

VARIABLES
    gate,
    pc,            \* index of the step, one past the last when the gate is over
    phase,         \* within a call, a probe or a stop
    failing,       \* an exception is on its way
    leader, nodes, \* of each launch: "none", "up" or "gone"
    signal,        \* the last signal sent to each launch: "none", "int", "term" or "kill"
    probe,         \* the probe process of the MoveIt gate: "none", "up" or "gone"
    reports,       \* the report of each mode
    lifecycle,     \* of the driver under test
    changes,       \* number of its transitions
    diagnostics,   \* published and not yet received: [state, changes]
    published,     \* their number
    seen,          \* [state, changes, joints, diagnosed, feedback] recorded by the probe
    goal,          \* the trajectory goal of the probe
    interrupts, deaths,
    exposed        \* history: launches an exception met where no stop protects them

driver == <<lifecycle, changes, diagnostics, published, goal>>
procs == <<leader, nodes, signal>>
vars == <<gate, pc, phase, failing, procs, probe, reports, driver, seen,
          interrupts, deaths, exposed>>

Steps == IF gate = "ros" THEN RosSteps ELSE MoveitSteps
Over == pc > Len(Steps)
At(op) == ~Over /\ Steps[pc].op = op
Arg == Steps[pc].arg

Init ==
    /\ gate \in Gates
    /\ pc = 1 /\ phase = "begin" /\ failing = FALSE
    /\ leader = [l \in Launches |-> "none"]
    /\ nodes = [l \in Launches |-> "none"]
    /\ signal = [l \in Launches |-> "none"]
    /\ probe = "none"
    /\ reports = [m \in Modes |-> NoReport]
    /\ lifecycle = "unconfigured" /\ changes = 0
    /\ diagnostics = <<>> /\ published = 0
    /\ seen = [state |-> "none", changes |-> 0, joints |-> 0, diagnosed |-> FALSE,
               feedback |-> FALSE]
    /\ goal = "none"
    /\ interrupts = 0 /\ deaths = 0 /\ exposed = {}

-----------------------------------------------------------------------------
(* Where an exception goes                                                 *)

\* The step after which the stop of a launch is sure to run: the ROS gate opens
\* its try only once the node (and the probe) of the scenario exist.
Opening(launch) ==
    Step(IF launch \in {"driver", "camera"} THEN "node" ELSE "launch", launch)

\* The stop at step k runs when step i raises.
Protects(k, i) ==
    /\ Steps[k].op = "stop" /\ k > i
    /\ \E j \in 1..(i - 1) : Steps[j] = Opening(Steps[k].arg)

\* Mutant of HandlerOf: the network probe's stop is all there is.
HandlerOfInner(i) ==
    LET stops == {k \in DOMAIN Steps : Protects(k, i) /\ Steps[k].arg # "driver"} IN
    IF stops = {} THEN Len(Steps) + 1 ELSE Min(stops)

HandlerOf(i) ==
    LET stops == {k \in DOMAIN Steps : Protects(k, i)} IN
    IF stops = {} THEN Len(Steps) + 1 ELSE Min(stops)

\* Launches whose stop has not been reached and does not protect step i.
Unprotected(i) ==
    {l \in Launches : /\ leader[l] = "up"
                      /\ \E k \in DOMAIN Steps :
                            Steps[k] = Step("stop", l) /\ k >= i /\ ~Protects(k, i)}

Advance ==
    /\ pc' = IF failing THEN HandlerOf(pc) ELSE pc + 1
    /\ phase' = "begin"
    /\ UNCHANGED <<failing, exposed>>

Raise ==
    /\ pc' = HandlerOf(pc)
    /\ phase' = "begin"
    /\ failing' = TRUE
    /\ UNCHANGED exposed

\* Ctrl-C: at any step, in the middle of a stop too.
Interrupt ==
    /\ ~Over /\ interrupts < MaxInterrupts
    /\ interrupts' = interrupts + 1
    /\ exposed' = exposed \cup Unprotected(pc)
    /\ pc' = HandlerOf(pc) /\ phase' = "begin" /\ failing' = TRUE
    /\ UNCHANGED <<gate, procs, probe, reports, driver, seen, deaths>>

-----------------------------------------------------------------------------
(* ManagedLaunch                                                           *)

\* __init__; Popen may raise.
Launch ==
    /\ At("launch")
    /\ \/ /\ leader' = [leader EXCEPT ![Arg] = "up"]
          /\ nodes' = [nodes EXCEPT ![Arg] = "up"]
          /\ Advance
       \/ Raise /\ UNCHANGED <<leader, nodes>>
    /\ UNCHANGED <<gate, signal, probe, reports, driver, seen, interrupts, deaths>>

\* The node of a scenario is created; when that raises, nothing stops the launch.
CreateNode ==
    /\ At("node")
    /\ \/ Advance
       \/ /\ exposed' = exposed \cup Unprotected(pc)
          /\ pc' = HandlerOf(pc) /\ phase' = "begin" /\ failing' = TRUE
    /\ UNCHANGED <<gate, procs, probe, reports, driver, seen, interrupts, deaths>>

\* stop: one SIGINT to the leader, unless it is gone already.
StopLaunch ==
    /\ At("stop") /\ phase = "begin" /\ leader[Arg] = "up"
    /\ signal' = [signal EXCEPT ![Arg] = "int"]
    /\ phase' = "int"
    /\ UNCHANGED <<gate, pc, failing, leader, nodes, probe, reports, driver, seen,
                   interrupts, deaths, exposed>>

\* The leader is gone without more: the MoveIt gate also reads the log for traces
\* of an unclean shutdown.
StopEnds ==
    /\ At("stop") /\ phase \in {"begin", "int"} /\ leader[Arg] # "up"
    /\ \/ Advance
       \/ gate = "moveit" /\ Raise
    /\ UNCHANGED <<gate, procs, probe, reports, driver, seen, interrupts, deaths>>

\* Mutant of StopTimesOut: after SIGTERM the gate waits without a deadline.
StopTimesOutOnce ==
    /\ At("stop") /\ phase = "int" /\ leader[Arg] = "up"
    /\ phase' = "term"
    /\ signal' = [signal EXCEPT ![Arg] = "term"]
    /\ UNCHANGED <<gate, pc, failing, leader, nodes, probe, reports, driver, seen,
                   interrupts, deaths, exposed>>

\* A deadline passes: SIGTERM for the group, then SIGKILL, which ends it.
StopTimesOut ==
    /\ At("stop") /\ phase \in {"int", "term"} /\ leader[Arg] = "up"
    /\ IF phase = "int"
         THEN /\ phase' = "term"
              /\ signal' = [signal EXCEPT ![Arg] = "term"]
              /\ UNCHANGED <<leader, nodes>>
         ELSE /\ phase' = "kill"
              /\ signal' = [signal EXCEPT ![Arg] = "kill"]
              /\ leader' = [leader EXCEPT ![Arg] = "gone"]
              /\ nodes' = [nodes EXCEPT ![Arg] = "gone"]
    /\ UNCHANGED <<gate, pc, failing, probe, reports, driver, seen, interrupts, deaths, exposed>>

\* A stop that needed more than SIGINT fails the gate.
StopForced ==
    /\ At("stop") /\ phase \in {"term", "kill"} /\ leader[Arg] # "up"
    /\ Raise
    /\ UNCHANGED <<gate, procs, probe, reports, driver, seen, interrupts, deaths>>

\* The launch ends its nodes and itself on SIGINT, at once or late; SIGTERM may
\* end the one without the other.
Obey(l) ==
    /\ signal[l] \in {"int", "term"}
    /\ \/ /\ signal[l] = "int" /\ leader[l] = "up"
          /\ leader' = [leader EXCEPT ![l] = "gone"]
          /\ nodes' = [nodes EXCEPT ![l] = "gone"]
       \/ /\ signal[l] = "term" /\ leader[l] = "up"
          /\ leader' = [leader EXCEPT ![l] = "gone"]
          /\ UNCHANGED nodes
       \/ /\ signal[l] = "term" /\ nodes[l] = "up"
          /\ nodes' = [nodes EXCEPT ![l] = "gone"]
          /\ UNCHANGED leader
    /\ UNCHANGED <<gate, pc, phase, failing, signal, probe, reports, driver, seen,
                   interrupts, deaths, exposed>>

\* A leader dies on its own and leaves its nodes behind.
Dies(l) ==
    /\ deaths < MaxDeaths /\ leader[l] = "up"
    /\ leader' = [leader EXCEPT ![l] = "gone"]
    /\ deaths' = deaths + 1
    /\ UNCHANGED <<gate, pc, phase, failing, nodes, signal, probe, reports, driver, seen,
                   interrupts, exposed>>

-----------------------------------------------------------------------------
(* The driver under test                                                   *)

TransitionTarget ==
    [configure |-> "inactive", activate |-> "active",
     deactivate |-> "inactive", cleanup |-> "unconfigured"]

\* It answers the call that waits for it.
Serve ==
    /\ At("call") /\ phase = "sent" /\ nodes["driver"] = "up"
    /\ \/ /\ phase' = "accepted"
          /\ lifecycle' = TransitionTarget[Arg]
          /\ changes' = changes + 1
       \/ phase' = "refused" /\ UNCHANGED <<lifecycle, changes>>
    /\ UNCHANGED <<gate, pc, failing, procs, probe, reports, diagnostics, published, seen, goal,
                   interrupts, deaths, exposed>>

\* It publishes its diagnostics; KEEP_LAST drops the oldest.
Publish ==
    /\ nodes["driver"] = "up" /\ ~Over /\ published < MaxDiagnostics
    /\ LET all == Append(diagnostics, [state |-> lifecycle, changes |-> changes]) IN
       diagnostics' = IF Len(all) > QueueDepth THEN Tail(all) ELSE all
    /\ published' = published + 1
    /\ UNCHANGED <<gate, pc, phase, failing, procs, probe, reports, lifecycle, changes, seen,
                   goal, interrupts, deaths, exposed>>

\* The goal is accepted or rejected, ends by itself, or ends canceled.
RunGoal ==
    /\ nodes["driver"] = "up"
    /\ \/ goal = "sent" /\ goal' \in {"executing", "rejected"}
       \/ goal = "executing" /\ goal' \in {"succeeded", "aborted"}
       \/ goal = "canceling" /\ goal' \in {"canceled", "aborted"}
    /\ UNCHANGED <<gate, pc, phase, failing, procs, probe, reports, lifecycle, changes,
                   diagnostics, published, seen, interrupts, deaths, exposed>>

-----------------------------------------------------------------------------
(* DriverProbe and CameraProbe                                             *)

\* Where the probe waits inside _wait_for, which spins its node.
Spinning ==
    \/ At("wait") \/ (At("call") /\ phase # "begin")
    \/ (At("goal") /\ goal # "none") \/ At("cancel") \/ At("result")
    \/ At("check") /\ Arg \in {"contract", "network_report"}

\* rclpy.spin_once runs the callback of one message: diagnostics in their order,
\* a joint state once the driver has been active, feedback of a running goal.
Spin ==
    /\ Spinning /\ leader["driver"] = "up"
    /\ \/ /\ diagnostics # <<>>
          /\ diagnostics' = Tail(diagnostics)
          /\ seen' = [seen EXCEPT !.state = Head(diagnostics).state,
                                  !.changes = Head(diagnostics).changes,
                                  !.diagnosed = TRUE]
       \/ /\ changes >= 2 /\ seen.joints < 2
          /\ seen' = [seen EXCEPT !.joints = @ + 1]
          /\ UNCHANGED diagnostics
       \/ /\ goal \notin {"none", "sent", "rejected"} /\ ~seen.feedback
          /\ seen' = [seen EXCEPT !.feedback = TRUE]
          /\ UNCHANGED diagnostics
    /\ UNCHANGED <<gate, pc, phase, failing, procs, probe, reports, lifecycle, changes,
                   published, goal, interrupts, deaths, exposed>>

Observed(condition) ==
    CASE condition = "joint_state" -> seen.joints > 0
      [] condition = "activity" -> seen.feedback /\ seen.joints = 2 /\ seen.diagnosed
      [] OTHER -> seen.state = condition

\* _wait_for: the launch is alive and the predicate holds ...
WaitHolds ==
    /\ At("wait") /\ leader["driver"] = "up" /\ Observed(Arg)
    /\ Advance
    /\ UNCHANGED <<gate, procs, probe, reports, driver, seen, interrupts, deaths>>

\* ... or the deadline passes, the launch is gone, or a callback raises.  A check
\* that is no more than its outcome and the start of a call end like this too.
StepRaises ==
    /\ \/ At("wait") \/ At("check") \/ At("goal") \/ At("cancel") \/ At("result")
       \/ At("report") \/ At("call")
    /\ Raise
    /\ UNCHANGED <<gate, procs, probe, reports, driver, seen, interrupts, deaths>>

\* The description and the frames have been received and the QoS is right.
ContractHolds ==
    /\ At("check") /\ Arg = "contract" /\ leader["driver"] = "up"
    /\ Advance
    /\ UNCHANGED <<gate, procs, probe, reports, driver, seen, interrupts, deaths>>

\* The probe on the host has written a report within the budgets.
NetworkReported ==
    /\ At("check") /\ Arg = "network_report"
    /\ leader["driver"] = "up" /\ leader["network"] = "up"
    /\ Advance
    /\ UNCHANGED <<gate, procs, probe, reports, driver, seen, interrupts, deaths>>

\* Diagnostics received so far named the evidence for the stop capability.
EvidenceGiven ==
    /\ At("check") /\ Arg = "evidence" /\ seen.state # "none"
    /\ Advance
    /\ UNCHANGED <<gate, procs, probe, reports, driver, seen, interrupts, deaths>>

\* Two frames of every camera, its diagnostics and its place have been received.
CamerasSeen ==
    /\ At("check") /\ Arg = "cameras" /\ leader["camera"] = "up"
    /\ Advance
    /\ UNCHANGED <<gate, procs, probe, reports, driver, seen, interrupts, deaths>>

\* _call_transition
SendCall ==
    /\ At("call") /\ phase = "begin"
    /\ phase' = "sent"
    /\ UNCHANGED <<gate, pc, failing, procs, probe, reports, driver, seen, interrupts, deaths,
                   exposed>>

CallAnswered ==
    /\ At("call") /\ phase \in {"accepted", "refused"} /\ leader["driver"] = "up"
    /\ IF phase = "accepted" THEN Advance ELSE Raise
    /\ UNCHANGED <<gate, procs, probe, reports, driver, seen, interrupts, deaths>>

\* _run_canceled_action, up to the acceptance of the goal.
SendGoal ==
    /\ At("goal") /\ goal = "none"
    /\ goal' = "sent"
    /\ UNCHANGED <<gate, pc, phase, failing, procs, probe, reports, lifecycle, changes,
                   diagnostics, published, seen, interrupts, deaths, exposed>>

GoalAnswered ==
    /\ At("goal") /\ goal \notin {"none", "sent"} /\ leader["driver"] = "up"
    /\ IF goal = "rejected"
         THEN Raise /\ UNCHANGED seen
         ELSE Advance /\ seen' = [seen EXCEPT !.joints = 0, !.diagnosed = FALSE]
    /\ UNCHANGED <<gate, procs, probe, reports, driver, interrupts, deaths>>

\* The cancellation: refused when the goal has ended on its own.
CancelGoal ==
    /\ At("cancel") /\ leader["driver"] = "up"
    /\ IF goal = "executing" THEN goal' = "canceling" /\ Advance ELSE Raise /\ UNCHANGED goal
    /\ UNCHANGED <<gate, procs, probe, reports, lifecycle, changes, diagnostics, published,
                   seen, interrupts, deaths>>

\* Mutant of GoalEnds: any terminal status will do.
GoalEndsSomehow ==
    /\ At("result") /\ goal \in {"canceled", "aborted"} /\ leader["driver"] = "up"
    /\ Advance
    /\ UNCHANGED <<gate, procs, probe, reports, driver, seen, interrupts, deaths>>

GoalEnds ==
    /\ At("result") /\ goal \in {"canceled", "aborted"} /\ leader["driver"] = "up"
    /\ IF goal = "canceled" THEN Advance ELSE Raise
    /\ UNCHANGED <<gate, procs, probe, reports, driver, seen, interrupts, deaths>>

-----------------------------------------------------------------------------
(* The MoveIt gate                                                         *)

\* _run_probe: the probe runs in a session of its own.
StartProbe ==
    /\ At("probe") /\ phase = "begin"
    /\ IF leader[Arg] = "up" THEN probe' = "up" /\ phase' = "run" /\ UNCHANGED <<pc, failing, exposed>>
                             ELSE Raise /\ UNCHANGED probe
    /\ UNCHANGED <<gate, procs, reports, driver, seen, interrupts, deaths>>

\* It exits with its last JSON object, or with an error, or is ended by the deadline.
ProbeEnds ==
    /\ At("probe") /\ phase = "run"
    /\ probe' = "gone"
    /\ \/ \E report \in Reports : reports' = [reports EXCEPT ![Arg] = report] /\ Advance
       \/ Raise /\ UNCHANGED reports
    /\ UNCHANGED <<gate, procs, driver, seen, interrupts, deaths>>

\* _validate_report
ReportValid(report, mode) ==
    /\ report.mode = mode /\ report.planned /\ report.blocked /\ ~report.cancel
    /\ report.execution = IF mode = "plan-only" THEN "absent" ELSE "succeeded"

ReportAccepted ==
    /\ At("report") /\ leader[Arg] = "up" /\ ReportValid(reports[Arg], Arg)
    /\ Advance
    /\ UNCHANGED <<gate, procs, probe, reports, driver, seen, interrupts, deaths>>

-----------------------------------------------------------------------------
GateStep ==
    \/ Launch \/ CreateNode \/ StopLaunch \/ StopEnds \/ StopTimesOut \/ StopForced
    \/ WaitHolds \/ StepRaises \/ SendCall \/ CallAnswered
    \/ ContractHolds \/ NetworkReported \/ EvidenceGiven \/ CamerasSeen
    \/ SendGoal \/ GoalAnswered \/ CancelGoal \/ GoalEnds
    \/ StartProbe \/ ProbeEnds \/ ReportAccepted

Done == Over /\ UNCHANGED vars

Next ==
    \/ GateStep \/ Spin \/ Serve \/ Publish \/ RunGoal \/ Interrupt \/ Done
    \/ \E l \in Launches : Obey(l) \/ Dies(l)

Spec == Init /\ [][Next]_vars

\* The gate is a running process: it takes its steps, and its clock its deadlines.
FairSpec == Spec /\ WF_vars(GateStep)

-----------------------------------------------------------------------------
(* Properties                                                              *)

\* Whatever raises on the way - a step, a stop of another launch, Ctrl-C - no
\* launch is still led when the gate is over, except one an exception met
\* before its try or in the middle of its own stop.  A probe outlives the gate
\* only after Ctrl-C.
Reaped ==
    Over => /\ \A l \in Launches : leader[l] = "up" => l \in exposed
            /\ probe = "up" => interrupts > 0

\* A gate that passes saw what it reports: the ROS gate a canceled goal and, with
\* every earlier diagnostic delivered before it, one the driver published after
\* its cleanup; the MoveIt gate both modes' evidence and no other; and no launch
\* had to be forced.
PassIsEarned ==
    Over /\ ~failing =>
        /\ \A l \in Launches : signal[l] \in {"none", "int"} /\ leader[l] # "up"
        /\ gate = "ros" => /\ goal = "canceled" /\ lifecycle = "unconfigured"
                           /\ seen.changes = 4
        /\ gate = "moveit" =>
             /\ reports["plan-only"].execution = "absent"
             /\ reports["mock-execution"].execution = "succeeded"
             /\ \A m \in Modes : reports[m].mode = m /\ reports[m].planned
                                 /\ reports[m].blocked /\ ~reports[m].cancel

\* Every gate ends, whatever its launches do.
GateEnds == <>Over

\* What ros_runtime_gate.py:166 says of stop: the complete launch group stops.
GroupsStop == Over => \A l \in Launches : nodes[l] = "up" => l \in exposed
=============================================================================

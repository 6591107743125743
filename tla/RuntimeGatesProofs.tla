------------------------- MODULE RuntimeGatesProofs -------------------------
(***************************************************************************)
(* Proof that the release gates stop what they start and earn what they    *)
(* report, for every depth of the subscription and every number of         *)
(* messages, interrupts and deaths.                                        *)
(***************************************************************************)
EXTENDS RuntimeGates, WellFoundedInduction, TLAPS

-----------------------------------------------------------------------------
(* The inductive invariant                                                 *)

Lifecycles == {"unconfigured", "inactive", "active"}
Diagnostics == [state : Lifecycles, changes : Nat]

\* Types, as far as the properties depend on them.
TypeInv ==
    /\ gate \in Gates
    /\ pc \in 1..(Len(Steps) + 1)
    /\ failing \in BOOLEAN
    /\ leader \in [Launches -> {"none", "up", "gone"}]
    /\ signal \in [Launches -> {"none", "int", "term", "kill"}]
    /\ reports \in [Modes -> Reports \cup {NoReport}]
    /\ lifecycle \in Lifecycles /\ changes \in Nat
    /\ diagnostics \in Seq(Diagnostics)
    /\ seen \in [state : Lifecycles \cup {"none"}, changes : Nat, joints : Nat,
                 diagnosed : BOOLEAN, feedback : BOOLEAN]
    /\ interrupts \in Nat

\* No launch is led before its step is reached, and one that is led has its stop
\* ahead of it; an exception is the only thing that leaves one behind.
LaunchInv ==
    /\ \A l \in Launches : leader[l] = "up" =>
         \E j \in DOMAIN Steps : Steps[j] = Step("launch", l) /\ j < pc
    /\ \A l \in Launches : leader[l] = "up" /\ l \notin exposed =>
         \E k \in DOMAIN Steps : Steps[k] = Step("stop", l) /\ pc <= k
    /\ exposed # {} => failing
    /\ failing => Over \/ At("stop")

\* A probe is up only while its step waits for it, or since a Ctrl-C.
ProbeInv == probe = "up" => (At("probe") /\ phase = "run") \/ interrupts > 0

\* A launch was forced only in the stop that is about to fail for it.
SignalInv ==
    ~failing => \A l \in Launches :
        signal[l] \in {"term", "kill"} => At("stop") /\ Arg = l /\ phase \in {"term", "kill"}

\* The state the driver is in after so many of the transitions of a clean run.
StateAfter(n) == IF n = 2 THEN "active" ELSE IF n \in {1, 3} THEN "inactive" ELSE "unconfigured"

\* Transitions requested before step i of the ROS gate.
CallsBefore(i) == IF i <= 4 THEN 0 ELSE IF i <= 6 THEN 1 ELSE IF i <= 16 THEN 2
                  ELSE IF i <= 18 THEN 3 ELSE 4

\* A clean run of the ROS gate has made the transitions of the steps behind it.
DriverInv ==
    ~failing /\ gate = "ros" =>
        /\ changes = CallsBefore(pc) + (IF At("call") /\ phase = "accepted" THEN 1 ELSE 0)
        /\ lifecycle = StateAfter(changes)

\* A sequence of diagnostics in the order they were published, none older than one
\* seen before nor newer than the driver's transitions.
InOrder(queue, oldest, newest) ==
    /\ \A i \in DOMAIN queue :
          /\ queue[i].state = StateAfter(queue[i].changes)
          /\ oldest <= queue[i].changes /\ queue[i].changes <= newest
    /\ \A i, j \in DOMAIN queue : i < j => queue[i].changes <= queue[j].changes

\* Diagnostics are delivered in the order they were published, so what was seen
\* is never newer than what is queued.
DiagnosticsInv ==
    ~failing /\ gate = "ros" =>
        /\ InOrder(diagnostics, seen.changes, changes)
        /\ seen.state # "none" => seen.state = StateAfter(seen.changes)
        /\ seen.changes <= changes

\* What the steps behind a clean run have established.
EarnedInv ==
    ~failing =>
        /\ gate = "ros" => /\ pc > 5 => seen.changes > 0
                           /\ pc > 13 => goal = "canceled"
                           /\ pc > 19 => seen.changes = 4
        /\ gate = "moveit" => /\ pc > 3 => ReportValid(reports["plan-only"], "plan-only")
                              /\ pc > 7 => ReportValid(reports["mock-execution"],
                                                       "mock-execution")

GateInv ==
    /\ TypeInv /\ LaunchInv /\ ProbeInv /\ SignalInv
    /\ DriverInv /\ DiagnosticsInv /\ EarnedInv

-----------------------------------------------------------------------------
(* The steps of the gates                                                  *)

\* Where the steps of the ROS gate stand in its sequence.
LEMMA RosOrder ==
    ASSUME gate = "ros"
    PROVE  /\ Len(Steps) = 25 /\ DOMAIN Steps = 1..25
           /\ \A i \in 1..25 :
                /\ Steps[i].op = "launch" <=> i \in {1, 9, 22}
                /\ Steps[i].op = "node" <=> i \in {2, 23}
                /\ Steps[i].op = "stop" <=> i \in {15, 21, 25}
                /\ Steps[i].op = "call" <=> i \in {4, 6, 16, 18}
                /\ Steps[i].op = "wait" <=> i \in {3, 5, 7, 11, 17, 19}
                /\ Steps[i].op = "goal" <=> i = 10
                /\ Steps[i].op = "cancel" <=> i = 12
                /\ Steps[i].op = "result" <=> i = 13
                /\ Steps[i].op = "check" <=> i \in {8, 14, 20, 24}
                /\ Steps[i].op \notin {"probe", "report"}
           /\ \A i \in {1, 2, 21} : Steps[i].arg = "driver"
           /\ \A i \in {9, 15} : Steps[i].arg = "network"
           /\ \A i \in {22, 23, 25} : Steps[i].arg = "camera"
           /\ Steps[4].arg = "configure" /\ Steps[6].arg = "activate"
           /\ Steps[16].arg = "deactivate" /\ Steps[18].arg = "cleanup"
           /\ Steps[5].arg = "inactive" /\ Steps[19].arg = "unconfigured"
<1>1. Steps = RosSteps
  BY DEF Steps
<1>2. Len(Steps) = 25 /\ DOMAIN Steps = 1..25
  BY <1>1 DEF RosSteps
<1> QED
  BY <1>1, <1>2, SMTT(60) DEF RosSteps, Step

\* Where those of the MoveIt gate stand.
LEMMA MoveitOrder ==
    ASSUME gate = "moveit"
    PROVE  /\ Len(Steps) = 8 /\ DOMAIN Steps = 1..8
           /\ \A i \in 1..8 :
                /\ Steps[i].op = "launch" <=> i \in {1, 5}
                /\ Steps[i].op = "probe" <=> i \in {2, 6}
                /\ Steps[i].op = "report" <=> i \in {3, 7}
                /\ Steps[i].op = "stop" <=> i \in {4, 8}
                /\ Steps[i].op \in {"launch", "probe", "report", "stop"}
           /\ \A i \in 1..4 : Steps[i].arg = "plan-only"
           /\ \A i \in 5..8 : Steps[i].arg = "mock-execution"
<1>1. Steps = MoveitSteps
  BY DEF Steps
<1>2. Len(Steps) = 8 /\ DOMAIN Steps = 1..8
  BY <1>1 DEF MoveitSteps
<1> QED
  BY <1>1, <1>2 DEF MoveitSteps, Step

\* The steps are steps.
LEMMA StepsTyped ==
    ASSUME gate \in {"ros", "moveit"}
    PROVE  /\ Len(Steps) \in Nat /\ DOMAIN Steps = 1..Len(Steps)
           /\ \A i \in DOMAIN Steps :
                /\ Steps[i].op \in {"launch", "node", "stop"} => Steps[i].arg \in Launches
                /\ Steps[i].op \in {"probe", "report"} => Steps[i].arg \in Modes
<1>1. CASE gate = "ros"
  <2>1. Steps = RosSteps
    BY <1>1 DEF Steps
  <2> QED
    BY <1>1, <2>1, RosOrder DEF RosSteps, Step, Launches, Modes
<1>2. CASE gate = "moveit"
  <2>1. Steps = MoveitSteps
    BY <1>2 DEF Steps
  <2> QED
    BY <1>2, <2>1, MoveitOrder DEF MoveitSteps, Step, Launches, Modes
<1> QED
  BY <1>1, <1>2

\* A step is known by its operation and its argument.
LEMMA StepIs ==
    ASSUME gate \in {"ros", "moveit"}, NEW i \in DOMAIN Steps
    PROVE  \A op, arg : Steps[i] = Step(op, arg) <=> Steps[i].op = op /\ Steps[i].arg = arg
<1>1. Steps[i] = [op |-> Steps[i].op, arg |-> Steps[i].arg]
  <2>1. CASE gate = "ros"
    <3>1. Steps = RosSteps /\ i \in 1..25
      BY <2>1, RosOrder DEF Steps
    <3> QED
      BY <3>1 DEF RosSteps, Step
  <2>2. CASE gate = "moveit"
    <3>1. Steps = MoveitSteps /\ i \in 1..8
      BY <2>2, MoveitOrder DEF Steps
    <3> QED
      BY <3>1 DEF MoveitSteps, Step
  <2> QED
    BY <2>1, <2>2
<1> QED
  BY <1>1 DEF Step

\* A launch is stopped by the later steps of its gate, behind the node of its scenario.
LEMMA StopFollows ==
    ASSUME gate \in {"ros", "moveit"}, NEW l \in Launches,
           NEW j \in DOMAIN Steps, Steps[j] = Step("launch", l)
    PROVE  /\ \E k \in DOMAIN Steps : Steps[k] = Step("stop", l) /\ j < k
           /\ \/ Steps[j] = Opening(l)
              \/ j + 1 \in DOMAIN Steps /\ Steps[j + 1] = Opening(l) /\ Steps[j + 1].op = "node"
<1>1. Steps[j].op = "launch" /\ Steps[j].arg = l
  BY StepIs
<1>2. CASE gate = "ros"
  <2>1. j \in {1, 9, 22} /\ DOMAIN Steps = 1..25
    BY <1>1, <1>2, RosOrder
  <2>2. PICK k \in {15, 21, 25} : j < k /\ Steps[k].op = "stop" /\ Steps[k].arg = l
    BY <1>1, <1>2, <2>1, RosOrder
  <2>3. Steps[k] = Step("stop", l)
    BY <2>1, <2>2, StepIs
  <2>4. j = 9 => l = "network" /\ Steps[j] = Opening(l)
    BY <1>1, <1>2, RosOrder DEF Opening
  <2>5. j # 9 => Steps[j + 1].op = "node" /\ Steps[j + 1].arg = l /\ l \in {"driver", "camera"}
    BY <1>1, <1>2, <2>1, RosOrder
  <2>6. j # 9 => Steps[j + 1] = Opening(l) /\ j + 1 \in DOMAIN Steps
    BY <2>1, <2>5, StepIs DEF Opening
  <2> QED
    BY <2>1, <2>2, <2>3, <2>4, <2>5, <2>6
<1>3. CASE gate = "moveit"
  <2>1. j \in {1, 5} /\ DOMAIN Steps = 1..8 /\ l \in Modes
    BY <1>1, <1>3, MoveitOrder DEF Modes
  <2>2. PICK k \in {4, 8} : j < k /\ Steps[k].op = "stop" /\ Steps[k].arg = l
    BY <1>1, <1>3, <2>1, MoveitOrder
  <2>3. Steps[k] = Step("stop", l)
    BY <2>1, <2>2, StepIs
  <2> QED
    BY <2>1, <2>2, <2>3 DEF Opening, Modes
<1> QED
  BY <1>2, <1>3

\* A set of naturals that is not empty has a minimum.
LEMMA LeastNatural ==
    ASSUME NEW S \in SUBSET Nat, S # {}
    PROVE  Min(S) \in S /\ \A n \in S : Min(S) <= n
<1> DEFINE R == OpToRel(<, Nat)
<1>1. IsWellFoundedOn(R, Nat)
  BY NatLessThanWellFounded
<1>2. \A n, m \in Nat : n < m => <<n, m>> \in R
  BY DEF OpToRel
<1> HIDE DEF R
<1>3. PICK m \in S : \A n \in S : ~(<<n, m>> \in R)
  BY <1>1, WFMin
<1>4. ASSUME NEW n \in S PROVE m <= n
  <2>1. n \in Nat /\ m \in Nat /\ ~(<<n, m>> \in R)
    BY <1>3
  <2>2. ~(n < m)
    BY <1>2, <2>1
  <2> QED
    BY <2>1, <2>2
<1> QED
  BY <1>4 DEF Min

\* An exception goes on at the first stop that protects its step.
LEMMA HandlerIsNext ==
    ASSUME gate \in {"ros", "moveit"}, NEW i \in DOMAIN Steps
    PROVE  /\ HandlerOf(i) \in (i + 1)..(Len(Steps) + 1)
           /\ HandlerOf(i) \in DOMAIN Steps => Steps[HandlerOf(i)].op = "stop"
           /\ \A k \in DOMAIN Steps : Protects(k, i) => HandlerOf(i) <= k
<1> DEFINE stops == {k \in DOMAIN Steps : Protects(k, i)}
<1>1. stops \in SUBSET Nat /\ \A k \in stops : i < k /\ Steps[k].op = "stop" /\ k \in 1..Len(Steps)
  BY StepsTyped DEF Protects
<1>2. stops # {} => Min(stops) \in stops /\ \A k \in stops : Min(stops) <= k
  BY <1>1, LeastNatural
<1>3. HandlerOf(i) = IF stops = {} THEN Len(Steps) + 1 ELSE Min(stops)
  BY DEF HandlerOf
<1>4. CASE stops = {}
  BY <1>3, <1>4, StepsTyped
<1>5. CASE stops # {}
  <2>1. HandlerOf(i) \in stops /\ \A k \in stops : HandlerOf(i) <= k
    BY <1>2, <1>3, <1>5
  <2> QED
    BY <1>1, <2>1, StepsTyped
<1> QED
  BY <1>4, <1>5

-----------------------------------------------------------------------------
(* Types                                                                   *)

LEMMA GateIsKnown == TypeInv => gate \in {"ros", "moveit"}
  BY GateAssumption DEF TypeInv

LEMMA PcIsStep ==
    ASSUME TypeInv, ~Over
    PROVE  pc \in DOMAIN Steps
<1>1. pc \in 1..(Len(Steps) + 1) /\ ~(pc > Len(Steps))
  BY DEF TypeInv, Over
<1> QED
  BY <1>1, GateIsKnown, StepsTyped

\* A step is never behind the end, and an exception goes forward.
LEMMA PcMoves ==
    ASSUME TypeInv, ~Over, pc' \in {pc, pc + 1, HandlerOf(pc)}
    PROVE  pc \in DOMAIN Steps /\ pc' \in 1..(Len(Steps) + 1)
<1>1. pc \in DOMAIN Steps /\ Len(Steps) \in Nat
  BY GateIsKnown, StepsTyped DEF TypeInv, Over
<1> QED
  BY <1>1, GateIsKnown, HandlerIsNext, StepsTyped DEF TypeInv

\* What the steps leave alone: the actions that change each part of the state.
LEMMA Frame ==
    ASSUME Next
    PROVE  /\ gate' = gate
           /\ pc' = pc \/ GateStep \/ Interrupt
           /\ failing' \in {failing, TRUE}
           /\ leader' = leader \/ Launch \/ StopTimesOut \/ \E l \in Launches : Obey(l) \/ Dies(l)
           /\ signal' = signal \/ StopLaunch \/ StopTimesOut
           /\ probe' = probe \/ StartProbe \/ ProbeEnds
           /\ reports' = reports \/ ProbeEnds
           /\ (lifecycle' = lifecycle /\ changes' = changes) \/ Serve
           /\ diagnostics' = diagnostics \/ Publish \/ Spin
           /\ seen' = seen \/ Spin \/ GoalAnswered
           /\ goal' = goal \/ RunGoal \/ SendGoal \/ CancelGoal
           /\ interrupts' = interrupts \/ Interrupt
           /\ exposed' = exposed \/ CreateNode \/ Interrupt
<1> USE DEF procs, driver
<1>1. CASE Launch \/ CreateNode \/ StopLaunch \/ StopEnds \/ StopTimesOut \/ StopForced
  BY <1>1 DEF GateStep, Launch, CreateNode, StopLaunch, StopEnds, StopTimesOut, StopForced,
       Advance, Raise
<1>2. CASE WaitHolds \/ StepRaises \/ SendCall \/ CallAnswered
  BY <1>2 DEF GateStep, WaitHolds, StepRaises, SendCall, CallAnswered, Advance, Raise
<1>3. CASE ContractHolds \/ NetworkReported \/ EvidenceGiven \/ CamerasSeen
  BY <1>3 DEF GateStep, ContractHolds, NetworkReported, EvidenceGiven, CamerasSeen, Advance
<1>4. CASE SendGoal \/ GoalAnswered \/ CancelGoal \/ GoalEnds
  BY <1>4 DEF GateStep, SendGoal, GoalAnswered, CancelGoal, GoalEnds, Advance, Raise
<1>5. CASE StartProbe \/ ProbeEnds \/ ReportAccepted
  BY <1>5 DEF GateStep, StartProbe, ProbeEnds, ReportAccepted, Advance, Raise
<1>6. CASE Spin \/ Serve \/ Publish \/ RunGoal \/ Interrupt \/ Done
  BY <1>6 DEF Spin, Serve, Publish, RunGoal, Interrupt, Done, vars
<1>7. CASE \E l \in Launches : Obey(l) \/ Dies(l)
  BY <1>7 DEF Obey, Dies
<1> QED
  BY <1>1, <1>2, <1>3, <1>4, <1>5, <1>6, <1>7 DEF Next, GateStep

\* How far a step of the gate, or a Ctrl-C, goes.
LEMMA PcKept ==
    ASSUME Next
    PROVE  pc' = pc \/ (~Over /\ pc' \in {pc + 1, HandlerOf(pc)})
<1>1. CASE Launch \/ CreateNode \/ StopEnds \/ StopForced \/ WaitHolds \/ StepRaises \/ CallAnswered
  BY <1>1 DEF Launch, CreateNode, StopEnds, StopForced, WaitHolds, StepRaises, CallAnswered,
       Advance, Raise, At
<1>2. CASE ContractHolds \/ NetworkReported \/ EvidenceGiven \/ CamerasSeen \/ ReportAccepted
  BY <1>2 DEF ContractHolds, NetworkReported, EvidenceGiven, CamerasSeen, ReportAccepted, Advance, At
<1>3. CASE GoalAnswered \/ CancelGoal \/ GoalEnds \/ StartProbe \/ ProbeEnds
  BY <1>3 DEF GoalAnswered, CancelGoal, GoalEnds, StartProbe, ProbeEnds, Advance, Raise, At
<1>4. CASE StopLaunch \/ StopTimesOut \/ SendCall \/ SendGoal
  BY <1>4 DEF StopLaunch, StopTimesOut, SendCall, SendGoal
<1>5. CASE Interrupt
  BY <1>5 DEF Interrupt
<1> QED
  BY <1>1, <1>2, <1>3, <1>4, <1>5, Frame DEF GateStep

\* Where each kind of step is, and what it is about.
LEMMA CallSteps ==
    ASSUME TypeInv, At("call")
    PROVE  /\ gate = "ros" /\ pc \in {4, 6, 16, 18}
           /\ Steps[pc].arg = CASE pc = 4 -> "configure" [] pc = 6 -> "activate"
                              [] pc = 16 -> "deactivate" [] OTHER -> "cleanup"
<1>1. CASE gate = "ros"
  <2>1. pc \in 1..25
    BY <1>1, RosOrder, PcIsStep DEF At
  <2>2. pc \in {4, 6, 16, 18}
    BY <1>1, <2>1, RosOrder DEF At
  <2> QED
    BY <1>1, <2>2, RosOrder
<1>2. CASE gate = "moveit"
  <2>1. pc \in 1..8
    BY <1>2, MoveitOrder, PcIsStep DEF At
  <2> QED
    BY <1>2, <2>1, MoveitOrder DEF At
<1> QED
  BY <1>1, <1>2, GateIsKnown

LEMMA GateKept ==
    ASSUME TypeInv, Next
    PROVE  Steps' = Steps /\ pc' \in 1..(Len(Steps) + 1)
<1>1. Steps' = Steps
  BY Frame DEF Steps
<1>2. pc' = pc \/ pc' \in 1..(Len(Steps) + 1)
  BY PcKept, PcMoves
<1> QED
  BY <1>1, <1>2 DEF TypeInv

LEMMA TypeInitially == Init => TypeInv
<1> SUFFICES ASSUME Init PROVE TypeInv
  OBVIOUS
<1>1. gate \in {"ros", "moveit"} /\ gate \in Gates
  BY GateAssumption DEF Init
<1>2. pc \in 1..(Len(Steps) + 1)
  BY <1>1, StepsTyped DEF Init
<1>3. /\ leader \in [Launches -> {"none", "up", "gone"}]
      /\ signal \in [Launches -> {"none", "int", "term", "kill"}]
      /\ reports \in [Modes -> Reports \cup {NoReport}]
  BY DEF Init
<1>4. diagnostics \in Seq(Diagnostics) /\ lifecycle \in Lifecycles
  BY DEF Init, Lifecycles
<1>5. seen \in [state : Lifecycles \cup {"none"}, changes : Nat, joints : Nat,
                 diagnosed : BOOLEAN, feedback : BOOLEAN]
  BY DEF Init
<1>6. failing \in BOOLEAN /\ changes \in Nat /\ interrupts \in Nat
  BY DEF Init
<1> QED
  BY <1>1, <1>2, <1>3, <1>4, <1>5, <1>6 DEF TypeInv

LEMMA HeadTyped ==
    ASSUME NEW s \in Seq(Diagnostics), s # <<>>
    PROVE  /\ Head(s).state \in Lifecycles /\ Head(s).changes \in Nat
           /\ Tail(s) \in Seq(Diagnostics)
<1>1. Head(s) \in Diagnostics /\ Tail(s) \in Seq(Diagnostics)
  OBVIOUS
<1> QED
  BY <1>1 DEF Diagnostics

LEMMA TypeSteps ==
    ASSUME TypeInv, Next
    PROVE  TypeInv'
<1> USE DEF TypeInv
<1>1. gate' \in Gates /\ pc' \in 1..(Len(Steps') + 1)
  BY GateKept, Frame
<1>2. failing' \in BOOLEAN
  BY Frame
<1>3. interrupts' \in Nat
  <2>1. interrupts' = interrupts \/ interrupts' = interrupts + 1
    BY Frame DEF Interrupt
  <2> QED
    BY <2>1
<1>4. leader' \in [Launches -> {"none", "up", "gone"}]
  BY Frame DEF Launch, StopTimesOut, Obey, Dies
<1>5. signal' \in [Launches -> {"none", "int", "term", "kill"}]
  BY Frame DEF StopLaunch, StopTimesOut
<1>6. reports' \in [Modes -> Reports \cup {NoReport}]
  BY Frame DEF ProbeEnds
<1>7. lifecycle' \in Lifecycles /\ changes' \in Nat
  <2>1. CASE Serve
    <3>1. Arg \in {"configure", "activate", "deactivate", "cleanup"}
      BY <2>1, CallSteps DEF Serve, Arg
    <3> QED
      BY <2>1, <3>1 DEF Serve, TransitionTarget, Lifecycles
  <2> QED
    BY <2>1, Frame
<1>8. diagnostics' \in Seq(Diagnostics)
  <2>1. CASE Publish
    <3> DEFINE all == Append(diagnostics, [state |-> lifecycle, changes |-> changes])
    <3>1. all \in Seq(Diagnostics) /\ all # <<>>
      BY DEF Diagnostics
    <3>2. Tail(all) \in Seq(Diagnostics)
      BY <3>1
    <3> QED
      BY <2>1, <3>1, <3>2 DEF Publish
  <2>2. CASE Spin
    <3>1. diagnostics' = diagnostics \/ (diagnostics # <<>> /\ diagnostics' = Tail(diagnostics))
      BY <2>2 DEF Spin
    <3>2. diagnostics # <<>> => Tail(diagnostics) \in Seq(Diagnostics)
      BY HeadTyped
    <3> QED
      BY <3>1, <3>2
  <2> QED
    BY <2>1, <2>2, Frame
<1>9. seen' \in [state : Lifecycles \cup {"none"}, changes : Nat, joints : Nat,
                 diagnosed : BOOLEAN, feedback : BOOLEAN]
  <2>1. diagnostics # <<>> => Head(diagnostics).state \in Lifecycles /\ Head(diagnostics).changes \in Nat
    BY HeadTyped
  <2>2. CASE Spin
    <3>1. ASSUME NEW state \in Lifecycles, NEW n \in Nat,
                 seen' = [seen EXCEPT !.state = state, !.changes = n, !.diagnosed = TRUE]
          PROVE  seen' \in [state : Lifecycles \cup {"none"}, changes : Nat, joints : Nat,
                           diagnosed : BOOLEAN, feedback : BOOLEAN]
      BY <3>1
    <3>2. CASE seen' = [seen EXCEPT !.joints = @ + 1]
      BY <3>2
    <3>3. CASE seen' = [seen EXCEPT !.feedback = TRUE]
      BY <3>3
    <3>4. CASE diagnostics # <<>> /\ seen' = [seen EXCEPT !.state = Head(diagnostics).state,
                                  !.changes = Head(diagnostics).changes, !.diagnosed = TRUE]
      BY <2>1, <3>1, <3>4
    <3>5. \/ diagnostics # <<>> /\ seen' = [seen EXCEPT !.state = Head(diagnostics).state,
                                  !.changes = Head(diagnostics).changes, !.diagnosed = TRUE]
          \/ seen' = [seen EXCEPT !.joints = @ + 1]
          \/ seen' = [seen EXCEPT !.feedback = TRUE]
      BY <2>2, Zenon DEF Spin
    <3> QED
      BY <3>2, <3>3, <3>4, <3>5, Zenon
  <2>3. CASE GoalAnswered
    <3>1. CASE seen' = [seen EXCEPT !.joints = 0, !.diagnosed = FALSE]
      BY <3>1
    <3>2. seen' = seen \/ seen' = [seen EXCEPT !.joints = 0, !.diagnosed = FALSE]
      BY <2>3, Zenon DEF GoalAnswered
    <3> QED
      BY <3>1, <3>2, Zenon
  <2> QED
    BY <2>2, <2>3, Frame
<1> QED
  BY <1>1, <1>2, <1>3, <1>4, <1>5, <1>6, <1>7, <1>8, <1>9

-----------------------------------------------------------------------------
(* Launches                                                                *)

\* The stop of a launch that is led protects every step before it, but for the
\* creation of a node.
LEMMA StopProtects ==
    ASSUME TypeInv, LaunchInv, ~Over, ~At("node"), NEW l \in Launches, leader[l] = "up",
           NEW k \in DOMAIN Steps, Steps[k] = Step("stop", l), pc < k
    PROVE  Protects(k, pc)
<1>1. PICK j \in DOMAIN Steps : Steps[j] = Step("launch", l) /\ j < pc
  BY DEF LaunchInv
<1>2. \/ Steps[j] = Opening(l)
      \/ j + 1 \in DOMAIN Steps /\ Steps[j + 1] = Opening(l) /\ Steps[j + 1].op = "node"
  BY <1>1, GateIsKnown, StopFollows
<1>3. Steps[k].op = "stop" /\ Steps[k].arg = l
  BY GateIsKnown, StepIs
<1>4. /\ DOMAIN Steps \subseteq Nat /\ j >= 1 /\ pc \in DOMAIN Steps
      /\ j + 1 # pc \/ Steps[j] = Opening(l)
  BY <1>2, GateIsKnown, StepsTyped, PcIsStep DEF At
<1>5. \E i \in 1..(pc - 1) : Steps[i] = Opening(l)
  BY <1>1, <1>2, <1>4, GateIsKnown, StepsTyped, PcIsStep
<1> QED
  BY <1>3, <1>5 DEF Protects

\* Steps that leave the gate where it is.
LEMMA LaunchStays ==
    ASSUME TypeInv, LaunchInv, gate' = gate, pc' = pc, failing' = failing, exposed' = exposed,
           \A l \in Launches : leader'[l] = "up" => leader[l] = "up"
    PROVE  LaunchInv'
<1>1. Steps' = Steps
  BY DEF Steps
<1> QED
  BY <1>1 DEF LaunchInv, Over, At

\* Steps that go on: nobody is led any more where a stop ends.
LEMMA LaunchAdvances ==
    ASSUME TypeInv, LaunchInv, ~Over, ~At("node"), gate' = gate, exposed' = exposed,
           \A l \in Launches : leader'[l] = "up" => leader[l] = "up",
           At("stop") => leader[Arg] # "up",
           \/ pc' = HandlerOf(pc) /\ failing' = TRUE
           \/ pc' = pc + 1 /\ failing' = failing /\ ~failing
    PROVE  LaunchInv'
<1>1. Steps' = Steps
  BY DEF Steps
<1>2. pc \in DOMAIN Steps /\ DOMAIN Steps = 1..Len(Steps) /\ Len(Steps) \in Nat
  BY GateIsKnown, StepsTyped, PcIsStep
<1>3. HandlerOf(pc) > pc /\ HandlerOf(pc) \in Nat
  BY <1>2, GateIsKnown, HandlerIsNext
<1>4. ASSUME NEW l \in Launches, leader'[l] = "up", l \notin exposed'
      PROVE  \E k \in DOMAIN Steps : Steps[k] = Step("stop", l) /\ pc' <= k
  <2>1. PICK k \in DOMAIN Steps : Steps[k] = Step("stop", l) /\ pc <= k
    BY <1>4 DEF LaunchInv
  <2>2. pc # k
    <3>1. Steps[k].op = "stop" /\ Steps[k].arg = l
      BY <2>1, GateIsKnown, StepIs
    <3> QED
      BY <1>4, <3>1 DEF At, Arg
  <2>3. Protects(k, pc)
    BY <1>2, <1>4, <2>1, <2>2, StopProtects
  <2>4. HandlerOf(pc) <= k
    BY <1>2, <2>3, GateIsKnown, HandlerIsNext
  <2> QED
    BY <1>2, <2>1, <2>2, <2>4
<1>5. ASSUME NEW l \in Launches, leader'[l] = "up"
      PROVE  \E j \in DOMAIN Steps : Steps[j] = Step("launch", l) /\ j < pc'
  <2>1. PICK j \in DOMAIN Steps : Steps[j] = Step("launch", l) /\ j < pc
    BY <1>5 DEF LaunchInv
  <2> QED
    BY <1>2, <1>3, <2>1
<1>6. failing' => Over' \/ At("stop")'
  <2>1. CASE pc' = HandlerOf(pc)
    <3>1. HandlerOf(pc) \in DOMAIN Steps => Steps[HandlerOf(pc)].op = "stop"
      BY <1>2, GateIsKnown, HandlerIsNext
    <3>2. HandlerOf(pc) \in (pc + 1)..(Len(Steps) + 1)
      BY <1>2, GateIsKnown, HandlerIsNext
    <3> QED
      BY <1>1, <1>2, <2>1, <3>1, <3>2 DEF Over, At
  <2> QED
    BY <2>1
<1>7. exposed' # {} => failing'
  BY DEF LaunchInv
<1> QED
  BY <1>1, <1>4, <1>5, <1>6, <1>7 DEF LaunchInv

\* An exception where something is exposed.
LEMMA LaunchExposed ==
    ASSUME TypeInv, LaunchInv, ~Over, gate' = gate, leader' = leader,
           exposed' = exposed \cup Unprotected(pc), pc' = HandlerOf(pc), failing' = TRUE
    PROVE  LaunchInv'
<1>1. Steps' = Steps
  BY DEF Steps
<1>2. pc \in DOMAIN Steps /\ DOMAIN Steps = 1..Len(Steps) /\ Len(Steps) \in Nat
  BY GateIsKnown, StepsTyped, PcIsStep
<1>3. /\ HandlerOf(pc) \in (pc + 1)..(Len(Steps) + 1)
      /\ HandlerOf(pc) \in DOMAIN Steps => Steps[HandlerOf(pc)].op = "stop"
  BY <1>2, GateIsKnown, HandlerIsNext
<1>4. ASSUME NEW l \in Launches, leader'[l] = "up", l \notin exposed'
      PROVE  \E k \in DOMAIN Steps : Steps[k] = Step("stop", l) /\ pc' <= k
  <2>1. PICK k \in DOMAIN Steps : Steps[k] = Step("stop", l) /\ pc <= k
    BY <1>4 DEF LaunchInv
  <2>2. Protects(k, pc)
    BY <1>4, <2>1 DEF Unprotected
  <2>3. HandlerOf(pc) <= k
    BY <1>2, <2>2, GateIsKnown, HandlerIsNext
  <2> QED
    BY <2>1, <2>3
<1>5. ASSUME NEW l \in Launches, leader'[l] = "up"
      PROVE  \E j \in DOMAIN Steps : Steps[j] = Step("launch", l) /\ j < pc'
  <2>1. PICK j \in DOMAIN Steps : Steps[j] = Step("launch", l) /\ j < pc
    BY <1>5 DEF LaunchInv
  <2> QED
    BY <1>2, <1>3, <2>1
<1>6. Over' \/ At("stop")'
  BY <1>1, <1>2, <1>3 DEF Over, At
<1> QED
  BY <1>1, <1>4, <1>5, <1>6 DEF LaunchInv

\* A launch is only started in a run without an exception, with its stop ahead.
LEMMA LaunchStarts ==
    ASSUME TypeInv, LaunchInv, Launch
    PROVE  LaunchInv'
<1>1. gate' = gate /\ Steps' = Steps /\ At("launch") /\ ~Over
  BY DEF Launch, Steps, At
<1>2. /\ pc \in DOMAIN Steps /\ DOMAIN Steps = 1..Len(Steps) /\ Len(Steps) \in Nat
      /\ Arg \in Launches
  <2>1. pc \in DOMAIN Steps /\ DOMAIN Steps = 1..Len(Steps) /\ Len(Steps) \in Nat
    BY <1>1, GateIsKnown, StepsTyped, PcIsStep
  <2>2. Steps[pc].op = "launch"
    BY <1>1 DEF At
  <2>3. \A i \in DOMAIN Steps : Steps[i].op \in {"launch", "node", "stop"} => Steps[i].arg \in Launches
    BY GateIsKnown, StepsTyped
  <2>4. Steps[pc].arg \in Launches
    BY <2>1, <2>2, <2>3
  <2> QED
    BY <2>1, <2>4 DEF Arg
<1>3. ~failing /\ exposed = {} /\ ~At("node") /\ ~At("stop")
  BY <1>1 DEF LaunchInv, At
<1>4. CASE leader' = leader /\ pc' = HandlerOf(pc) /\ failing' = TRUE /\ exposed' = exposed
  BY <1>1, <1>3, <1>4, LaunchAdvances
<1>5. CASE /\ leader' = [leader EXCEPT ![Arg] = "up"] /\ pc' = pc + 1
           /\ failing' = failing /\ exposed' = exposed
  <2>1. Steps[pc] = Step("launch", Arg)
    BY <1>1, <1>2, GateIsKnown, StepIs DEF At, Arg
  <2>2. ASSUME NEW l \in Launches, leader'[l] = "up"
        PROVE  /\ \E j \in DOMAIN Steps : Steps[j] = Step("launch", l) /\ j < pc'
               /\ \E k \in DOMAIN Steps : Steps[k] = Step("stop", l) /\ pc' <= k
    <3>1. CASE l = Arg
      <4>1. PICK k \in DOMAIN Steps : Steps[k] = Step("stop", l) /\ pc < k
        BY <1>2, <2>1, <3>1, GateIsKnown, StopFollows
      <4> QED
        BY <1>2, <1>5, <2>1, <3>1, <4>1
    <3>2. CASE l # Arg
      <4>1. leader[l] = "up"
        BY <1>5, <2>2, <3>2 DEF TypeInv
      <4>2. PICK j \in DOMAIN Steps : Steps[j] = Step("launch", l) /\ j < pc
        BY <4>1 DEF LaunchInv
      <4>3. PICK k \in DOMAIN Steps : Steps[k] = Step("stop", l) /\ pc <= k
        BY <1>3, <4>1 DEF LaunchInv
      <4>4. pc # k
        BY <1>1, <4>3, GateIsKnown, StepIs DEF At
      <4> QED
        BY <1>2, <1>5, <4>2, <4>3, <4>4
    <3> QED
      BY <3>1, <3>2
  <2> QED
    BY <1>1, <1>3, <1>5, <2>2 DEF LaunchInv
<1> QED
  BY <1>3, <1>4, <1>5 DEF Launch, Advance, Raise

LEMMA LaunchSteps ==
    ASSUME TypeInv, LaunchInv, Next
    PROVE  LaunchInv'
<1>1. gate' = gate
  BY Frame
<1>2. CASE Launch
  BY <1>2, LaunchStarts
<1>3. CASE CreateNode
  <2>1. At("node") /\ ~Over /\ ~At("stop") /\ ~failing
    BY <1>3 DEF CreateNode, At, LaunchInv
  <2>2. CASE pc' = HandlerOf(pc) /\ failing' = TRUE /\ exposed' = exposed \cup Unprotected(pc)
    BY <1>1, <1>3, <2>1, <2>2, LaunchExposed DEF CreateNode, procs
  <2>3. CASE pc' = pc + 1 /\ failing' = failing /\ exposed' = exposed
    <3>1. ASSUME NEW l \in Launches, NEW k \in DOMAIN Steps, Steps[k] = Step("stop", l), pc <= k
          PROVE  pc + 1 <= k
      BY <2>1, <3>1, GateIsKnown, StepIs, StepsTyped, PcIsStep DEF At
    <3>2. leader' = leader /\ Steps' = Steps /\ pc \in Nat
      BY <1>1, <1>3, <2>1, GateIsKnown, StepsTyped, PcIsStep DEF CreateNode, procs, Steps
    <3>3. \A j \in DOMAIN Steps : j < pc => j < pc + 1
      BY <3>2, GateIsKnown, StepsTyped
    <3> QED
      BY <2>1, <2>3, <3>1, <3>2, <3>3 DEF LaunchInv
  <2> QED
    BY <1>3, <2>1, <2>2, <2>3 DEF CreateNode, Advance
<1>4. CASE Interrupt
  BY <1>1, <1>4, LaunchExposed DEF Interrupt, procs
<1>5. CASE StopEnds \/ StopForced
  BY <1>1, <1>5, LaunchAdvances DEF StopEnds, StopForced, Advance, Raise, At, procs
<1>6. CASE \/ WaitHolds \/ StepRaises \/ CallAnswered \/ ContractHolds \/ NetworkReported
           \/ EvidenceGiven \/ CamerasSeen \/ ReportAccepted
  <2>1. ~Over /\ ~At("node") /\ ~At("stop") /\ leader' = leader /\ (Advance \/ Raise)
    BY <1>6 DEF WaitHolds, StepRaises, CallAnswered, ContractHolds, NetworkReported,
         EvidenceGiven, CamerasSeen, ReportAccepted, procs, At
  <2> QED
    BY <1>1, <2>1, LaunchAdvances DEF Advance, Raise, LaunchInv
<1>7. CASE GoalAnswered \/ CancelGoal \/ GoalEnds \/ ProbeEnds
  <2>1. ~Over /\ ~At("node") /\ ~At("stop") /\ leader' = leader /\ (Advance \/ Raise)
    BY <1>7 DEF GoalAnswered, CancelGoal, GoalEnds, ProbeEnds, procs, At
  <2> QED
    BY <1>1, <2>1, LaunchAdvances DEF Advance, Raise, LaunchInv
<1>8. CASE StartProbe
  <2>1. ~Over /\ ~At("node") /\ ~At("stop") /\ leader' = leader
    BY <1>8 DEF StartProbe, procs, At
  <2>2. Raise \/ (pc' = pc /\ failing' = failing /\ exposed' = exposed)
    BY <1>8 DEF StartProbe
  <2> QED
    BY <1>1, <2>1, <2>2, LaunchAdvances, LaunchStays DEF Raise
<1>9. CASE StopLaunch \/ StopTimesOut \/ SendCall \/ SendGoal
  <2>1. \A l \in Launches : leader'[l] = "up" => leader[l] = "up"
    BY <1>9 DEF StopLaunch, StopTimesOut, SendCall, SendGoal, procs, TypeInv
  <2> QED
    BY <1>1, <1>9, <2>1, LaunchStays DEF StopLaunch, StopTimesOut, SendCall, SendGoal
<1>10. CASE Spin \/ Serve \/ Publish \/ RunGoal \/ Done
  BY <1>1, <1>10, LaunchStays DEF Spin, Serve, Publish, RunGoal, Done, vars, procs
<1>11. CASE \E l \in Launches : Obey(l) \/ Dies(l)
  <2>1. \A l \in Launches : leader'[l] = "up" => leader[l] = "up"
    BY <1>11 DEF Obey, Dies, TypeInv
  <2> QED
    BY <1>1, <1>11, <2>1, LaunchStays DEF Obey, Dies
<1> QED
  BY <1>2, <1>3, <1>4, <1>5, <1>6, <1>7, <1>8, <1>9, <1>10, <1>11 DEF Next, GateStep

-----------------------------------------------------------------------------
(* Probes and signals                                                      *)

LEMMA ProbeSteps ==
    ASSUME TypeInv, ProbeInv, Next
    PROVE  ProbeInv'
<1>1. Steps' = Steps /\ (interrupts' = interrupts \/ interrupts' > 0)
  <2>1. interrupts' = interrupts \/ interrupts' = interrupts + 1
    BY Frame DEF Interrupt
  <2> QED
    BY <2>1, Frame DEF Steps, TypeInv
<1>2. CASE StartProbe
  BY <1>1, <1>2 DEF StartProbe, ProbeInv, At, Over, Raise
<1>3. CASE ProbeEnds
  BY <1>3 DEF ProbeEnds, ProbeInv
<1>4. CASE Interrupt
  BY <1>4 DEF Interrupt, ProbeInv, TypeInv
<1>5. ASSUME probe' = probe, pc' = pc, phase' = phase \/ ~At("probe")
      PROVE  ProbeInv'
  BY <1>1, <1>5 DEF ProbeInv, At, Over
<1>6. ASSUME probe' = probe, ~At("probe")
      PROVE  ProbeInv'
  BY <1>1, <1>6 DEF ProbeInv
<1>7. CASE \/ Launch \/ CreateNode \/ StopLaunch \/ StopEnds \/ StopTimesOut \/ StopForced
           \/ WaitHolds \/ StepRaises \/ SendCall \/ CallAnswered
  BY <1>6, <1>7 DEF Launch, CreateNode, StopLaunch, StopEnds, StopTimesOut, StopForced,
       WaitHolds, StepRaises, SendCall, CallAnswered, At
<1>8. CASE \/ ContractHolds \/ NetworkReported \/ EvidenceGiven \/ CamerasSeen
           \/ SendGoal \/ GoalAnswered \/ CancelGoal \/ GoalEnds \/ ReportAccepted
  BY <1>6, <1>8 DEF ContractHolds, NetworkReported, EvidenceGiven, CamerasSeen,
       SendGoal, GoalAnswered, CancelGoal, GoalEnds, ReportAccepted, At
<1>9. CASE Serve
  BY <1>6, <1>9 DEF Serve, At
<1>10. CASE Spin \/ Publish \/ RunGoal \/ Done \/ \E l \in Launches : Obey(l) \/ Dies(l)
  BY <1>5, <1>10 DEF Spin, Publish, RunGoal, Done, Obey, Dies, vars
<1> QED
  BY <1>2, <1>3, <1>4, <1>7, <1>8, <1>9, <1>10 DEF Next, GateStep

LEMMA SignalSteps ==
    ASSUME TypeInv, SignalInv, Next
    PROVE  SignalInv'
<1>1. Steps' = Steps /\ (failing => failing')
  <2>1. Steps' = Steps
    BY Frame DEF Steps
  <2>2. failing' = failing \/ failing' = TRUE
    BY Frame
  <2>3. CASE failing' = failing
    BY <2>1, <2>3, Zenon
  <2>4. CASE failing' = TRUE
    BY <2>1, <2>4, Zenon
  <2> QED
    BY <2>2, <2>3, <2>4
<1>2. CASE StopLaunch
  <2>1. ASSUME NEW l \in Launches, ~failing PROVE signal'[l] \notin {"term", "kill"}
    <3>1. At("stop") /\ phase = "begin" /\ signal' = [signal EXCEPT ![Arg] = "int"]
      BY <1>2 DEF StopLaunch
    <3>2. signal[l] \notin {"term", "kill"}
      BY <2>1, <3>1 DEF SignalInv
    <3> QED
      BY <3>1, <3>2 DEF TypeInv
  <2> QED
    BY <1>1, <2>1 DEF SignalInv
<1>3. CASE StopTimesOut
  <2>1. /\ At("stop") /\ pc' = pc /\ failing' = failing /\ phase' \in {"term", "kill"}
        /\ \A l \in Launches : l # Arg => signal'[l] = signal[l]
    BY <1>3 DEF StopTimesOut, TypeInv
  <2>2. ASSUME NEW l \in Launches, ~failing, l # Arg PROVE signal'[l] \notin {"term", "kill"}
    BY <2>1, <2>2 DEF SignalInv
  <2> QED
    BY <1>1, <2>1, <2>2 DEF SignalInv, At, Arg, Over
<1>4. ASSUME signal' = signal, failing' \/ ~At("stop") \/ phase \notin {"term", "kill"}
      PROVE  SignalInv'
  BY <1>1, <1>4 DEF SignalInv
<1>5. ASSUME signal' = signal, pc' = pc, phase' = phase
      PROVE  SignalInv'
  BY <1>1, <1>5 DEF SignalInv, At, Arg, Over
<1>6. CASE StopEnds \/ StopForced \/ Interrupt
  BY <1>4, <1>6 DEF StopEnds, StopForced, Interrupt, Raise, procs
<1>7. CASE \/ Launch \/ CreateNode \/ WaitHolds \/ StepRaises \/ SendCall \/ CallAnswered
  BY <1>4, <1>7 DEF Launch, CreateNode, WaitHolds, StepRaises, SendCall, CallAnswered, At, procs
<1>8. CASE \/ ContractHolds \/ NetworkReported \/ EvidenceGiven \/ CamerasSeen
           \/ SendGoal \/ GoalAnswered \/ CancelGoal \/ GoalEnds
           \/ StartProbe \/ ProbeEnds \/ ReportAccepted
  BY <1>4, <1>8 DEF ContractHolds, NetworkReported, EvidenceGiven, CamerasSeen,
       SendGoal, GoalAnswered, CancelGoal, GoalEnds, StartProbe, ProbeEnds, ReportAccepted, At, procs
<1>9. CASE Serve
  BY <1>4, <1>9 DEF Serve, At, procs
<1>10. CASE Spin \/ Publish \/ RunGoal \/ Done \/ \E l \in Launches : Obey(l) \/ Dies(l)
  BY <1>5, <1>10 DEF Spin, Publish, RunGoal, Done, Obey, Dies, vars, procs
<1> QED
  BY <1>2, <1>3, <1>6, <1>7, <1>8, <1>9, <1>10 DEF Next, GateStep

-----------------------------------------------------------------------------
(* The clean run                                                           *)

\* A run without an exception goes from one step to the next.
LEMMA CleanMoves ==
    ASSUME TypeInv, Next, ~failing'
    PROVE  /\ ~failing /\ gate' = gate /\ Steps' = Steps
           /\ pc' = pc \/ (~Over /\ pc \in DOMAIN Steps /\ pc' = pc + 1)
<1>1. Steps' = Steps /\ gate' = gate /\ (failing' = failing \/ failing' = TRUE)
  BY Frame, GateKept
<1>2. ~failing
  <2>1. CASE failing' = failing
    BY <2>1, Zenon
  <2>2. CASE failing' = TRUE
    BY <2>2, Zenon
  <2> QED
    BY <1>1, <2>1, <2>2
<1>3. pc' = pc \/ (~Over /\ pc' = pc + 1)
  <2>1. CASE Launch \/ CreateNode \/ StopEnds \/ StopForced \/ WaitHolds \/ StepRaises \/ CallAnswered
    BY <1>2, <2>1 DEF Launch, CreateNode, StopEnds, StopForced, WaitHolds, StepRaises,
         CallAnswered, Advance, Raise, At
  <2>2. CASE ContractHolds \/ NetworkReported \/ EvidenceGiven \/ CamerasSeen \/ ReportAccepted
    BY <1>2, <2>2 DEF ContractHolds, NetworkReported, EvidenceGiven, CamerasSeen,
         ReportAccepted, Advance, At
  <2>3. CASE GoalAnswered \/ CancelGoal \/ GoalEnds \/ StartProbe \/ ProbeEnds
    BY <1>2, <2>3 DEF GoalAnswered, CancelGoal, GoalEnds, StartProbe, ProbeEnds,
         Advance, Raise, At
  <2>4. CASE StopLaunch \/ StopTimesOut \/ SendCall \/ SendGoal
    BY <2>4 DEF StopLaunch, StopTimesOut, SendCall, SendGoal
  <2>5. CASE Interrupt
    BY <2>5 DEF Interrupt
  <2> QED
    BY <2>1, <2>2, <2>3, <2>4, <2>5, Frame DEF GateStep
<1> QED
  BY <1>1, <1>2, <1>3, PcIsStep

\* What the step the gate stands at needs before the next one.
LEMMA CleanAdvances ==
    ASSUME TypeInv, Next, ~failing', pc' # pc
    PROVE  /\ phase' = "begin" /\ lifecycle' = lifecycle /\ changes' = changes
           /\ diagnostics' = diagnostics
           /\ At("call") => phase = "accepted"
           /\ At("wait") => Observed(Arg) /\ seen' = seen
           /\ At("result") => goal = "canceled"
           /\ At("report") => ReportValid(reports[Arg], Arg)
           /\ At("stop") => leader[Arg] # "up" /\ phase \notin {"term", "kill"}
           /\ seen'.changes = seen.changes /\ seen'.state = seen.state
           /\ goal' = goal \/ At("cancel")
           /\ reports' = reports \/ At("probe")
<1> USE DEF procs, driver
<1>1. CASE Launch \/ CreateNode \/ StopEnds \/ StopForced \/ WaitHolds \/ StepRaises \/ CallAnswered
  BY <1>1 DEF Launch, CreateNode, StopEnds, StopForced, WaitHolds, StepRaises, CallAnswered,
       Advance, Raise, At
<1>2. CASE ContractHolds \/ NetworkReported \/ EvidenceGiven \/ CamerasSeen \/ ReportAccepted
  BY <1>2 DEF ContractHolds, NetworkReported, EvidenceGiven, CamerasSeen, ReportAccepted,
       Advance, At
<1>3. CASE GoalAnswered
  <2>1. goal # "rejected" /\ seen' = [seen EXCEPT !.joints = 0, !.diagnosed = FALSE]
    BY <1>3 DEF GoalAnswered, Raise
  <2>2. seen'.changes = seen.changes /\ seen'.state = seen.state
    BY <2>1 DEF TypeInv
  <2> QED
    BY <1>3, <2>2 DEF GoalAnswered, Advance, Raise, At
<1>4. CASE CancelGoal \/ GoalEnds \/ StartProbe \/ ProbeEnds
  BY <1>4 DEF CancelGoal, GoalEnds, StartProbe, ProbeEnds, Advance, Raise, At
<1>5. CASE StopLaunch \/ StopTimesOut \/ SendCall \/ SendGoal \/ Interrupt
  BY <1>5 DEF StopLaunch, StopTimesOut, SendCall, SendGoal, Interrupt
<1> QED
  BY <1>1, <1>2, <1>3, <1>4, <1>5, Frame DEF GateStep

\* While the gate stays at a step, only the driver's answer accepts its call.
LEMMA CleanStays ==
    ASSUME TypeInv, Next, pc' = pc
    PROVE  \/ /\ At("call") /\ phase = "sent" /\ phase' = "accepted"
              /\ lifecycle' = TransitionTarget[Arg] /\ changes' = changes + 1
              /\ diagnostics' = diagnostics /\ seen' = seen
           \/ /\ lifecycle' = lifecycle /\ changes' = changes
              /\ At("call") => (phase' = "accepted" <=> phase = "accepted")
<1> USE DEF procs, driver
<1>1. ~Over => pc + 1 # pc /\ HandlerOf(pc) # pc
  <2>1. ASSUME ~Over PROVE pc \in Nat /\ HandlerOf(pc) \in (pc + 1)..(Len(Steps) + 1) /\ Len(Steps) \in Nat
    BY <2>1, PcIsStep, GateIsKnown, StepsTyped, HandlerIsNext
  <2> QED
    BY <2>1
<1>2. CASE Launch \/ CreateNode \/ StopEnds \/ StopForced \/ WaitHolds \/ StepRaises \/ CallAnswered
  BY <1>1, <1>2 DEF Launch, CreateNode, StopEnds, StopForced, WaitHolds, StepRaises,
       CallAnswered, Advance, Raise, At
<1>3. CASE ContractHolds \/ NetworkReported \/ EvidenceGiven \/ CamerasSeen \/ ReportAccepted
  BY <1>3 DEF ContractHolds, NetworkReported, EvidenceGiven, CamerasSeen, ReportAccepted, At
<1>4. CASE GoalAnswered \/ CancelGoal \/ GoalEnds \/ StartProbe \/ ProbeEnds
  BY <1>4 DEF GoalAnswered, CancelGoal, GoalEnds, StartProbe, ProbeEnds, At
<1>5. CASE StopLaunch \/ StopTimesOut
  BY <1>5 DEF StopLaunch, StopTimesOut, At
<1>6. CASE SendCall \/ SendGoal
  BY <1>6 DEF SendCall, SendGoal, At
<1>7. CASE Serve
  BY <1>7 DEF Serve
<1>8. CASE Interrupt
  BY <1>1, <1>8 DEF Interrupt
<1>9. CASE Spin \/ Publish \/ RunGoal \/ Done \/ \E l \in Launches : Obey(l) \/ Dies(l)
  BY <1>9 DEF Spin, Publish, RunGoal, Done, Obey, Dies, vars
<1> QED
  BY <1>2, <1>3, <1>4, <1>5, <1>6, <1>7, <1>8, <1>9 DEF Next, GateStep

LEMMA DriverSteps ==
    ASSUME TypeInv, DriverInv, Next
    PROVE  DriverInv'
<1> SUFFICES ASSUME ~failing', gate' = "ros"
    PROVE  /\ changes' = CallsBefore(pc') + (IF At("call")' /\ phase' = "accepted" THEN 1 ELSE 0)
           /\ lifecycle' = StateAfter(changes')
  BY DEF DriverInv, CallsBefore, StateAfter
<1>1. ~failing /\ gate = "ros" /\ Steps' = Steps
      /\ (pc' = pc \/ (~Over /\ pc \in DOMAIN Steps /\ pc' = pc + 1))
  BY CleanMoves
<1>2. /\ changes = CallsBefore(pc) + (IF At("call") /\ phase = "accepted" THEN 1 ELSE 0)
      /\ lifecycle = StateAfter(changes)
  BY <1>1 DEF DriverInv
<1>3. CASE pc' # pc
  <2>1. phase' = "begin" /\ lifecycle' = lifecycle /\ changes' = changes
        /\ (At("call") => phase = "accepted")
    BY <1>3, CleanAdvances
  <2>2. pc \in 1..25 /\ pc' = pc + 1 /\ ~Over
    BY <1>1, <1>3, RosOrder
  <2>3. At("call") <=> pc \in {4, 6, 16, 18}
    BY <1>1, <2>2, RosOrder DEF At
  <2>4. CallsBefore(pc') = CallsBefore(pc) + (IF At("call") THEN 1 ELSE 0)
    BY <2>2, <2>3 DEF CallsBefore
  <2> QED
    BY <1>2, <2>1, <2>4
<1>4. CASE pc' = pc
  <2>1. At("call")' <=> At("call")
    BY <1>1, <1>4 DEF At, Over
  <2>2. CASE lifecycle' = lifecycle /\ changes' = changes
             /\ (At("call") => (phase' = "accepted" <=> phase = "accepted"))
    BY <1>2, <1>4, <2>1, <2>2
  <2>3. CASE At("call") /\ phase = "sent" /\ phase' = "accepted"
             /\ lifecycle' = TransitionTarget[Arg] /\ changes' = changes + 1
    <3>1. pc \in {4, 6, 16, 18} /\ changes = CallsBefore(pc)
      BY <1>2, <2>3, CallSteps DEF CallsBefore
    <3>2. Arg = CASE pc = 4 -> "configure" [] pc = 6 -> "activate"
                  [] pc = 16 -> "deactivate" [] OTHER -> "cleanup"
      BY <2>3, CallSteps DEF Arg
    <3>3. TransitionTarget[Arg] = StateAfter(CallsBefore(pc) + 1)
      BY <3>1, <3>2 DEF TransitionTarget, StateAfter, CallsBefore
    <3> QED
      BY <1>4, <2>1, <2>3, <3>1, <3>3 DEF CallsBefore
  <2> QED
    BY <1>4, <2>2, <2>3, CleanStays
<1> QED
  BY <1>3, <1>4

\* Such a sequence stays one when its oldest element is taken from it ...
LEMMA TailInOrder ==
    ASSUME NEW queue \in Seq(Diagnostics), queue # <<>>, NEW oldest \in Nat, NEW newest \in Nat,
           InOrder(queue, oldest, newest)
    PROVE  /\ InOrder(Tail(queue), Head(queue).changes, newest)
           /\ InOrder(Tail(queue), oldest, newest)
           /\ Head(queue).state = StateAfter(Head(queue).changes)
           /\ oldest <= Head(queue).changes /\ Head(queue).changes <= newest
<1>1. 1 \in DOMAIN queue /\ Head(queue) = queue[1]
  OBVIOUS
<1>2. Len(queue) \in Nat /\ DOMAIN queue = 1..Len(queue)
      /\ DOMAIN Tail(queue) = 1..(Len(queue) - 1)
  OBVIOUS
<1>3. \A i \in DOMAIN Tail(queue) : Tail(queue)[i] = queue[i + 1] /\ i + 1 \in DOMAIN queue /\ 1 < i + 1
  BY <1>2
<1>4. \A i, j \in DOMAIN Tail(queue) : i < j => i + 1 < j + 1
  BY <1>2
<1> QED
  BY <1>1, <1>3, <1>4 DEF InOrder

\* ... and when the driver's present state is put behind it.
LEMMA AppendInOrder ==
    ASSUME NEW queue \in Seq(Diagnostics), NEW oldest \in Nat, NEW newest \in Nat,
           NEW entry \in Diagnostics, entry.changes = newest, entry.state = StateAfter(newest),
           oldest <= newest, InOrder(queue, oldest, newest)
    PROVE  InOrder(Append(queue, entry), oldest, newest)
<1> DEFINE all == Append(queue, entry)
<1>1. DOMAIN all = 1..(Len(queue) + 1) /\ DOMAIN queue = 1..Len(queue) /\ Len(queue) \in Nat
  OBVIOUS
<1>2. all[Len(queue) + 1] = entry /\ \A i \in DOMAIN queue : all[i] = queue[i]
  BY <1>1
<1> HIDE DEF all
<1>3. ASSUME NEW i \in DOMAIN all
      PROVE  all[i].state = StateAfter(all[i].changes)
             /\ oldest <= all[i].changes /\ all[i].changes <= newest
  <2>1. i \in DOMAIN queue \/ all[i] = entry
    BY <1>1, <1>2
  <2> QED
    BY <1>2, <2>1 DEF InOrder
<1>4. ASSUME NEW i \in DOMAIN all, NEW j \in DOMAIN all, i < j
      PROVE  all[i].changes <= all[j].changes
  <2>1. i \in DOMAIN queue /\ (j \in DOMAIN queue \/ all[j] = entry)
    BY <1>1, <1>2, <1>4
  <2>2. CASE j \in DOMAIN queue
    BY <1>2, <1>4, <2>1, <2>2 DEF InOrder
  <2>3. CASE all[j] = entry
    BY <1>3, <2>3
  <2> QED
    BY <2>1, <2>2, <2>3
<1> QED
  BY <1>3, <1>4 DEF InOrder, all

\* A newer transition leaves it one.
LEMMA StillInOrder ==
    ASSUME NEW queue \in Seq(Diagnostics), NEW oldest \in Nat, NEW newest \in Nat,
           NEW newer \in Nat, newest <= newer, InOrder(queue, oldest, newest)
    PROVE  InOrder(queue, oldest, newer)
<1>1. ASSUME NEW i \in DOMAIN queue PROVE queue[i].changes \in Nat
  <2>1. queue[i] \in Diagnostics
    OBVIOUS
  <2> QED
    BY <2>1 DEF Diagnostics
<1>2. \A i \in DOMAIN queue : queue[i].changes <= newer
  BY <1>1 DEF InOrder
<1> QED
  BY <1>2 DEF InOrder

\* What the probe has seen only gets newer.
LEMMA SeenSteps ==
    ASSUME TypeInv, Next
    PROVE  \/ /\ seen'.changes = seen.changes /\ seen'.state = seen.state
              /\ diagnostics' = diagnostics \/ Publish
                 \/ (diagnostics # <<>> /\ diagnostics' = Tail(diagnostics))
           \/ /\ Spin /\ diagnostics # <<>> /\ diagnostics' = Tail(diagnostics)
              /\ seen'.changes = Head(diagnostics).changes
              /\ seen'.state = Head(diagnostics).state
<1> USE DEF TypeInv
<1>1. CASE Spin
  <2>1. CASE seen' = [seen EXCEPT !.joints = @ + 1] /\ diagnostics' = diagnostics
    BY <2>1
  <2>2. CASE seen' = [seen EXCEPT !.feedback = TRUE] /\ diagnostics' = diagnostics
    BY <2>2
  <2>3. CASE /\ diagnostics # <<>> /\ diagnostics' = Tail(diagnostics)
             /\ seen' = [seen EXCEPT !.state = Head(diagnostics).state,
                                     !.changes = Head(diagnostics).changes, !.diagnosed = TRUE]
    BY <1>1, <2>3
  <2>4. \/ /\ diagnostics # <<>> /\ diagnostics' = Tail(diagnostics)
           /\ seen' = [seen EXCEPT !.state = Head(diagnostics).state,
                                   !.changes = Head(diagnostics).changes, !.diagnosed = TRUE]
        \/ seen' = [seen EXCEPT !.joints = @ + 1] /\ diagnostics' = diagnostics
        \/ seen' = [seen EXCEPT !.feedback = TRUE] /\ diagnostics' = diagnostics
    BY <1>1, Zenon DEF Spin
  <2> QED
    BY <2>1, <2>2, <2>3, <2>4, Zenon
<1>2. CASE GoalAnswered
  <2>1. CASE seen' = [seen EXCEPT !.joints = 0, !.diagnosed = FALSE]
    BY <1>2, <2>1 DEF GoalAnswered, driver
  <2>2. seen' = seen \/ seen' = [seen EXCEPT !.joints = 0, !.diagnosed = FALSE]
    BY <1>2, Zenon DEF GoalAnswered
  <2>3. diagnostics' = diagnostics
    BY <1>2 DEF GoalAnswered, driver
  <2> QED
    BY <2>1, <2>2, <2>3, Zenon
<1>3. CASE seen' = seen /\ ~Spin
  BY <1>3, Frame
<1> QED
  BY <1>1, <1>2, <1>3, Frame

LEMMA DiagnosticsSteps ==
    ASSUME TypeInv, DriverInv, DiagnosticsInv, Next
    PROVE  DiagnosticsInv'
<1> SUFFICES ASSUME ~failing', gate' = "ros"
    PROVE  /\ InOrder(diagnostics', seen'.changes, changes')
           /\ seen'.state # "none" => seen'.state = StateAfter(seen'.changes)
           /\ seen'.changes <= changes'
  BY DEF DiagnosticsInv, InOrder, StateAfter
<1>1. ~failing /\ gate = "ros"
  BY CleanMoves
<1>2. /\ InOrder(diagnostics, seen.changes, changes) /\ seen.changes <= changes
      /\ seen.state # "none" => seen.state = StateAfter(seen.changes)
      /\ lifecycle = StateAfter(changes)
  BY <1>1 DEF DiagnosticsInv, DriverInv
<1>3. diagnostics \in Seq(Diagnostics) /\ seen.changes \in Nat /\ changes \in Nat /\ lifecycle \in Lifecycles
  BY DEF TypeInv
<1>4. changes' = changes \/ (changes' = changes + 1 /\ Serve)
  BY Frame DEF Serve
<1>5. CASE Serve
  <2>1. diagnostics' = diagnostics /\ seen' = seen
    BY <1>5 DEF Serve
  <2>2. changes' \in Nat /\ changes <= changes' /\ seen.changes <= changes'
    BY <1>2, <1>3, <1>4
  <2> QED
    BY <1>2, <1>3, <2>1, <2>2, StillInOrder
<1>6. CASE changes' = changes /\ seen'.changes = seen.changes /\ seen'.state = seen.state
           /\ diagnostics' = diagnostics
  BY <1>2, <1>6
<1>7. CASE changes' = changes /\ seen'.changes = seen.changes /\ seen'.state = seen.state
           /\ diagnostics # <<>> /\ diagnostics' = Tail(diagnostics)
  BY <1>2, <1>3, <1>7, TailInOrder
<1>8. CASE changes' = changes /\ seen'.changes = seen.changes /\ seen'.state = seen.state /\ Publish
  <2> DEFINE entry == [state |-> lifecycle, changes |-> changes]
             all == Append(diagnostics, entry)
  <2>1. entry \in Diagnostics /\ entry.changes = changes /\ entry.state = lifecycle
    BY <1>3 DEF Diagnostics
  <2>2. all \in Seq(Diagnostics) /\ all # <<>>
    BY <1>3, <2>1
  <2>3. diagnostics' = all \/ diagnostics' = Tail(all)
    BY <1>8 DEF Publish
  <2> HIDE DEF entry
  <2>4. InOrder(all, seen.changes, changes)
    BY <1>2, <1>3, <2>1, AppendInOrder
  <2> HIDE DEF all
  <2>5. InOrder(Tail(all), seen.changes, changes)
    BY <1>3, <2>2, <2>4, TailInOrder
  <2> QED
    BY <1>2, <1>8, <2>3, <2>4, <2>5
<1>9. CASE /\ changes' = changes /\ diagnostics # <<>> /\ diagnostics' = Tail(diagnostics)
           /\ seen'.changes = Head(diagnostics).changes /\ seen'.state = Head(diagnostics).state
  BY <1>2, <1>3, <1>9, TailInOrder
<1>10. CASE Spin
  <2>1. changes' = changes
    BY <1>10 DEF Spin
  <2> QED
    BY <1>6, <1>7, <1>8, <1>9, <2>1, SeenSteps
<1> QED
  BY <1>4, <1>5, <1>6, <1>7, <1>8, <1>10, SeenSteps

\* A diagnostic that was seen before stays the newest one seen or gives way to a newer.
LEMMA SeenGrows ==
    ASSUME TypeInv, DiagnosticsInv, Next, ~failing, gate = "ros"
    PROVE  seen'.changes \in Nat /\ seen.changes <= seen'.changes
<1>1. InOrder(diagnostics, seen.changes, changes)
  BY DEF DiagnosticsInv
<1>2. diagnostics \in Seq(Diagnostics) /\ seen.changes \in Nat /\ changes \in Nat
  BY DEF TypeInv
<1>3. CASE diagnostics # <<>> /\ seen'.changes = Head(diagnostics).changes
  BY <1>1, <1>2, <1>3, TailInOrder, HeadTyped
<1>4. CASE seen'.changes = seen.changes
  BY <1>2, <1>4
<1> QED
  BY <1>3, <1>4, SeenSteps

\* The gates' lengths.
LEMMA RosLength ==
    ASSUME TypeInv, gate = "ros"
    PROVE  Len(Steps) = 25 /\ pc \in 1..26
<1>1. Len(Steps) = 25
  BY RosOrder
<1>2. pc \in 1..(Len(Steps) + 1)
  BY DEF TypeInv
<1> QED
  BY <1>1, <1>2

LEMMA MoveitLength ==
    ASSUME TypeInv, gate = "moveit"
    PROVE  Len(Steps) = 8 /\ pc \in 1..9
<1>1. Len(Steps) = 8
  BY MoveitOrder
<1>2. pc \in 1..(Len(Steps) + 1)
  BY DEF TypeInv
<1> QED
  BY <1>1, <1>2

LEMMA RosEarned ==
    ASSUME TypeInv, DriverInv, DiagnosticsInv, EarnedInv, Next, ~failing', gate = "ros"
    PROVE  /\ pc' > 5 => seen'.changes > 0
           /\ pc' > 13 => goal' = "canceled"
           /\ pc' > 19 => seen'.changes = 4
<1>1. /\ ~failing /\ gate' = "ros" /\ Steps' = Steps
      /\ pc' = pc \/ (~Over /\ pc \in DOMAIN Steps /\ pc' = pc + 1)
  BY CleanMoves
<1>2. /\ pc > 5 => seen.changes > 0
      /\ pc > 13 => goal = "canceled"
      /\ pc > 19 => seen.changes = 4
  BY <1>1 DEF EarnedInv
<1>3. /\ pc \in 1..26 /\ seen.changes \in Nat
      /\ seen'.changes \in Nat /\ seen.changes <= seen'.changes
  <2>1. seen.changes \in Nat
    BY DEF TypeInv
  <2> QED
    BY <1>1, <2>1, RosLength, SeenGrows
<1>4. TypeInv' /\ pc' \in 1..26 /\ Len(Steps') = 25
  <2>1. Len(Steps) = 25 /\ pc' \in 1..(Len(Steps) + 1)
    BY RosLength, GateKept
  <2> QED
    BY <1>1, <2>1, TypeSteps
<1>5. DriverInv' /\ DiagnosticsInv'
  BY DriverSteps, DiagnosticsSteps
<1>6. seen'.changes <= 4
  <2>1. seen'.changes <= changes' /\ changes' \in Nat
    BY <1>1, <1>4, <1>5 DEF DiagnosticsInv, TypeInv
  <2>2. changes' = CallsBefore(pc') + (IF At("call")' /\ phase' = "accepted" THEN 1 ELSE 0)
    BY <1>1, <1>5 DEF DriverInv
  <2>3. pc' \in 1..26
    BY <1>4
  <2>4. At("call")' => pc' \in {4, 6, 16, 18}
    <3>1. ASSUME At("call")' PROVE pc' \in 1..25 /\ Steps[pc'].op = "call"
      BY <1>1, <1>4, <3>1 DEF At, Over
    <3> QED
      BY <3>1, RosOrder
  <2>5. changes' <= 4
    BY <2>2, <2>3, <2>4 DEF CallsBefore
  <2> QED
    BY <1>3, <2>1, <2>5
<1>7. CASE pc' = pc
  <2>1. pc > 13 => goal' = "canceled"
    <3>1. goal' = goal \/ RunGoal \/ SendGoal \/ CancelGoal
      BY Frame
    <3>2. ASSUME SendGoal PROVE pc \in {10}
      BY <1>1, <3>2, RosOrder, PcIsStep DEF SendGoal, At
    <3>3. ASSUME CancelGoal PROVE pc \in {12}
      BY <1>1, <3>3, RosOrder, PcIsStep DEF CancelGoal, At
    <3>4. goal = "canceled" => ~RunGoal
      BY DEF RunGoal
    <3> QED
      BY <1>2, <1>3, <3>1, <3>2, <3>3, <3>4
  <2> QED
    BY <1>2, <1>3, <1>6, <1>7, <2>1
<1>8. CASE pc' # pc
  <2>1. pc' = pc + 1 /\ pc \in 1..25 /\ ~Over
    BY <1>1, <1>8, RosOrder
  <2>2. /\ At("wait") => Observed(Arg) /\ seen' = seen
        /\ At("result") => goal = "canceled"
        /\ goal' = goal \/ At("cancel")
    BY <1>8, CleanAdvances
  <2>3. /\ At("wait") <=> pc \in {3, 5, 7, 11, 17, 19}
        /\ At("result") <=> pc = 13
        /\ At("cancel") <=> pc = 12
    BY <1>1, <2>1, RosOrder DEF At
  <2>4. pc = 5 => seen.state = "inactive" /\ seen' = seen
    BY <1>1, <2>2, <2>3, RosOrder DEF Arg, Observed
  <2>5. pc = 19 => seen.state = "unconfigured" /\ seen' = seen
    BY <1>1, <2>2, <2>3, RosOrder DEF Arg, Observed
  <2>6. seen.state # "none" => seen.state = StateAfter(seen.changes)
    BY <1>1 DEF DiagnosticsInv
  <2>7. pc = 5 => seen'.changes > 0
    BY <1>3, <2>4, <2>6 DEF StateAfter
  <2>8. pc = 19 => seen'.changes = 4
    BY <1>2, <1>3, <1>6, <2>5, <2>6 DEF StateAfter
  <2> QED
    BY <1>2, <1>3, <1>6, <2>1, <2>2, <2>3, <2>7, <2>8
<1> QED
  BY <1>7, <1>8

LEMMA MoveitEarned ==
    ASSUME TypeInv, EarnedInv, Next, ~failing', gate = "moveit"
    PROVE  /\ pc' > 3 => ReportValid(reports'["plan-only"], "plan-only")
           /\ pc' > 7 => ReportValid(reports'["mock-execution"], "mock-execution")
<1>1. /\ ~failing /\ Steps' = Steps
      /\ pc' = pc \/ (~Over /\ pc \in DOMAIN Steps /\ pc' = pc + 1)
  BY CleanMoves
<1>2. /\ pc > 3 => ReportValid(reports["plan-only"], "plan-only")
      /\ pc > 7 => ReportValid(reports["mock-execution"], "mock-execution")
  BY <1>1 DEF EarnedInv
<1>3. pc \in 1..9
  BY MoveitLength
<1>4. pc > 3 => reports'["plan-only"] = reports["plan-only"]
  <2>1. ASSUME ProbeEnds, pc > 3
        PROVE  reports'["plan-only"] = reports["plan-only"]
    <3>1. pc = 6
      BY <1>1, <2>1, MoveitOrder, PcIsStep DEF ProbeEnds, At
    <3>2. Arg = "mock-execution"
      BY <3>1, MoveitOrder DEF Arg
    <3> QED
      BY <2>1, <3>2 DEF ProbeEnds, TypeInv, Modes
  <2> QED
    BY <2>1, Frame
<1>5. pc > 7 => reports' = reports
  <2>1. ASSUME ProbeEnds PROVE pc \in {2, 6}
    BY <1>1, <2>1, MoveitOrder, PcIsStep DEF ProbeEnds, At
  <2> QED
    BY <2>1, Frame
<1>6. CASE pc' = pc
  BY <1>2, <1>4, <1>5, <1>6
<1>7. CASE pc' # pc
  <2>1. pc' = pc + 1 /\ pc \in 1..8 /\ ~Over
    BY <1>1, <1>7, MoveitOrder
  <2>2. (At("report") => ReportValid(reports[Arg], Arg)) /\ (reports' = reports \/ At("probe"))
    BY <1>7, CleanAdvances
  <2>3. (At("report") <=> pc \in {3, 7}) /\ (At("probe") <=> pc \in {2, 6})
    BY <1>1, <2>1, MoveitOrder DEF At
  <2>4. pc = 3 => ReportValid(reports'["plan-only"], "plan-only")
    BY <2>2, <2>3, MoveitOrder DEF Arg
  <2>5. pc = 7 => ReportValid(reports'["mock-execution"], "mock-execution")
    BY <2>2, <2>3, MoveitOrder DEF Arg
  <2> QED
    BY <1>2, <1>3, <1>4, <1>5, <2>1, <2>4, <2>5
<1> QED
  BY <1>6, <1>7

LEMMA EarnedSteps ==
    ASSUME TypeInv, DriverInv, DiagnosticsInv, EarnedInv, Next
    PROVE  EarnedInv'
<1>1. gate' = gate
  BY Frame
<1> QED
  BY <1>1, RosEarned, MoveitEarned DEF EarnedInv, ReportValid

-----------------------------------------------------------------------------
(* The theorems                                                            *)

LEMMA GateInitially == Init => GateInv
<1> SUFFICES ASSUME Init PROVE GateInv
  OBVIOUS
<1>1. TypeInv /\ Len(Steps) \in Nat
  BY TypeInitially, GateIsKnown, StepsTyped
<1>2. pc = 1 /\ phase = "begin" /\ ~failing /\ exposed = {} /\ probe = "none"
  BY DEF Init
<1>3. LaunchInv /\ ProbeInv /\ SignalInv
  BY <1>2 DEF Init, LaunchInv, ProbeInv, SignalInv
<1>4. DriverInv
  BY DEF Init, DriverInv, CallsBefore, StateAfter
<1>5. DiagnosticsInv
  BY DEF Init, DiagnosticsInv, InOrder
<1>6. EarnedInv
  BY DEF Init, EarnedInv
<1> QED
  BY <1>1, <1>3, <1>4, <1>5, <1>6 DEF GateInv

LEMMA GateSteps == GateInv /\ [Next]_vars => GateInv'
<1> SUFFICES ASSUME GateInv, [Next]_vars PROVE GateInv'
  OBVIOUS
<1>1. CASE Next
  BY <1>1, TypeSteps, LaunchSteps, ProbeSteps, SignalSteps, DriverSteps, DiagnosticsSteps,
     EarnedSteps DEF GateInv
<1>2. CASE UNCHANGED vars
  <2>1. TypeInv'
    BY <1>2 DEF vars, procs, driver, GateInv, TypeInv, Steps
  <2>2. LaunchInv' /\ ProbeInv' /\ SignalInv'
    BY <1>2 DEF vars, procs, driver, GateInv, LaunchInv, ProbeInv, SignalInv, Steps, At, Over, Arg
  <2>3. DriverInv' /\ EarnedInv'
    BY <1>2 DEF vars, procs, driver, GateInv, DriverInv, EarnedInv, Steps, At, Over
  <2>4. DiagnosticsInv'
    BY <1>2 DEF vars, procs, driver, GateInv, DiagnosticsInv
  <2> QED
    BY <2>1, <2>2, <2>3, <2>4 DEF GateInv
<1> QED
  BY <1>1, <1>2

\* Everything above holds in every state of either gate: types, where each launch
\* stands between its start and its stop, and how far the driver, its diagnostics
\* and the reports are at each step of a run without an exception.
THEOREM GateInvariant == Spec => []GateInv
<1> QED
  BY GateInitially, GateSteps, PTL DEF Spec

\* However a gate ends - at the last step, at any step that raised, at a Ctrl-C in
\* the middle of a stop - ManagedLaunch.stop has been reached for every launch it
\* started, except those an exception met before their try.
THEOREM LaunchesAreReaped == Spec => []Reaped
<1>1. GateInv => Reaped
  <2> SUFFICES ASSUME GateInv, Over PROVE Reaped
    BY DEF Reaped
  <2>1. pc > Len(Steps) /\ Len(Steps) \in Nat /\ DOMAIN Steps = 1..Len(Steps) /\ pc \in Nat
    BY GateIsKnown, StepsTyped DEF GateInv, TypeInv, Over
  <2>2. ASSUME NEW l \in Launches, leader[l] = "up" PROVE l \in exposed
    BY <2>1, <2>2 DEF GateInv, LaunchInv
  <2>3. probe = "up" => interrupts > 0
    BY DEF GateInv, ProbeInv, At
  <2> QED
    BY <2>2, <2>3 DEF Reaped
<1> QED
  BY <1>1, GateInvariant, PTL

\* A gate that passes has seen what it reports: the ROS gate the goal it canceled
\* and, for every depth of its subscription, a diagnostic the driver published
\* after its cleanup; the MoveIt gate a valid report of either mode.  No launch of
\* a passing gate was forced or is left.
THEOREM PassesAreEarned == Spec => []PassIsEarned
<1>1. GateInv => PassIsEarned
  <2> SUFFICES ASSUME GateInv, Over, ~failing PROVE PassIsEarned
    BY DEF PassIsEarned
  <2>1. TypeInv /\ gate \in {"ros", "moveit"} /\ pc > Len(Steps)
        /\ DOMAIN Steps = 1..Len(Steps) /\ Len(Steps) \in Nat /\ pc = Len(Steps) + 1
    BY GateIsKnown, StepsTyped DEF GateInv, TypeInv, Over
  <2>2. ASSUME NEW l \in Launches PROVE signal[l] \in {"none", "int"} /\ leader[l] # "up"
    <3>1. leader[l] # "up"
      BY <2>1 DEF GateInv, LaunchInv
    <3>2. signal[l] \notin {"term", "kill"}
      BY DEF GateInv, SignalInv, At
    <3> QED
      BY <2>1, <3>1, <3>2 DEF TypeInv
  <2>3. ASSUME gate = "ros"
        PROVE  goal = "canceled" /\ lifecycle = "unconfigured" /\ seen.changes = 4
    <3>1. pc = 26
      <4>1. Len(Steps) = 25
        BY <2>1, <2>3, RosLength
      <4> QED
        BY <2>1, <4>1
    <3>2. goal = "canceled" /\ seen.changes = 4
      BY <2>3, <3>1 DEF GateInv, EarnedInv
    <3>3. changes = 4 /\ lifecycle = StateAfter(changes)
      BY <2>3, <3>1 DEF GateInv, DriverInv, CallsBefore, At
    <3> QED
      BY <3>2, <3>3 DEF StateAfter
  <2>4. ASSUME gate = "moveit"
        PROVE  /\ ReportValid(reports["plan-only"], "plan-only")
               /\ ReportValid(reports["mock-execution"], "mock-execution")
    <3>1. pc = 9
      <4>1. Len(Steps) = 8
        BY <2>1, <2>4, MoveitLength
      <4> QED
        BY <2>1, <4>1
    <3> QED
      BY <2>4, <3>1 DEF GateInv, EarnedInv
  <2> QED
    BY <2>2, <2>3, <2>4 DEF PassIsEarned, ReportValid, Modes
<1> QED
  BY <1>1, GateInvariant, PTL
=============================================================================

------------------------ MODULE CommissioningProofs ------------------------
(***************************************************************************)
(* Proof of what the construction of a session promises, for every set of  *)
(* documents and of robot models and however often the model is replaced   *)
(* while it is read; and of what the way of a motion promises from end to  *)
(* end, for every request, policy, kinematics and number of joints.        *)
(***************************************************************************)
EXTENDS Commissioning, WellFoundedInduction, TLAPS

Pinned == document.robot.contract_sha256

\* The loader has gone so far, and that far the document was accepted.
Loaded ==
    /\ step \in {"fingerprint", "parse", "compose"} => RobotNamed(document.robot)
    /\ step \in {"parse", "compose"} =>
         /\ RobotAccepted(document.robot)
         /\ SafetyAccepted(document.safety)
         /\ AdapterAccepted(document.adapter, document.robot)

\* The model that was fingerprinted is still there or was replaced; its contract
\* does not come back.
Traced ==
    /\ step = "parse" => \/ model.contract = Pinned
                         \/ \E old \in replaced : old.contract = Pinned
    /\ step = "compose" => \/ parsed.contract = Pinned
                           \/ /\ model.contract # Pinned
                              /\ \E old \in replaced : old.contract = Pinned

StartupInv ==
    /\ document \in Documents
    /\ step \in {"hash", "fingerprint", "parse", "compose", "done"}
    /\ step # "done" => outcome = "none"
    /\ Loaded /\ Traced /\ NeverRefusedLate /\ BuiltOnPinnedModel

\* What the loader accepts, the constructors behind it take.
LEMMA ConstructorsAgree ==
    ASSUME NEW d \in Documents, RobotNamed(d.robot), RobotAccepted(d.robot),
           SafetyAccepted(d.safety), AdapterAccepted(d.adapter, d.robot)
    PROVE  /\ MapperConstructs(d.robot)
           /\ GeneratorConstructs(d.robot)
           /\ PolicyConstructs(d.safety)
           /\ AdapterConstructs(d.adapter, d.robot)
<1>1. d.robot.offset # NonFinite /\ d.safety.resample_step # NonFinite
  BY DocumentsAssumption DEF RobotNamed, SafetyAccepted, Strict
<1>2. MapperConstructs(d.robot)
  <2>1. d.robot.joints # <<>>
    BY NamesAssumption DEF RobotNamed
  <2> QED
    BY <1>1, <2>1 DEF RobotNamed, RobotAccepted, MapperConstructs
<1>3. GeneratorConstructs(d.robot)
  BY DEF RobotAccepted, Positive, GeneratorConstructs
<1>4. PolicyConstructs(d.safety)
  BY <1>1 DEF SafetyAccepted, Positive, PolicyConstructs
<1>5. AdapterConstructs(d.adapter, d.robot)
  BY DEF AdapterAccepted, HardwareAccepted, AdapterConstructs
<1> QED
  BY <1>2, <1>3, <1>4, <1>5

\* The steps of the loader.
LEMMA LoaderStep ==
    ASSUME StartupInv, HashModel \/ FingerprintModel
    PROVE  StartupInv'
<1> USE DEF StartupInv, Loaded, Traced, Pinned, NeverRefusedLate, BuiltOnPinnedModel
<1>1. CASE HashModel
  BY <1>1 DEF HashModel, Ends
<1>2. CASE FingerprintModel
  BY <1>2 DEF FingerprintModel, Ends
<1> QED
  BY <1>1, <1>2

\* The steps of the builder.
LEMMA BuilderStep ==
    ASSUME StartupInv, ParseModel \/ ComposeSession
    PROVE  StartupInv'
<1> USE DEF StartupInv
<1>1. CASE ParseModel
  BY <1>1 DEF ParseModel, Ends, Loaded, Traced, Pinned, NeverRefusedLate, BuiltOnPinnedModel
<1>2. CASE ComposeSession
  <2>1. /\ step = "compose" /\ step' = "done"
        /\ UNCHANGED <<document, model, replaced, parsed>>
    BY <1>2 DEF ComposeSession, Ends
  <2>2. /\ MapperConstructs(document.robot) /\ GeneratorConstructs(document.robot)
        /\ PolicyConstructs(document.safety)
        /\ AdapterConstructs(document.adapter, document.robot)
    BY <2>1, ConstructorsAgree DEF Loaded
  <2>3. outcome' # "value_error"
    BY <1>2, <2>2 DEF ComposeSession, Ends
  <2>4. outcome' = "built" => model.contract = Pinned
    BY <1>2 DEF ComposeSession, Ends, Pinned
  <2>5. outcome' = "built" => parsed.contract = Pinned
    BY <2>1, <2>4 DEF Traced
  <2> QED
    BY <2>1, <2>3, <2>5 DEF Loaded, Traced, Pinned, NeverRefusedLate, BuiltOnPinnedModel
<1> QED
  BY <1>1, <1>2

\* The model may be replaced between any two of them.
LEMMA ReplaceStep ==
    ASSUME StartupInv, ReplaceModel
    PROVE  StartupInv'
<1>1. PICK other \in Models :
        (\A old \in replaced : other.contract # old.contract) /\ model' = other
  BY DEF ReplaceModel
<1>2. replaced' = replaced \cup {model} /\ UNCHANGED <<document, step, outcome, parsed>>
  BY DEF ReplaceModel
<1>3. Traced'
  BY <1>1, <1>2 DEF StartupInv, Traced, Pinned
<1> QED
  BY <1>2, <1>3 DEF StartupInv, Loaded, NeverRefusedLate, BuiltOnPinnedModel

LEMMA StartupInitially == CommissioningInit => StartupInv
  BY DEF CommissioningInit, StartupInit, StartupInv, Loaded, Traced, NeverRefusedLate,
      BuiltOnPinnedModel

LEMMA CommissioningSteps == StartupInv /\ [CommissioningNext]_commissioning => StartupInv'
<1> SUFFICES ASSUME StartupInv, [CommissioningNext]_commissioning PROVE StartupInv'
  OBVIOUS
<1>1. CASE Build
  BY <1>1, LoaderStep, BuilderStep, ReplaceStep DEF Build, StartupNext
<1>2. CASE UNCHANGED startup
  BY <1>2 DEF startup, StartupInv, Loaded, Traced, Pinned, NeverRefusedLate, BuiltOnPinnedModel
<1> QED
  BY <1>1, <1>2 DEF CommissioningNext, Operate, commissioning

\* The invariant holds in every reachable state, and with it what follows.
THEOREM StartupInvariant == CommissioningSpec => []StartupInv
  BY StartupInitially, CommissioningSteps, PTL DEF CommissioningSpec

\* The checks of the loader imply those of every constructor behind it: no
\* document that load_sdk_config accepts makes RobotSessionBuilder.build raise
\* ValueError.
THEOREM LoaderDecides == CommissioningSpec => []NeverRefusedLate
<1>1. StartupInv => NeverRefusedLate
  BY DEF StartupInv
<1> QED
  BY <1>1, StartupInvariant, PTL

\* The kinematics of a session are those of the contract the configuration pins,
\* however often the file is replaced between its four readings.
THEOREM ModelIsPinned == CommissioningSpec => []BuiltOnPinnedModel
<1>1. StartupInv => BuiltOnPinnedModel
  BY DEF StartupInv
<1> QED
  BY <1>1, StartupInvariant, PTL

-----------------------------------------------------------------------------
(* The motion: what the conversion of a goal keeps.                        *)

\* Where the points come from: what was accepted is the conversion of the request,
\* and what is planned, but for a generated motion, can be constructed.
SourceInv ==
    /\ request \in Requests /\ measured \in MeasuredStates
    /\ stage = "new" => ~accepted.ok
    /\ accepted.ok => /\ request.kind = "goal" /\ accepted = ConvertGoal(request)
                      /\ points = accepted.points
    /\ request.kind = "goal" /\ stage \in {"planned", "admitted"} => accepted.ok
    /\ request.kind = "core" /\ stage # "new" => points = request.points
    /\ request.kind = "move" => WholeCubic(measured, request.target, request.profile)
    /\ request.kind = "move" /\ stage \in {"planned", "refused", "admitted"} =>
         /\ ProfileAllows(measured, request.target, request.profile)
         /\ points = Generate(measured, request.target, request.profile)
    /\ stage = "planned" => request.kind = "move" \/ TrajectoryConstructible(points)
    /\ AcceptedIsConstructible

\* What the validator said and what was sent last.
OutcomeInv ==
    /\ stage = "admitted" \/ (stage = "refused" /\ request.kind = "move") =>
         /\ TrajectoryConstructible(points)
         /\ verdict = Validate(JointNames, points, measured, age)
    /\ stage = "admitted" => verdict.types = {}
    /\ next \in Nat \ {0}
    /\ next > 1 => /\ stage = "admitted" /\ next - 1 \in 1..Len(points)
                   /\ firmware = CoreToFirmware(points[next - 1].position)

\* The readings that were compared with a waypoint, and what was found.
Compared == {k \in DOMAIN readings : k <= Len(points)}
OffAt(k) == ViolatedJoints(readings[k], points[k].position, accepted.path)
OffAtGoal ==
    ViolatedJoints(readings[Len(points) + 1], points[Len(points)].position, accepted.final)

\* How far the watching of a goal is, and what its result rests on: the violation
\* is there from the first waypoint at which a joint was off its path.
ProgressInv ==
    /\ readings \in Seq([Joints -> Int])
    /\ result \in {"none", "path_violated", "goal_violated", "succeeded"}
    /\ result \in {"none", "path_violated"} => Len(readings) <= Len(points)
    /\ result = "none" => Len(readings) \in {next - 1, next - 2}
    /\ result = "path_violated" => violation # {}
    /\ result \in {"goal_violated", "succeeded"} =>
         /\ violation = {} /\ Len(readings) = Len(points) + 1
         /\ result = "succeeded" <=> OffAtGoal = {}
    /\ violation = {} <=> \A k \in Compared : OffAt(k) = {}
    /\ violation \subseteq UNION {OffAt(k) : k \in Compared}

Unwatched == readings = <<>> /\ violation = {} /\ result = "none"

WatchInv ==
    IF stage = "admitted" /\ request.kind = "goal" THEN ProgressInv ELSE Unwatched

MotionInv == SourceInv /\ OutcomeInv /\ WatchInv

\* What the acceptance of a goal says of it.
LEMMA AcceptedGoal ==
    ASSUME NEW goal, ConvertGoal(goal).ok
    PROVE  /\ NamesMatch(goal.names) /\ PointsValid(goal.points)
           /\ ConvertGoal(goal).points = ConvertPoints(goal.points, ReorderIndices(goal.names))
<1>1. GoalError(goal) = "none"
  BY DEF ConvertGoal, Refused
<1>2. NamesMatch(goal.names) /\ PointsValid(goal.points)
  BY <1>1 DEF GoalError
<1> QED
  BY <1>1, <1>2 DEF ConvertGoal

\* A vector in the order of the model has a value for each joint of the model.
LEMMA ReorderLength ==
    ASSUME NEW names, NEW vector
    PROVE  Len(Reorder(vector, ReorderIndices(names))) = Len(JointNames)
<1>1. JointNames \in Seq(STRING) /\ Len(JointNames) \in Nat
  BY NamesAssumption
<1>2. DOMAIN ReorderIndices(names) = 1..Len(JointNames)
  BY <1>1 DEF ReorderIndices
<1>3. DOMAIN Reorder(vector, ReorderIndices(names)) = 1..Len(JointNames)
  BY <1>2 DEF Reorder
<1> DEFINE s == Reorder(vector, ReorderIndices(names))
<1>4. s \in Seq({s[i] : i \in 1..Len(JointNames)})
  BY <1>1, <1>3 DEF Reorder
<1> QED
  BY <1>1, <1>3, <1>4

\* The points of an accepted goal pass the constructors of the core.
LEMMA ConvertedIsConstructible ==
    ASSUME NEW goal \in Requests, goal.kind = "goal", PointsValid(goal.points)
    PROVE  TrajectoryConstructible(ConvertPoints(goal.points, ReorderIndices(goal.names)))
<1> DEFINE converted == ConvertPoints(goal.points, ReorderIndices(goal.names))
<1>1. goal.points \in Seq(ToSet(goal.points))
  BY RequestsAssumption
<1>2. DOMAIN converted = DOMAIN goal.points
  BY DEF ConvertPoints
<1>3. converted # <<>>
  <2>1. 1 \in DOMAIN goal.points
    BY <1>1 DEF PointsValid
  <2> QED
    BY <1>2, <2>1
<1>4. ASSUME NEW k \in DOMAIN converted
      PROVE  /\ PointConstructible(converted[k])
             /\ k > 1 => converted[k].time > converted[k - 1].time
  <2>1. converted[k].time = goal.points[k].time
    BY <1>2 DEF ConvertPoints
  <2>2. Len(converted[k].position) = Len(JointNames)
    BY <1>2, ReorderLength DEF ConvertPoints
  <2>3. /\ converted[k].velocity = <<>> \/ Len(converted[k].velocity) = Len(JointNames)
        /\ converted[k].acceleration = <<>> \/ Len(converted[k].acceleration) = Len(JointNames)
    BY <1>2, ReorderLength DEF ConvertPoints
  <2>4. PointConstructible(converted[k])
    BY <1>2, <2>1, <2>2, <2>3 DEF PointsValid, PointConstructible
  <2>5. k > 1 => converted[k].time > converted[k - 1].time
    <3> SUFFICES ASSUME k > 1 PROVE converted[k].time > converted[k - 1].time
      OBVIOUS
    <3>1. k - 1 \in DOMAIN goal.points
      BY <1>1, <1>2
    <3>2. converted[k - 1].time = goal.points[k - 1].time
      BY <3>1 DEF ConvertPoints
    <3> QED
      BY <1>2, <2>1, <3>2 DEF PointsValid
  <2> QED
    BY <2>4, <2>5
<1> QED
  BY <1>3, <1>4 DEF TrajectoryConstructible

LEMMA MotionInitially == CommissioningInit => MotionInv
<1> SUFFICES ASSUME CommissioningInit PROVE MotionInv
  OBVIOUS
<1>1. SourceInv
  BY DEF CommissioningInit, Init, Refused, SourceInv, AcceptedIsConstructible
<1>2. OutcomeInv
  BY DEF CommissioningInit, Init, OutcomeInv
<1>3. WatchInv
  BY DEF CommissioningInit, Init, WatchInv, Unwatched
<1> QED
  BY <1>1, <1>2, <1>3 DEF MotionInv

LEMMA SourceSteps == SourceInv /\ [CommissioningNext]_commissioning => SourceInv'
<1> SUFFICES ASSUME SourceInv, [CommissioningNext]_commissioning PROVE SourceInv'
  OBVIOUS
<1> USE DEF SourceInv, AcceptedIsConstructible
<1>1. CASE UNCHANGED vars
  BY <1>1 DEF vars, asked, planning, sending
<1>2. CASE Convert
  <2>1. /\ accepted' = ConvertGoal(request) /\ request' = request /\ measured' = measured
        /\ stage' = IF accepted'.ok THEN "planned" ELSE "refused"
        /\ accepted'.ok => points' = accepted'.points
        /\ request.kind = "goal"
    BY <1>2 DEF Convert, asked
  <2>2. accepted'.ok => TrajectoryConstructible(points')
    BY <2>1, AcceptedGoal, ConvertedIsConstructible
  <2> QED
    BY <2>1, <2>2
<1>3. CASE Plan
  BY <1>3 DEF Plan, asked
<1>4. CASE Take
  BY <1>4, RequestsAssumption DEF Take, asked
<1>5. CASE Admit
  BY <1>5 DEF Admit, asked
<1>6. CASE Send \/ Watch \/ EndOffPath \/ Settle
  BY <1>6 DEF Send, Watch, EndOffPath, Settle, asked, planning
<1> QED
  BY <1>1, <1>2, <1>3, <1>4, <1>5, <1>6
     DEF CommissioningNext, Build, Operate, Next, commissioning

LEMMA OutcomeSteps ==
    SourceInv /\ OutcomeInv /\ [CommissioningNext]_commissioning => OutcomeInv'
<1> SUFFICES ASSUME SourceInv, OutcomeInv, [CommissioningNext]_commissioning PROVE OutcomeInv'
  OBVIOUS
<1> USE DEF OutcomeInv
<1>1. CASE UNCHANGED vars
  BY <1>1 DEF vars, asked, planning, sending
<1>2. CASE Convert
  BY <1>2 DEF Convert, asked, sending
<1>3. CASE Plan
  BY <1>3 DEF Plan, asked, sending
<1>4. CASE Take
  BY <1>4 DEF Take, asked, sending
<1>5. CASE Admit
  BY <1>5 DEF Admit, asked, sending
<1>6. CASE Send
  <2>1. Len(points) \in Nat
    BY <1>6 DEF Send
  <2> QED
    <3>1. /\ stage = "admitted" /\ next <= Len(points) /\ next' = next + 1
          /\ firmware' = CoreToFirmware(points[next].position)
          /\ UNCHANGED <<request, measured, age, stage, accepted, points, verdict>>
      BY <1>6 DEF Send, asked, planning
    <3>2. next' - 1 = next /\ next' \in Nat \ {0} /\ next \in 1..Len(points)
      BY <2>1, <3>1
    <3> QED
      BY <3>1, <3>2
<1>7. CASE Watch \/ EndOffPath \/ Settle
  BY <1>7 DEF Watch, EndOffPath, Settle, asked, planning, sending
<1> QED
  BY <1>1, <1>2, <1>3, <1>4, <1>5, <1>6, <1>7
     DEF CommissioningNext, Build, Operate, Next, commissioning

\* A function on 1..n is a sequence of length n.
LEMMA Numbered ==
    ASSUME NEW n \in Nat, NEW f, f = [k \in 1..n |-> f[k]]
    PROVE  Len(f) = n /\ DOMAIN f = 1..n
<1>1. f \in Seq({f[k] : k \in 1..n})
  OBVIOUS
<1>2. DOMAIN f = 1..n
  OBVIOUS
<1> QED
  BY <1>1, <1>2

\* The positions are vectors over the joints, numbered from the first waypoint.
LEMMA PointsShaped ==
    ASSUME SourceInv, stage \in {"planned", "admitted"}
    PROVE  /\ Len(points) \in Nat /\ DOMAIN points = 1..Len(points)
           /\ \A k \in DOMAIN points :
                points[k].position = [j \in Joints |-> points[k].position[j]]
<1>1. CASE request.kind = "goal"
  <2> DEFINE indices == ReorderIndices(request.names)
  <2>1. points = ConvertPoints(request.points, indices)
    BY <1>1, AcceptedGoal DEF SourceInv
  <2>2. request.points \in Seq(ToSet(request.points))
    BY <1>1, RequestsAssumption DEF SourceInv
  <2>3. DOMAIN points = 1..Len(request.points) /\ Len(request.points) \in Nat
    BY <2>1, <2>2 DEF ConvertPoints
  <2>4. points = [k \in 1..Len(request.points) |-> points[k]]
    BY <2>1, <2>3 DEF ConvertPoints
  <2>5. DOMAIN indices = Joints
    BY DEF ReorderIndices, Joints
  <2> HIDE DEF indices
  <2>6. ASSUME NEW k \in DOMAIN points
        PROVE  points[k].position = [j \in Joints |-> points[k].position[j]]
    <3>1. points[k].position = Reorder(request.points[k].position, indices)
      BY <2>1 DEF ConvertPoints
    <3> QED
      BY <2>5, <3>1 DEF Reorder
  <2> QED
    BY <2>3, <2>4, <2>6, Numbered
<1>2. CASE request.kind = "move"
  <2> DEFINE d == request.profile.duration
  <2>1. points = Generate(measured, request.target, request.profile) /\ d \in Nat
    BY <1>2, RequestsAssumption DEF SourceInv
  <2>2. DOMAIN points = 1..(d + 1)
    BY <2>1 DEF Generate
  <2>3. points = [k \in 1..(d + 1) |-> points[k]]
    BY <2>1, <2>2 DEF Generate
  <2>4. \A k \in DOMAIN points : points[k].position = [j \in Joints |-> points[k].position[j]]
    BY <2>1 DEF Generate
  <2>5. d + 1 \in Nat
    BY <2>1
  <2> QED
    BY <2>2, <2>3, <2>4, <2>5, Numbered
<1>3. CASE request.kind = "core"
  <2>1. /\ points \in Seq(ToSet(points))
        /\ \A k \in DOMAIN points : points[k].position \in [Joints -> Numbers]
    BY <1>3, RequestsAssumption DEF SourceInv
  <2> QED
    BY <2>1
<1> QED
  BY <1>1, <1>2, <1>3, RequestsAssumption DEF SourceInv

\* A goal that is watched may be sent a waypoint, or finds itself off its path.
LEMMA SendKeepsProgress ==
    ASSUME SourceInv, OutcomeInv, ProgressInv, Send,
           request.kind = "goal", stage = "admitted"
    PROVE  ProgressInv'
<1>1. /\ result = "none" /\ next' = next + 1 /\ Len(readings) = next - 1
      /\ UNCHANGED <<accepted, points, readings, violation, result>>
  BY DEF Send, planning, watching
<1>2. Len(readings)' = Len(readings) /\ next \in Nat
  BY <1>1 DEF OutcomeInv
<1>3. Compared' = Compared /\ (\A k \in Compared : OffAt(k)' = OffAt(k)) /\ OffAtGoal' = OffAtGoal
  BY <1>1 DEF Compared, OffAt, OffAtGoal
<1>4. Len(readings)' \in {next' - 1, next' - 2}
  BY <1>1, <1>2
<1> HIDE DEF Compared, OffAt, OffAtGoal
<1> QED
  BY <1>1, <1>2, <1>3, <1>4 DEF ProgressInv

LEMMA WatchKeepsProgress ==
    ASSUME SourceInv, OutcomeInv, ProgressInv, Watch
    PROVE  ProgressInv'
<1>0. PICK n \in Nat : n = Len(readings)
  BY DEF ProgressInv
<1>1. PICK actual \in Readings :
        LET off == ViolatedJoints(actual, points[next - 1].position, accepted.path) IN
        /\ readings' = Append(readings, actual)
        /\ violation' = IF off = {} THEN violation ELSE off
  BY DEF Watch
<1>2. /\ stage = "admitted" /\ request.kind = "goal" /\ result = "none" /\ n < next - 1
      /\ UNCHANGED <<accepted, points, next, result>>
  BY <1>0 DEF Watch, Watched, planning, sending
<1>3. readings \in Seq([Joints -> Int]) /\ n \in Nat /\ next \in Nat
  BY <1>0 DEF ProgressInv, OutcomeInv
<1>4. n = next - 2 /\ n + 1 \in 1..Len(points) /\ Len(points) \in Nat
  BY <1>0, <1>2, <1>3, PointsShaped DEF ProgressInv, OutcomeInv
<1>5. actual \in [Joints -> Int]
  BY StatesAssumption
<1>6. /\ readings' \in Seq([Joints -> Int]) /\ Len(readings)' = n + 1
      /\ readings'[n + 1] = actual
      /\ \A k \in 1..n : readings'[k] = readings[k]
      /\ DOMAIN readings = 1..n /\ DOMAIN readings' = 1..(n + 1)
  BY <1>0, <1>1, <1>3, <1>5
<1>7. Compared = 1..n /\ Compared' = 1..(n + 1)
  BY <1>2, <1>3, <1>4, <1>6 DEF Compared
<1>8. /\ OffAt(n + 1)' = ViolatedJoints(actual, points[next - 1].position, accepted.path)
      /\ \A k \in 1..n : OffAt(k)' = OffAt(k)
  <2>1. /\ readings'[n + 1] = actual /\ points'[n + 1] = points[next - 1]
        /\ accepted' = accepted /\ points' = points
    BY <1>2, <1>3, <1>4, <1>6
  <2>2. OffAt(n + 1)' = ViolatedJoints(actual, points[next - 1].position, accepted.path)
    BY <2>1 DEF OffAt
  <2>3. ASSUME NEW k \in 1..n PROVE OffAt(k)' = OffAt(k)
    BY <1>6, <2>1 DEF OffAt
  <2> QED
    BY <2>2, <2>3
<1>9. violation' = IF OffAt(n + 1)' = {} THEN violation ELSE OffAt(n + 1)'
  BY <1>1, <1>8
<1>10. /\ violation = {} <=> \A k \in 1..n : OffAt(k) = {}
       /\ violation \subseteq UNION {OffAt(k) : k \in 1..n}
  BY <1>7 DEF ProgressInv
<1>11. 1..(n + 1) = (1..n) \cup {n + 1}
  BY <1>3
<1> HIDE DEF OffAt, Compared
<1>12. violation' = {} <=> \A k \in Compared' : OffAt(k)' = {}
  BY <1>7, <1>8, <1>9, <1>10, <1>11
<1>13. violation' \subseteq UNION {OffAt(k)' : k \in Compared'}
  BY <1>7, <1>8, <1>9, <1>10, <1>11
<1>14. Len(readings)' <= Len(points)' /\ Len(readings)' \in {next' - 1, next' - 2}
  BY <1>2, <1>3, <1>4, <1>6
<1> QED
  BY <1>2, <1>6, <1>12, <1>13, <1>14 DEF ProgressInv

LEMMA EndsKeepProgress ==
    ASSUME SourceInv, OutcomeInv, ProgressInv, EndOffPath \/ Settle
    PROVE  ProgressInv'
<1>1. CASE EndOffPath
  <2>1. /\ result = "none" /\ violation # {} /\ result' = "path_violated"
        /\ UNCHANGED <<accepted, points, readings, violation>>
    BY <1>1 DEF EndOffPath, Watched, planning
  <2>2. Compared' = Compared /\ (\A k \in Compared : OffAt(k)' = OffAt(k))
    BY <2>1 DEF Compared, OffAt
  <2>3. Len(readings)' = Len(readings) /\ Len(points)' = Len(points)
    BY <2>1
  <2> QED
    BY <2>1, <2>2, <2>3 DEF ProgressInv
<1>2. CASE Settle
  <2> DEFINE n == Len(readings)
  <2>1. PICK actual \in Readings :
          /\ readings' = Append(readings, actual)
          /\ result' = IF ViolatedJoints(actual, points[Len(points)].position,
                                         accepted.final) = {}
                         THEN "succeeded" ELSE "goal_violated"
    BY <1>2 DEF Settle
  <2>2. /\ violation = {} /\ n = Len(points) /\ result = "none"
        /\ UNCHANGED <<accepted, points, violation>>
    BY <1>2 DEF Settle, Watched, planning
  <2>3. readings \in Seq([Joints -> Int]) /\ n \in Nat /\ actual \in [Joints -> Int]
    BY StatesAssumption DEF ProgressInv
  <2>4. /\ readings' \in Seq([Joints -> Int]) /\ Len(readings)' = n + 1
        /\ readings'[n + 1] = actual
        /\ \A k \in 1..n : readings'[k] = readings[k]
        /\ DOMAIN readings = 1..n /\ DOMAIN readings' = 1..(n + 1)
    BY <2>1, <2>3
  <2>5. Compared = 1..n /\ Compared' = 1..n
    BY <2>2, <2>3, <2>4 DEF Compared
  <2>6. \A k \in 1..n : OffAt(k)' = OffAt(k)
    BY <2>2, <2>4 DEF OffAt
  <2>7. result' = "succeeded" <=> OffAtGoal' = {}
    BY <2>1, <2>2, <2>4 DEF OffAtGoal
  <2>8. result' \in {"succeeded", "goal_violated"}
    BY <2>1
  <2>9. Len(readings)' = Len(points)' + 1
    BY <2>2, <2>4
  <2> HIDE DEF n
  <2>10. violation' = {} <=> \A k \in Compared' : OffAt(k)' = {}
    BY <2>2, <2>5, <2>6 DEF ProgressInv
  <2> QED
    BY <2>2, <2>4, <2>7, <2>8, <2>9, <2>10 DEF ProgressInv
<1> QED
  BY <1>1, <1>2

LEMMA WatchSteps ==
    SourceInv /\ OutcomeInv /\ WatchInv /\ [CommissioningNext]_commissioning => WatchInv'
<1> SUFFICES ASSUME SourceInv, OutcomeInv, WatchInv, [CommissioningNext]_commissioning
             PROVE  WatchInv'
  OBVIOUS
<1>1. CASE UNCHANGED vars
  BY <1>1 DEF vars, asked, planning, sending, watching, WatchInv, Unwatched, ProgressInv,
     Compared, OffAt, OffAtGoal
<1>2. CASE Convert \/ Plan \/ Take
  BY <1>2 DEF Convert, Plan, Take, asked, sending, watching, WatchInv, Unwatched
<1>3. CASE Admit
  <2>1. Unwatched /\ stage = "planned" /\ UNCHANGED <<request, readings, violation, result, next>>
    BY <1>3 DEF Admit, asked, sending, watching, WatchInv
  <2>2. Unwatched'
    BY <2>1 DEF Unwatched
  <2>3. points' = points /\ Len(points) \in Nat
    BY <1>3, <2>1, PointsShaped DEF Admit
  <2>4. next' = 1
    BY <2>1 DEF OutcomeInv
  <2>5. readings' = <<>> /\ Len(readings)' = 0 /\ DOMAIN readings' = {} /\ Compared' = {}
    BY <2>2 DEF Unwatched, Compared
  <2>6. ProgressInv'
    BY <2>2, <2>3, <2>4, <2>5 DEF ProgressInv, Unwatched
  <2> QED
    BY <2>2, <2>6 DEF WatchInv
<1>4. CASE Send
  <2>1. stage = "admitted" /\ UNCHANGED <<stage, request, readings, violation, result>>
    BY <1>4 DEF Send, asked, planning, watching
  <2> QED
    BY <1>4, <2>1, SendKeepsProgress DEF WatchInv, Unwatched
<1>5. CASE Watch
  <2>1. stage = "admitted" /\ request.kind = "goal" /\ UNCHANGED <<stage, request>>
    BY <1>5 DEF Watch, Watched, asked, planning
  <2> QED
    BY <1>5, <2>1, WatchKeepsProgress DEF WatchInv
<1>6. CASE EndOffPath \/ Settle
  <2>1. stage = "admitted" /\ request.kind = "goal" /\ UNCHANGED <<stage, request>>
    BY <1>6 DEF EndOffPath, Settle, Watched, asked, planning
  <2> QED
    BY <1>6, <2>1, EndsKeepProgress DEF WatchInv
<1> QED
  BY <1>1, <1>2, <1>3, <1>4, <1>5, <1>6
     DEF CommissioningNext, Build, Operate, Next, commissioning

LEMMA MotionSteps == MotionInv /\ [CommissioningNext]_commissioning => MotionInv'
  BY SourceSteps, OutcomeSteps, WatchSteps DEF MotionInv

\* The invariant holds in every reachable state, and with it what follows.
THEOREM MotionInvariant == CommissioningSpec => []MotionInv
  BY MotionInitially, MotionSteps, PTL DEF CommissioningSpec

\* What convert_follow_joint_trajectory_goal accepts, the constructors of
\* JointTrajectoryPoint and JointTrajectory take, for goals of every length and
\* order of joints.
THEOREM AcceptedGoalsConstruct == CommissioningSpec => []AcceptedIsConstructible
<1>1. MotionInv => AcceptedIsConstructible
  BY DEF MotionInv, SourceInv
<1> QED
  BY <1>1, MotionInvariant, PTL

\* Every number of an accepted goal keeps the name of its joint, for every
\* number of joints and every order in which a goal lists them.
THEOREM NamesAreKept == CommissioningSpec => []ConversionKeepsNames
<1>1. MotionInv => ConversionKeepsNames
  <2> SUFFICES ASSUME MotionInv, accepted.ok,
                      NEW k \in DOMAIN request.points, NEW i \in DOMAIN request.names,
                      NEW j \in DOMAIN JointNames, request.names[i] = JointNames[j]
               PROVE  /\ accepted.points[k].position[j] = request.points[k].position[i]
                      /\ request.points[k].velocity # <<>> =>
                           accepted.points[k].velocity[j] = request.points[k].velocity[i]
                      /\ request.points[k].acceleration # <<>> =>
                           accepted.points[k].acceleration[j] = request.points[k].acceleration[i]
    BY DEF ConversionKeepsNames
  <2>1. /\ NamesMatch(request.names)
        /\ accepted.points = ConvertPoints(request.points, ReorderIndices(request.names))
    BY AcceptedGoal DEF MotionInv, SourceInv
  <2>2. IndexIn(request.names, JointNames[j]) = i
    BY <2>1 DEF IndexIn, NamesMatch, IsInjective
  <2>3. ReorderIndices(request.names)[j] = i /\ DOMAIN ReorderIndices(request.names) = DOMAIN JointNames
    BY <2>2 DEF ReorderIndices
  <2>4. \A v : Reorder(v, ReorderIndices(request.names))[j] = v[i]
    BY <2>3 DEF Reorder
  <2> DEFINE in == request.points[k]
             out == accepted.points[k]
             Moved(v) == Reorder(v, ReorderIndices(request.names))
  <2>5. /\ out.position = Moved(in.position)
        /\ in.velocity # <<>> => out.velocity = Moved(in.velocity)
        /\ in.acceleration # <<>> => out.acceleration = Moved(in.acceleration)
    BY <2>1 DEF ConvertPoints
  <2>6. \A v : Moved(v)[j] = v[i]
    BY <2>4
  <2> HIDE DEF Moved
  <2> QED
    BY <2>5, <2>6
<1> QED
  BY <1>1, MotionInvariant, PTL

-----------------------------------------------------------------------------
(* Numbers and vectors                                                     *)

\* A set of naturals that is not empty has a minimum.
LEMMA LeastNatural ==
    ASSUME NEW S \in SUBSET Nat, S # {}
    PROVE  Min(S) \in S /\ \A n \in S : Min(S) <= n
<1> DEFINE R == OpToRel(<, Nat)
<1>1. IsWellFoundedOn(R, Nat)
  BY NatLessThanWellFounded
<1>2. \A n, m \in Nat : n < m => <<n, m>> \in R
  BY DEF OpToRel
<1> HIDE DEF R
<1>3. PICK m \in S : \A n \in S : ~(<<n, m>> \in R)
  BY <1>1, WFMin
<1>4. ASSUME NEW n \in S PROVE m <= n
  <2>1. n \in Nat /\ m \in Nat /\ ~(<<n, m>> \in R)
    BY <1>3
  <2>2. ~(n < m)
    BY <1>2, <2>1
  <2> QED
    BY <2>1, <2>2
<1> QED
  BY <1>4 DEF Min

\* A finite sequence of naturals has a bound that one of them attains.
LEMMA Bounded ==
    ASSUME NEW n \in Nat, NEW f \in [1..n -> Nat]
    PROVE  \E u \in Nat : \A i \in 1..n : f[i] <= u
<1> DEFINE Bound(m) == \E u \in Nat : \A i \in 1..m : f[i] <= u
           unbounded == {m \in Nat : m <= n /\ ~Bound(m)}
<1>1. SUFFICES ASSUME unbounded # {} PROVE FALSE
  <2>1. n \notin unbounded
    BY <1>1
  <2>2. n \in Nat /\ n <= n
    OBVIOUS
  <2>3. Bound(n)
    BY <2>1, <2>2
  <2> QED
    BY <2>3
<1>2. unbounded \in SUBSET Nat
  OBVIOUS
<1> DEFINE least == Min(unbounded)
<1>3. least \in unbounded /\ \A m \in unbounded : least <= m
  BY <1>1, <1>2, LeastNatural
<1> HIDE DEF least
<1>4. least # 0
  <2>1. \A i \in 1..0 : f[i] <= 0
    OBVIOUS
  <2> QED
    BY <1>3, <2>1
<1>5. least \in Nat /\ least <= n /\ least - 1 \in Nat /\ least - 1 <= n /\ ~(least <= least - 1)
  BY <1>3, <1>4
<1>6. Bound(least - 1)
  BY <1>3, <1>5
<1>7. PICK u \in Nat : \A i \in 1..(least - 1) : f[i] <= u
  BY <1>6
<1>8. least \in 1..n /\ f[least] \in Nat
  BY <1>4, <1>5
<1>9. ASSUME NEW i \in 1..least PROVE f[i] <= u + f[least]
  <2>1. f[i] \in Nat
    BY <1>5
  <2>2. CASE i = least
    BY <1>8, <2>2
  <2>3. CASE i # least
    <3>1. i \in 1..(least - 1)
      BY <1>5, <2>3
    <3> QED
      BY <1>7, <1>8, <2>1, <3>1
  <2> QED
    BY <2>2, <2>3
<1>10. u + f[least] \in Nat
  BY <1>8
<1>11. Bound(least)
  BY <1>9, <1>10
<1> QED
  BY <1>3, <1>11

LEMMA Attained ==
    ASSUME NEW n \in Nat \ {0}, NEW f \in [1..n -> Nat]
    PROVE  \E j \in 1..n : \A i \in 1..n : f[i] <= f[j]
<1> DEFINE bounds == {u \in Nat : \A i \in 1..n : f[i] <= u}
<1>1. bounds # {} /\ bounds \in SUBSET Nat
  BY Bounded
<1> DEFINE least == Min(bounds)
<1>2. least \in bounds /\ \A u \in bounds : least <= u
  BY <1>1, LeastNatural
<1> HIDE DEF least
<1>3. least \in Nat /\ \A i \in 1..n : f[i] <= least
  BY <1>2
<1>4. SUFFICES ASSUME \A j \in 1..n : f[j] # least PROVE FALSE
  BY <1>3
<1>5. \A i \in 1..n : f[i] \in Nat /\ f[i] < least
  BY <1>3, <1>4
<1>6. least - 1 \in Nat /\ \A i \in 1..n : f[i] <= least - 1
  <2>1. 1 \in 1..n
    OBVIOUS
  <2>2. f[1] \in Nat /\ f[1] < least
    BY <1>5, <2>1
  <2> QED
    BY <1>3, <1>5, <2>2
<1>7. least - 1 \in bounds
  BY <1>6
<1> QED
  BY <1>2, <1>3, <1>7

\* The joints are numbered from 1.
LEMMA JointsNumbered == Len(JointNames) \in Nat \ {0} /\ Joints = 1..Len(JointNames)
  BY NamesAssumption DEF Joints

\* Largest is the greatest of the distances.
LEMMA LargestIs ==
    ASSUME NEW delta \in [Joints -> Int]
    PROVE  /\ Largest(delta) \in Nat
           /\ \A j \in Joints : Abs(delta[j]) \in Nat /\ Abs(delta[j]) <= Largest(delta)
<1> DEFINE n == Len(JointNames)
           f == [j \in 1..n |-> Abs(delta[j])]
           S == {Abs(delta[j]) : j \in Joints}
<1>1. n \in Nat \ {0} /\ Joints = 1..n
  BY JointsNumbered
<1>2. \A j \in Joints : Abs(delta[j]) \in Nat
  BY DEF Abs
<1>3. f \in [1..n -> Nat]
  BY <1>1, <1>2
<1>4. PICK j \in 1..n : \A i \in 1..n : f[i] <= f[j]
  BY <1>1, <1>3, Attained
<1>5. \A i \in Joints : Abs(delta[i]) <= Abs(delta[j])
  BY <1>1, <1>4
<1>6. Abs(delta[j]) \in S /\ \A y \in S : y \in Nat /\ Abs(delta[j]) >= y
  BY <1>1, <1>2, <1>5
<1>7. Max(S) \in S /\ \A y \in S : Max(S) >= y
  BY <1>6 DEF Max
<1> QED
  BY <1>2, <1>6, <1>7 DEF Largest

-----------------------------------------------------------------------------
(* What admission says of a trajectory.                                    *)

LEMMA NothingViolated ==
    ASSUME MotionInv, stage = "admitted"
    PROVE  \A k \in DOMAIN points : PointViolations(points, measured, k) = {}
<1>1. verdict = Validate(JointNames, points, measured, age) /\ verdict.types = {}
  BY DEF MotionInv, OutcomeInv
<1>2. \E stale : verdict.types = stale \cup UNION {PointViolations(points, measured, k) :
                                                     k \in DOMAIN points}
  BY <1>1 DEF Validate
<1> QED
  BY <1>1, <1>2

\* Every waypoint is finite and within the limits.
LEMMA AdmittedPosition ==
    ASSUME MotionInv, stage = "admitted", NEW k \in DOMAIN points
    PROVE  /\ points[k].position \in [Joints -> Int]
           /\ \A j \in Joints : points[k].position[j] \in
                                  (Lower[j] + LimitMargin)..(Upper[j] - LimitMargin)
<1> DEFINE position == points[k].position
<1>1. position = [j \in Joints |-> position[j]]
  BY PointsShaped DEF MotionInv
<1>2. PointViolations(points, measured, k) = {}
  BY NothingViolated
<1>3. Finite(position) /\ PositionViolations(position, Delta(points, measured, k)) = {}
  BY <1>2 DEF PointViolations
<1> HIDE DEF position
<1>4. \A j \in Joints : position[j] # NonFinite
  BY <1>1, <1>3 DEF Finite, ToSet
<1>5. \A j \in Joints : position[j] \in (Lower[j] + LimitMargin)..(Upper[j] - LimitMargin)
  BY <1>3, <1>4 DEF PositionViolations
<1>6. \A j \in Joints : position[j] \in Int
  BY <1>5, PolicyAssumption
<1> QED
  BY <1>1, <1>5, <1>6 DEF position

\* So is where the way to it begins, and the way was resampled.
LEMMA AdmittedWay ==
    ASSUME MotionInv, stage = "admitted", NEW k \in DOMAIN points
    PROVE  /\ PositionAt(points, measured, k - 1) \in [Joints -> Int]
           /\ SegmentViolations(PositionAt(points, measured, k - 1), points[k].position) = {}
<1> DEFINE from == PositionAt(points, measured, k - 1)
<1>1. k \in 1..Len(points) /\ DOMAIN points = 1..Len(points) /\ Len(points) \in Nat
  BY PointsShaped DEF MotionInv
<1>2. from \in [Joints -> Int]
  <2>1. CASE k = 1
    BY <2>1, StatesAssumption DEF PositionAt, MotionInv, SourceInv
  <2>2. CASE k # 1
    <3>1. k - 1 \in DOMAIN points /\ k - 1 # 0
      BY <1>1, <2>2
    <3> QED
      BY <3>1, AdmittedPosition DEF PositionAt
  <2> QED
    BY <2>1, <2>2
<1>3. PositionAt(points, measured, k) = points[k].position
  BY <1>1 DEF PositionAt
<1>4. points[k].position \in [Joints -> Int]
  BY AdmittedPosition
<1>5. \A v \in [Joints -> Int] : Finite(v)
  BY NonFiniteAssumption DEF Finite, ToSet
<1>6. Resampled(points, measured, k)
  BY <1>2, <1>3, <1>4, <1>5 DEF Resampled
<1> QED
  BY <1>2, <1>6, NothingViolated DEF PointViolations

\* There are enough samples, and not one more for a way that has a length.
LEMMA SamplesEnough ==
    ASSUME NEW delta \in [Joints -> Int]
    PROVE  /\ SampleCount(delta) \in Nat \ {0}
           /\ Largest(delta) <= SampleCount(delta) * ResampleStep
           /\ SampleCount(delta) <= Largest(delta) \/ Largest(delta) = 0
<1> DEFINE l == Largest(delta)
           c == Ceiling(l, ResampleStep)
           n == SampleCount(delta)
<1>1. l \in Nat
  BY LargestIs
<1>2. ResampleStep \in Nat \ {0}
  BY PolicyAssumption
<1> HIDE DEF l
<1>3. c \in Nat /\ l <= c * ResampleStep /\ (c <= l \/ l = 0)
  <2> DEFINE x == l + ResampleStep - 1
  <2>1. c = x \div ResampleStep /\ x \in Nat
    BY <1>1, <1>2 DEF Ceiling
  <2>2. c \in Nat /\ x < (c + 1) * ResampleStep /\ c * ResampleStep <= x
    BY <1>2, <2>1
  <2> HIDE DEF c
  <2>3. (c + 1) * ResampleStep = c * ResampleStep + ResampleStep
    BY <1>2, <2>2
  <2>4. c * ResampleStep \in Nat
    BY <1>2, <2>2
  <2>5. l <= c * ResampleStep
    BY <1>1, <1>2, <2>2, <2>3, <2>4
  <2>6. ASSUME c > l, l # 0 PROVE FALSE
    <3>1. (c - 1) * ResampleStep = c * ResampleStep - ResampleStep /\ c - 1 >= l /\ c - 1 \in Nat
      BY <1>1, <1>2, <2>2, <2>6
    <3>2. (c - 1) * ResampleStep <= l - 1
      BY <1>1, <1>2, <2>2, <2>4, <3>1
    <3>3. (c - 1) * ResampleStep >= c - 1
      BY <1>2, <3>1
    <3> QED
      BY <1>1, <1>2, <2>4, <3>1, <3>2, <3>3
  <2> QED
    BY <1>1, <2>2, <2>5, <2>6
<1> HIDE DEF c
<1>4. n = Max({1, c})
  BY DEF SampleCount, c, l
<1>5. n \in {1, c} /\ n >= 1 /\ n >= c
  <2>1. \E m \in {1, c} : \A y \in {1, c} : m >= y
    BY <1>3
  <2> QED
    BY <1>4, <2>1 DEF Max
<1> HIDE DEF n
<1>6. n * ResampleStep >= c * ResampleStep
  <2>1. n \in Nat /\ c \in Nat /\ ResampleStep \in Nat /\ n - c \in Nat
    BY <1>2, <1>3, <1>5
  <2>2. (n - c) * ResampleStep >= 0 /\ (n - c) * ResampleStep = n * ResampleStep - c * ResampleStep
    BY <2>1
  <2> QED
    BY <2>1, <2>2
<1>7. n \in Nat \ {0} /\ l <= n * ResampleStep
  <2>1. c * ResampleStep \in Nat /\ n * ResampleStep \in Nat
    BY <1>2, <1>3, <1>5
  <2> QED
    BY <1>1, <1>3, <1>5, <1>6, <2>1
<1>8. n <= l \/ l = 0
  BY <1>1, <1>3, <1>5
<1> QED
  BY <1>7, <1>8 DEF n, l

\* Between two fortieths of a way further apart than the resample step there is a
\* sample, and so a place inside.
LEMMA SampleBetween ==
    ASSUME NEW from \in [Joints -> Int], NEW to \in [Joints -> Int],
           SegmentViolations(from, to) = {},
           NEW a \in 0..Fine, NEW b \in 0..Fine, a < b,
           Largest(Difference(to, from)) * (b - a) > ResampleStep * Fine
    PROVE  \E d \in 1..Largest(Difference(to, from)) : \E i \in 0..d :
               /\ a * d <= i * Fine /\ i * Fine <= b * d
               /\ ~Outside(Along(from, to, i, d), d)
<1> DEFINE delta == Difference(to, from)
           l == Largest(delta)
           n == SampleCount(delta)
           i == (b * n) \div Fine
<1>1. delta \in [Joints -> Int]
  BY NonFiniteAssumption DEF Difference
<1>2. l \in Nat /\ n \in Nat \ {0} /\ l <= n * ResampleStep /\ (n <= l \/ l = 0)
  BY <1>1, LargestIs, SamplesEnough
<1>3. ASSUME NEW k \in 1..n PROVE ~Outside(Along(from, to, k, n), n)
  <2>1. SampleViolations(Along(from, to, k, n), n) = {}
    BY DEF SegmentViolations
  <2> QED
    BY <2>1 DEF SampleViolations
<1> HIDE DEF delta, l, n
<1>4. a \in Nat /\ b \in Nat /\ b - a \in Nat /\ b <= Fine /\ ResampleStep \in Nat \ {0} /\ Fine = 40
  BY PolicyAssumption DEF Fine
<1>5. l * (b - a) > ResampleStep * Fine
  BY DEF delta, l
<1>6. n <= l
  BY <1>2, <1>4, <1>5
<1>7. n * (b - a) > Fine
  <2>1. l * (b - a) <= (n * ResampleStep) * (b - a)
    BY <1>2, <1>4
  <2>2. (n * ResampleStep) * (b - a) = ResampleStep * (n * (b - a))
    BY <1>2, <1>4
  <2>3. ResampleStep * (n * (b - a)) > ResampleStep * Fine
    BY <1>2, <1>4, <1>5, <2>1, <2>2
  <2>4. n * (b - a) \in Nat
    BY <1>2, <1>4
  <2> QED
    BY <1>4, <2>3, <2>4
<1>8. b * n - a * n > Fine /\ b * n \in Nat /\ a * n \in Nat /\ b * n <= Fine * n
  <2>1. n * (b - a) = b * n - a * n /\ b * n \in Nat /\ a * n \in Nat
    BY <1>2, <1>4
  <2>2. b * n <= Fine * n
    BY <1>2, <1>4
  <2> QED
    BY <1>7, <2>1, <2>2
<1>9. i \in Nat /\ i * Fine <= b * n /\ b * n < i * Fine + Fine
  BY <1>4, <1>8
<1> HIDE DEF i
<1>10. a * n <= i * Fine /\ i >= 1 /\ i <= n
  BY <1>2, <1>4, <1>8, <1>9
<1>11. n \in 1..l /\ i \in 0..n /\ i \in 1..n
  BY <1>2, <1>6, <1>9, <1>10
<1>12. ~Outside(Along(from, to, i, n), n)
  BY <1>3, <1>11
<1> QED
  BY <1>9, <1>10, <1>11, <1>12 DEF l, delta

-----------------------------------------------------------------------------
(* What a motion keeps to.                                                 *)

\* TrajectoryValidator admits no trajectory along which the arm is outside of the
\* workspace for longer than the resample step, for every shape of the workspace,
\* every kinematics and every resample step; nor one that leaves the limits.
THEOREM ExcursionsAreShort == CommissioningSpec => []NoLongExcursion
<1>1. MotionInv => NoLongExcursion
  <2> SUFFICES ASSUME MotionInv, stage = "admitted" PROVE NoLongExcursion
    BY DEF NoLongExcursion
  <2>1. ASSUME NEW k \in DOMAIN points
        PROVE  \A j \in Joints : points[k].position[j] \in
                                   (Lower[j] + LimitMargin)..(Upper[j] - LimitMargin)
    BY AdmittedPosition
  <2>2. ASSUME NEW k \in DOMAIN points, NEW a \in 0..Fine, NEW b \in 0..Fine, a < b,
               Largest(Difference(points[k].position, PositionAt(points, measured, k - 1))) * (b - a)
                 > ResampleStep * Fine
        PROVE  \E d \in 1..Largest(Difference(points[k].position,
                                              PositionAt(points, measured, k - 1))) :
               \E i \in 0..d :
                   /\ a * d <= i * Fine /\ i * Fine <= b * d
                   /\ ~Outside(Along(PositionAt(points, measured, k - 1),
                                     points[k].position, i, d), d)
    <3>1. points[k].position \in [Joints -> Int]
      BY AdmittedPosition
    <3>2. /\ PositionAt(points, measured, k - 1) \in [Joints -> Int]
          /\ SegmentViolations(PositionAt(points, measured, k - 1), points[k].position) = {}
      BY AdmittedWay
    <3> QED
      BY <2>2, <3>1, <3>2, SampleBetween
  <2> QED
    BY <2>1, <2>2 DEF NoLongExcursion
<1> QED
  BY <1>1, MotionInvariant, PTL

\* What JointMapper wrote for a waypoint of an admitted trajectory, it reads back
\* as that waypoint, whatever directions and offsets the joints have.
THEOREM MappingInverts == CommissioningSpec => []FirmwareRoundTrip
<1>1. MotionInv => FirmwareRoundTrip
  <2> SUFFICES ASSUME MotionInv, next > 1
               PROVE  FirmwareToCore(firmware) = points[next - 1].position
    BY DEF FirmwareRoundTrip
  <2> DEFINE position == points[next - 1].position
  <2>1. stage = "admitted" /\ next - 1 \in DOMAIN points /\ firmware = CoreToFirmware(position)
    BY PointsShaped DEF MotionInv, OutcomeInv
  <2>2. position \in [Joints -> Int]
    BY <2>1, AdmittedPosition
  <2> HIDE DEF position
  <2>3. ASSUME NEW j \in Axes
        PROVE  Direction[j] * ((Direction[j] * position[j] + Offset[j]) - Offset[j]) = position[j]
    <3>1. position[j] \in Int /\ Direction[j] \in {-1, 1} /\ Offset[j] \in Int
      BY <2>2, AxesAssumption, MapperAssumption
    <3>2. CASE Direction[j] = 1
      BY <3>1, <3>2
    <3>3. CASE Direction[j] = -1
      BY <3>1, <3>3
    <3> QED
      BY <3>1, <3>2, <3>3
  <2>4. FirmwareToCore(firmware) = [j \in Axes |-> position[j]]
    BY <2>1, <2>3 DEF FirmwareToCore, CoreToFirmware
  <2> QED
    BY <2>2, <2>4, AxesAssumption DEF position
<1> QED
  BY <1>1, MotionInvariant, PTL

-----------------------------------------------------------------------------
(* What the generator keeps to.  The unit of a joint is the d^3-th part of *)
(* its way; the position at time i is Cubic(d, i) units from the start,    *)
(* and the derived velocity of the step to it CubicStep(d, i) units.       *)

Unit(start, target, d) == [j \in Joints |-> Difference(target, start)[j] \div (d * d * d)]
Cubic(d, i) == 3 * d * i * i - 2 * i * i * i
CubicStep(d, i) == IF i < 1 THEN 0 ELSE 6 * d * i - 3 * d - 6 * i * i + 6 * i - 2

LEMMA CubicSteps ==
    ASSUME NEW d \in Nat \ {0}, NEW i \in 1..d
    PROVE  /\ Cubic(d, i) - Cubic(d, i - 1) = CubicStep(d, i)
           /\ CubicStep(d, i) >= 0 /\ 2 * CubicStep(d, i) <= 3 * d * d
           /\ CubicStep(d, i) - CubicStep(d, i - 1) <= 6 * d
           /\ CubicStep(d, i) - CubicStep(d, i - 1) >= -(6 * d)
<1>1. i \in Nat /\ i >= 1 /\ i <= d /\ i - 1 \in Nat /\ d - i \in Nat
  OBVIOUS
<1>2. CubicStep(d, i) = 6 * d * i - 3 * d - 6 * i * i + 6 * i - 2
  BY <1>1 DEF CubicStep
<1>3. Cubic(d, i) - Cubic(d, i - 1) = CubicStep(d, i)
  BY <1>1, <1>2 DEF Cubic
<1>4. CubicStep(d, i) >= 0
  <2>1. (i - 1) * (d - i) >= 0
    BY <1>1
  <2>2. CubicStep(d, i) = 6 * ((i - 1) * (d - i)) + 3 * d - 2
    BY <1>1, <1>2
  <2>3. (i - 1) * (d - i) \in Int
    BY <1>1
  <2> QED
    BY <2>1, <2>2, <2>3
<1>5. 2 * CubicStep(d, i) <= 3 * d * d
  <2> DEFINE e == d - 2 * i + 1
  <2>1. 3 * d * d - 2 * CubicStep(d, i) = 3 * (e * e) + 1
    BY <1>1, <1>2
  <2>2. e * e >= 0 /\ e * e \in Int
    BY <1>1
  <2>3. 3 * d * d \in Int /\ CubicStep(d, i) \in Int
    BY <1>1, <1>2
  <2> HIDE DEF e
  <2> QED
    BY <2>1, <2>2, <2>3
<1>6. /\ CubicStep(d, i) - CubicStep(d, i - 1) <= 6 * d
      /\ CubicStep(d, i) - CubicStep(d, i - 1) >= -(6 * d)
  <2>1. CASE i = 1
    BY <1>2, <2>1 DEF CubicStep
  <2>2. CASE i > 1
    <3>1. CubicStep(d, i) - CubicStep(d, i - 1) = 6 * d - 12 * (i - 1)
      BY <1>1, <1>2, <2>2 DEF CubicStep
    <3> QED
      BY <1>1, <3>1
  <2> QED
    BY <1>1, <2>1, <2>2
<1> QED
  BY <1>3, <1>4, <1>5, <1>6

\* Multiples that are bounded are within what the greatest of them is.
LEMMA Scaled ==
    ASSUME NEW u \in Int, NEW w \in Int, NEW m \in Nat, w <= m, w >= -m
    PROVE  Abs(u) \in Nat /\ u * w \in Int /\ Abs(u * w) <= Abs(u) * m
<1>1. CASE u >= 0
  <2>1. u * (m - w) >= 0 /\ u * (m + w) >= 0
    BY <1>1
  <2>2. u * (m - w) = u * m - u * w /\ u * (m + w) = u * m + u * w
    OBVIOUS
  <2>3. u * m \in Int /\ u * w \in Int
    OBVIOUS
  <2> QED
    BY <1>1, <2>1, <2>2, <2>3 DEF Abs
<1>2. CASE u < 0
  <2>1. (-u) * (m - w) >= 0 /\ (-u) * (m + w) >= 0
    BY <1>2
  <2>2. (-u) * (m - w) = (-u) * m + u * w /\ (-u) * (m + w) = (-u) * m - u * w
    OBVIOUS
  <2>3. (-u) * m \in Int /\ u * w \in Int
    OBVIOUS
  <2> QED
    BY <1>2, <2>1, <2>2, <2>3 DEF Abs
<1> QED
  BY <1>1, <1>2

\* What the profile allows bounds the unit of every joint.
LEMMA UnitBounded ==
    ASSUME NEW start \in [Joints -> Int], NEW target \in [Joints -> Int],
           NEW profile \in [duration : Nat \ {0}, velocity : Int, acceleration : Int],
           WholeCubic(start, target, profile), ProfileAllows(start, target, profile),
           NEW j \in Joints
    PROVE  LET d == profile.duration
               u == Unit(start, target, d) IN
           /\ u[j] \in Int
           /\ 3 * (Abs(u[j]) * (d * d)) <= 2 * profile.velocity
           /\ 6 * (Abs(u[j]) * d) <= profile.acceleration
<1> DEFINE d == profile.duration
           v == profile.velocity
           a == profile.acceleration
           way == Difference(target, start)
           largest == Largest(way)
           u == way[j] \div (d * d * d)
           g == Abs(u)
<1>1. d \in Nat \ {0} /\ v \in Int /\ a \in Int
  OBVIOUS
<1>2. way \in [Joints -> Int]
  BY NonFiniteAssumption DEF Difference
<1>3. largest \in Nat /\ Abs(way[j]) <= largest /\ way[j] \in Int
  BY <1>2, LargestIs
<1>4. 3 * largest <= 2 * d * v /\ 6 * largest <= d * d * a
  BY <1>1, NonFiniteAssumption DEF ProfileAllows
<1>5. way[j] % (d * d * d) = 0
  BY DEF WholeCubic
<1>6. Unit(start, target, d)[j] = u
  BY DEF Unit
<1> HIDE DEF way, largest, d, v, a
<1> DEFINE q == d * d * d
<1>7. q \in Nat \ {0}
  <2>1. d * d \in Nat \ {0}
    BY <1>1
  <2> QED
    BY <1>1, <2>1
<1> HIDE DEF q
<1>8. u \in Int /\ way[j] = q * u
  BY <1>3, <1>5, <1>7 DEF q
<1> HIDE DEF u
<1>9. g \in Nat /\ g * q <= largest
  <2>1. g \in Nat
    BY <1>8 DEF Abs
  <2>2. CASE u >= 0
    <3>1. q * u >= 0
      BY <1>7, <1>8, <2>2
    <3> QED
      BY <1>3, <1>7, <1>8, <2>1, <2>2, <3>1 DEF Abs
  <2>3. CASE u < 0
    <3>1. q * u < 0 /\ -(q * u) = (-u) * q
      BY <1>7, <1>8, <2>3
    <3> QED
      BY <1>3, <1>7, <1>8, <2>1, <2>3, <3>1 DEF Abs
  <2> QED
    BY <1>8, <2>1, <2>2, <2>3
<1> HIDE DEF g
<1>10. 3 * (g * (d * d)) <= 2 * v
  <2> DEFINE x == g * (d * d)
  <2>1. x \in Nat /\ g * q = d * x
    BY <1>1, <1>9 DEF q
  <2> HIDE DEF x
  <2>2. d * (3 * x) <= d * (2 * v)
    BY <1>1, <1>3, <1>4, <1>9, <2>1
  <2> QED
    BY <1>1, <2>1, <2>2 DEF x
<1>11. 6 * (g * d) <= a
  <2> DEFINE x == g * d
             s == d * d
  <2>1. x \in Nat /\ g * q = s * x /\ s \in Nat \ {0}
    BY <1>1, <1>9 DEF q
  <2>2. 6 * largest <= s * a
    BY <1>4
  <2> HIDE DEF x, s
  <2>3. s * (6 * x) <= s * a
    BY <1>1, <1>3, <1>9, <2>1, <2>2
  <2> QED
    BY <1>1, <2>1, <2>3 DEF x
<1> QED
  BY <1>6, <1>8, <1>10, <1>11 DEF d, v, a, u, g

\* What the validator derives from the sampled points.
LEMMA UnitIsInteger ==
    ASSUME NEW start \in [Joints -> Int], NEW target \in [Joints -> Int], NEW d \in Nat \ {0}
    PROVE  Unit(start, target, d) \in [Joints -> Int]
<1> DEFINE q == d * d * d
<1>1. q \in Nat \ {0}
  <2>1. d * d \in Nat \ {0}
    OBVIOUS
  <2> QED
    BY <2>1
<1> HIDE DEF q
<1>2. \A j \in Joints : Difference(target, start)[j] \in Int
  BY NonFiniteAssumption DEF Difference
<1>3. \A j \in Joints : Difference(target, start)[j] \div q \in Int
  BY <1>1, <1>2
<1> QED
  BY <1>3 DEF Unit, q

\* The velocity of the step to point k, and how it changes there.
StepVelocity(u, d, k) == [j \in Joints |-> <<u[j] * CubicStep(d, k - 1), 1>>]
StepChange(u, d, k) ==
    [j \in Joints |-> <<u[j] * (CubicStep(d, k - 1) - CubicStep(d, k - 2)), 1>>]

LEMMA GeneratedSteps ==
    ASSUME NEW start \in [Joints -> Int], NEW target \in [Joints -> Int],
           NEW profile \in [duration : Nat \ {0}, velocity : Int, acceleration : Int],
           NEW k \in 1..(profile.duration + 1)
    PROVE  LET d == profile.duration
               u == Unit(start, target, d)
               all == Generate(start, target, profile) IN
           /\ VelocityAt(all, start, k) = StepVelocity(u, d, k)
           /\ AccelerationAt(all, start, k) = StepChange(u, d, k)
<1> DEFINE d == profile.duration
           u == Unit(start, target, d)
           all == Generate(start, target, profile)
<1>1. d \in Nat \ {0} /\ u \in [Joints -> Int]
  BY UnitIsInteger
<1>2. ASSUME NEW i \in 1..(d + 1)
      PROVE  /\ all[i].position = [j \in Joints |-> start[j] + u[j] * Cubic(d, i - 1)]
             /\ all[i].time = i - 1
  BY DEF Generate, Unit, Cubic
<1> HIDE DEF d, u, all
<1>3. k \in 1..(d + 1)
  BY DEF d
<1>4. \A i \in 0..d : Cubic(d, i) \in Int /\ CubicStep(d, i) \in Int
  BY <1>1 DEF Cubic, CubicStep
<1>5. \A i \in {-1, 0} : CubicStep(d, i) = 0
  BY DEF CubicStep
<1>6. Interval(all, 1) = 0 /\ VelocityAt(all, start, 1) = Still /\ Still = StepVelocity(u, d, 1)
  <2>1. all[1].time = 0 /\ all[1].position = start
    <3>1. Cubic(d, 0) = 0
      BY <1>1 DEF Cubic
    <3>2. 1 \in 1..(d + 1) /\ 1 - 1 = 0
      BY <1>1
    <3>3. \A j \in Joints : start[j] + u[j] * 0 = start[j]
      BY <1>1
    <3> QED
      BY <1>2, <3>1, <3>2, <3>3
  <2>2. Interval(all, 1) = 0
    BY <2>1 DEF Interval, TimeAt
  <2>3. \A j \in Joints : Delta(all, start, 1)[j] = 0
    BY <2>1, NonFiniteAssumption DEF Delta, PositionAt, Difference
  <2>4. VelocityAt(all, start, 1) = Still
    BY <2>2, <2>3 DEF VelocityAt, DerivedVelocity
  <2>5. \A j \in Joints : u[j] * CubicStep(d, 1 - 1) = 0
    BY <1>1, <1>5
  <2> QED
    BY <2>2, <2>4, <2>5 DEF Still, StepVelocity
<1>7. CASE k = 1
  <2>1. AccelerationAt(all, start, 1) = Still
    <3>1. VelocityAt(all, start, 0) = Still
      BY DEF VelocityAt
    <3> QED
      BY <1>6, <3>1, NonFiniteAssumption
         DEF AccelerationAt, DerivedAcceleration, Still, FiniteRatio
  <2>2. \A j \in Joints : u[j] * (CubicStep(d, k - 1) - CubicStep(d, k - 2)) = 0
    BY <1>1, <1>5, <1>7
  <2>3. Still = StepChange(u, d, k)
    BY <2>2 DEF Still, StepChange
  <2> QED
    BY <1>6, <1>7, <2>1, <2>3 DEF d, u, all
<1>8. CASE k > 1
  <2>1. ASSUME NEW i \in 2..(d + 1)
        PROVE  /\ Interval(all, i) = 1
               /\ VelocityAt(all, start, i) = StepVelocity(u, d, i)
    <3>1. i \in 1..(d + 1) /\ i - 1 \in 1..(d + 1) /\ i # 0 /\ i - 1 # 0 /\ i - 1 \in 1..d
          /\ (i - 1) - 1 \in 0..d /\ i - 1 \in 0..d
      BY <1>1
    <3>2. Interval(all, i) = 1
      <4>1. all[i].time = i - 1 /\ all[i - 1].time = (i - 1) - 1
        BY <1>2, <3>1
      <4> QED
        BY <3>1, <4>1 DEF Interval, TimeAt
    <3>3. Cubic(d, i - 1) - Cubic(d, (i - 1) - 1) = CubicStep(d, i - 1)
      BY <1>1, <3>1, CubicSteps
    <3>4. ASSUME NEW j \in Joints
          PROVE  /\ all[i].position[j] \in Int /\ all[i - 1].position[j] \in Int
                 /\ all[i].position[j] - all[i - 1].position[j] = u[j] * CubicStep(d, i - 1)
      <4>1. /\ all[i].position[j] = start[j] + u[j] * Cubic(d, i - 1)
            /\ all[i - 1].position[j] = start[j] + u[j] * Cubic(d, (i - 1) - 1)
        BY <1>2, <3>1, ZenonT(30)
      <4>2. /\ Cubic(d, i - 1) \in Int /\ Cubic(d, (i - 1) - 1) \in Int
            /\ u[j] \in Int /\ start[j] \in Int
        BY <1>1, <1>4, <3>1
      <4>3. u[j] * Cubic(d, i - 1) - u[j] * Cubic(d, (i - 1) - 1)
              = u[j] * (Cubic(d, i - 1) - Cubic(d, (i - 1) - 1))
        BY <4>2, SMTT(30)
      <4>4. u[j] * Cubic(d, i - 1) \in Int /\ u[j] * Cubic(d, (i - 1) - 1) \in Int
        BY <4>2
      <4> QED
        BY <3>3, <4>1, <4>2, <4>3, <4>4
    <3>5. \A j \in Joints : Delta(all, start, i)[j] = u[j] * CubicStep(d, i - 1)
      BY <3>1, <3>4, NonFiniteAssumption DEF Delta, PositionAt, Difference
    <3> QED
      BY <3>1, <3>2, <3>5 DEF VelocityAt, DerivedVelocity, StepVelocity
  <2>2. VelocityAt(all, start, k - 1) = StepVelocity(u, d, k - 1)
    <3>1. CASE k - 1 = 1
      BY <1>6, <3>1
    <3>2. CASE k - 1 > 1
      <4>1. k - 1 \in 2..(d + 1)
        BY <1>1, <1>3, <3>2
      <4> QED
        BY <2>1, <4>1
    <3> QED
      BY <1>3, <1>8, <3>1, <3>2
  <2>3. k \in 2..(d + 1) /\ k - 1 \in 0..d /\ k - 2 \in 0..d /\ (k - 1) - 1 = k - 2
    BY <1>1, <1>3, <1>8
  <2>4. Interval(all, k) = 1 /\ VelocityAt(all, start, k) = StepVelocity(u, d, k)
    BY <2>1, <2>3
  <2>5. ASSUME NEW j \in Joints
        PROVE  /\ StepVelocity(u, d, k)[j] = <<u[j] * CubicStep(d, k - 1), 1>>
               /\ StepVelocity(u, d, k - 1)[j] = <<u[j] * CubicStep(d, k - 2), 1>>
               /\ u[j] * CubicStep(d, k - 1) \in Int /\ u[j] * CubicStep(d, k - 2) \in Int
               /\ (u[j] * CubicStep(d, k - 1)) * 1 - (u[j] * CubicStep(d, k - 2)) * 1
                    = u[j] * (CubicStep(d, k - 1) - CubicStep(d, k - 2))
    <3>1. u[j] \in Int /\ CubicStep(d, k - 1) \in Int /\ CubicStep(d, k - 2) \in Int
      BY <1>1, <1>4, <2>3
    <3>2. /\ StepVelocity(u, d, k)[j] = <<u[j] * CubicStep(d, k - 1), 1>>
          /\ StepVelocity(u, d, k - 1)[j] = <<u[j] * CubicStep(d, k - 2), 1>>
      BY <2>3 DEF StepVelocity
    <3> QED
      BY <3>1, <3>2
  <2>6. AccelerationAt(all, start, k) = StepChange(u, d, k)
    <3> DEFINE x == StepVelocity(u, d, k)
               y == StepVelocity(u, d, k - 1)
    <3>1. AccelerationAt(all, start, k) = DerivedAcceleration(x, y, 1)
      BY <2>2, <2>4 DEF AccelerationAt
    <3>2. \A j \in Joints : x[j][1] \in Int /\ y[j][1] \in Int /\ x[j][2] = 1 /\ y[j][2] = 1
      BY <2>5
    <3>3. \A j \in Joints : FiniteRatio(x[j]) /\ FiniteRatio(y[j])
      BY <3>2, NonFiniteAssumption DEF FiniteRatio
    <3>4. \A j \in Joints : x[j][1] * y[j][2] - y[j][1] * x[j][2]
                              = u[j] * (CubicStep(d, k - 1) - CubicStep(d, k - 2))
      BY <2>5
    <3> HIDE DEF x, y
    <3>5. DerivedAcceleration(x, y, 1) =
            [j \in Joints |-> <<x[j][1] * y[j][2] - y[j][1] * x[j][2], x[j][2] * y[j][2] * 1>>]
      BY <3>3 DEF DerivedAcceleration
    <3> QED
      BY <3>1, <3>2, <3>4, <3>5 DEF StepChange
  <2> QED
    BY <2>4, <2>6 DEF d, u, all
<1> QED
  BY <1>3, <1>7, <1>8

\* No violation where every joint is within its limit.
LEMMA WithinLimits ==
    ASSUME NEW x \in [Joints -> Int], NEW ratios, NEW limit \in [Joints -> Nat], NEW type,
           \A j \in Joints : ratios[j] = <<x[j], 1>> /\ Abs(x[j]) <= limit[j]
    PROVE  DerivativeViolations(ratios, limit, type) = {}
<1>1. ASSUME NEW j \in Joints
      PROVE  FiniteRatio(ratios[j]) /\ ~(Abs(ratios[j][1]) > limit[j] * ratios[j][2])
  <2>1. ratios[j][1] = x[j] /\ ratios[j][2] = 1 /\ x[j] \in Int /\ limit[j] \in Nat
    OBVIOUS
  <2>2. FiniteRatio(ratios[j])
    BY <2>1, NonFiniteAssumption DEF FiniteRatio
  <2>3. Abs(x[j]) \in Int /\ limit[j] * 1 = limit[j]
    BY <2>1 DEF Abs
  <2> QED
    BY <2>1, <2>2, <2>3
<1> QED
  BY <1>1 DEF DerivativeViolations

\* A motion of a profile within the policy is within it at every sample, as it is
\* sampled and as the validator derives it.
LEMMA GeneratedKeepsLimits ==
    ASSUME NEW start \in [Joints -> Int], NEW target \in [Joints -> Int],
           NEW profile \in [duration : Nat \ {0}, velocity : Int, acceleration : Int],
           WholeCubic(start, target, profile), ProfileAllows(start, target, profile),
           \A j \in Joints : /\ profile.velocity <= MaxVelocity[j]
                             /\ profile.acceleration <= MaxAcceleration[j],
           NEW k \in 1..(profile.duration + 1)
    PROVE  LET all == Generate(start, target, profile)
               point == all[k] IN
           /\ Finite(point.position)
           /\ DerivativeViolations(AsRatios(point.velocity), MaxVelocity, "joint_velocity") = {}
           /\ DerivativeViolations(VelocityAt(all, start, k), MaxVelocity, "joint_velocity") = {}
           /\ DerivativeViolations(AsRatios(point.acceleration), MaxAcceleration,
                                   "joint_acceleration") = {}
           /\ DerivativeViolations(AccelerationAt(all, start, k), MaxAcceleration,
                                   "joint_acceleration") = {}
<1> DEFINE d == profile.duration
           v == profile.velocity
           a == profile.acceleration
           u == Unit(start, target, d)
           all == Generate(start, target, profile)
           point == all[k]
           i == k - 1
<1>1. d \in Nat \ {0} /\ u \in [Joints -> Int] /\ v \in Int /\ a \in Int /\ i \in 0..d
  BY UnitIsInteger
<1>2. /\ point.position = [j \in Joints |-> start[j] + u[j] * Cubic(d, i)]
      /\ point.velocity = [j \in Joints |-> u[j] * (6 * i * (d - i))]
      /\ point.acceleration = [j \in Joints |-> u[j] * (6 * d - 12 * i)]
  BY DEF Generate, Unit, Cubic
<1>3. /\ VelocityAt(all, start, k) = [j \in Joints |-> <<u[j] * CubicStep(d, i), 1>>]
      /\ AccelerationAt(all, start, k) =
           [j \in Joints |-> <<u[j] * (CubicStep(d, i) - CubicStep(d, k - 2)), 1>>]
  <2>1. /\ VelocityAt(all, start, k) = StepVelocity(u, d, k)
        /\ AccelerationAt(all, start, k) = StepChange(u, d, k)
    BY GeneratedSteps
  <2> QED
    BY <2>1 DEF StepVelocity, StepChange
<1>4. \A j \in Joints : /\ 3 * (Abs(u[j]) * (d * d)) <= 2 * v
                        /\ 6 * (Abs(u[j]) * d) <= a
  BY UnitBounded
<1>5. \A j \in Joints : /\ MaxVelocity[j] \in Nat /\ MaxAcceleration[j] \in Nat
                        /\ v <= MaxVelocity[j] /\ a <= MaxAcceleration[j]
  BY PolicyAssumption
<1>6. k - 2 = i - 1
  OBVIOUS
<1> HIDE DEF d, v, a, u, all, point, i
\* A multiple of the unit that is at most 3/2 d^2, or at most 6 d.
<1>7. ASSUME NEW w \in Nat, 2 * w <= 3 * d * d, NEW j \in Joints
      PROVE  u[j] * w \in Int /\ Abs(u[j] * w) <= MaxVelocity[j]
  <2> DEFINE g == Abs(u[j])
             s == d * d
  <2>1. u[j] \in Int /\ w \in Int /\ -w <= w
    BY <1>1
  <2>2. g \in Nat /\ u[j] * w \in Int /\ Abs(u[j] * w) <= g * w
    BY <2>1, Scaled
  <2>3. s \in Nat /\ 2 * w <= 3 * s
    BY <1>1, <1>7
  <2>4. 3 * (g * s) <= 2 * v /\ v <= MaxVelocity[j] /\ MaxVelocity[j] \in Nat
    BY <1>4, <1>5
  <2>5. Abs(u[j] * w) \in Int
    BY <2>2 DEF Abs
  <2> HIDE DEF g, s
  <2>6. g * (3 * s - 2 * w) >= 0
    BY <2>2, <2>3
  <2>7. g * (3 * s - 2 * w) = 3 * (g * s) - 2 * (g * w) /\ g * s \in Int /\ g * w \in Int
    BY <2>2, <2>3
  <2> QED
    BY <1>1, <2>2, <2>4, <2>5, <2>6, <2>7
<1>8. ASSUME NEW w \in Int, w <= 6 * d, w >= -(6 * d), NEW j \in Joints
      PROVE  u[j] * w \in Int /\ Abs(u[j] * w) <= MaxAcceleration[j]
  <2> DEFINE g == Abs(u[j])
  <2>1. u[j] \in Int /\ 6 * d \in Nat
    BY <1>1
  <2>2. g \in Nat /\ u[j] * w \in Int /\ Abs(u[j] * w) <= g * (6 * d)
    BY <1>8, <2>1, Scaled
  <2>3. 6 * (g * d) <= a /\ a <= MaxAcceleration[j] /\ MaxAcceleration[j] \in Nat
    BY <1>4, <1>5
  <2>4. Abs(u[j] * w) \in Int
    BY <2>2 DEF Abs
  <2> HIDE DEF g
  <2>5. g * (6 * d) = 6 * (g * d) /\ g * d \in Int
    BY <1>1, <2>2
  <2> QED
    BY <1>1, <2>2, <2>3, <2>4, <2>5
<1>9. Finite(point.position)
  <2>1. Cubic(d, i) \in Int
    BY <1>1 DEF Cubic
  <2>2. \A j \in Joints : u[j] * Cubic(d, i) \in Int
    BY <1>1, <2>1
  <2>3. \A j \in Joints : start[j] + u[j] * Cubic(d, i) \in Int
    BY <2>2
  <2> QED
    BY <1>2, <2>3, NonFiniteAssumption DEF Finite, ToSet
<1>10. DerivativeViolations(AsRatios(point.velocity), MaxVelocity, "joint_velocity") = {}
  <2> DEFINE w == 6 * i * (d - i)
             x == [j \in Joints |-> u[j] * w]
  <2>1. w \in Nat /\ 2 * w <= 3 * d * d
    <3> DEFINE e == d - 2 * i
    <3>1. i \in Nat /\ d - i \in Nat /\ i * (d - i) \in Nat
      BY <1>1
    <3>2. 3 * d * d - 2 * w = 3 * (e * e)
      BY <1>1
    <3>3. e * e >= 0 /\ e * e \in Int /\ 3 * d * d \in Int
      BY <1>1
    <3>4. w = 6 * (i * (d - i))
      BY <1>1
    <3> HIDE DEF e, w
    <3> QED
      BY <3>1, <3>2, <3>3, <3>4
  <2>2. \A j \in Joints : AsRatios(point.velocity)[j] = <<x[j], 1>>
    BY <1>2 DEF AsRatios
  <2> HIDE DEF w
  <2>3. \A j \in Joints : u[j] * w \in Int /\ Abs(u[j] * w) <= MaxVelocity[j]
    BY <1>7, <2>1
  <2>4. x \in [Joints -> Int] /\ \A j \in Joints : Abs(x[j]) <= MaxVelocity[j]
    BY <2>3
  <2> HIDE DEF x
  <2> QED
    BY <2>2, <2>4, WithinLimits, PolicyAssumption
<1>11. DerivativeViolations(VelocityAt(all, start, k), MaxVelocity, "joint_velocity") = {}
  <2> DEFINE w == CubicStep(d, i)
             x == [j \in Joints |-> u[j] * w]
  <2>1. w \in Nat /\ 2 * w <= 3 * d * d
    <3>1. CASE i = 0
      BY <1>1, <3>1 DEF CubicStep
    <3>2. CASE i > 0
      <4>1. i \in 1..d
        BY <1>1, <3>2
      <4>2. w \in Int
        BY <1>1 DEF CubicStep
      <4> QED
        BY <1>1, <4>1, <4>2, CubicSteps
    <3> QED
      BY <1>1, <3>1, <3>2
  <2>2. \A j \in Joints : VelocityAt(all, start, k)[j] = <<x[j], 1>>
    BY <1>3
  <2> HIDE DEF w
  <2>3. \A j \in Joints : u[j] * w \in Int /\ Abs(u[j] * w) <= MaxVelocity[j]
    BY <1>7, <2>1
  <2>4. x \in [Joints -> Int] /\ \A j \in Joints : Abs(x[j]) <= MaxVelocity[j]
    BY <2>3
  <2> HIDE DEF x
  <2> QED
    BY <2>2, <2>4, WithinLimits, PolicyAssumption
<1>12. DerivativeViolations(AsRatios(point.acceleration), MaxAcceleration,
                            "joint_acceleration") = {}
  <2> DEFINE w == 6 * d - 12 * i
             x == [j \in Joints |-> u[j] * w]
  <2>1. w \in Int /\ w <= 6 * d /\ w >= -(6 * d)
    BY <1>1
  <2>2. \A j \in Joints : AsRatios(point.acceleration)[j] = <<x[j], 1>>
    BY <1>2 DEF AsRatios
  <2> HIDE DEF w
  <2>3. \A j \in Joints : u[j] * w \in Int /\ Abs(u[j] * w) <= MaxAcceleration[j]
    BY <1>8, <2>1
  <2>4. x \in [Joints -> Int] /\ \A j \in Joints : Abs(x[j]) <= MaxAcceleration[j]
    BY <2>3
  <2> HIDE DEF x
  <2> QED
    BY <2>2, <2>4, WithinLimits, PolicyAssumption
<1>13. DerivativeViolations(AccelerationAt(all, start, k), MaxAcceleration,
                            "joint_acceleration") = {}
  <2> DEFINE w == CubicStep(d, i) - CubicStep(d, k - 2)
             x == [j \in Joints |-> u[j] * w]
  <2>1. w \in Int /\ w <= 6 * d /\ w >= -(6 * d)
    <3>1. CASE i = 0
      BY <1>1, <1>6, <3>1 DEF CubicStep
    <3>2. CASE i > 0
      <4>1. i \in 1..d
        BY <1>1, <3>2
      <4>2. w \in Int
        BY <1>1, <1>6 DEF CubicStep
      <4> QED
        BY <1>1, <1>6, <4>1, <4>2, CubicSteps
    <3> QED
      BY <1>1, <3>1, <3>2
  <2>2. \A j \in Joints : AccelerationAt(all, start, k)[j] = <<x[j], 1>>
    BY <1>3
  <2> HIDE DEF w
  <2>3. \A j \in Joints : u[j] * w \in Int /\ Abs(u[j] * w) <= MaxAcceleration[j]
    BY <1>8, <2>1
  <2>4. x \in [Joints -> Int] /\ \A j \in Joints : Abs(x[j]) <= MaxAcceleration[j]
    BY <2>3
  <2> HIDE DEF x
  <2> QED
    BY <2>2, <2>4, WithinLimits, PolicyAssumption
<1> QED
  BY <1>9, <1>10, <1>11, <1>12, <1>13 DEF point, all

\* What other violations there are.
LEMMA OtherViolations ==
    ASSUME NEW from, NEW to, NEW delta
    PROVE  /\ SegmentViolations(from, to) \subseteq {"workspace", "singularity"}
           /\ PositionViolations(to, delta) \subseteq {"joint_limit", "joint_step"}
<1>1. \A sample, n : SampleViolations(sample, n) \subseteq {"workspace", "singularity"}
  BY DEF SampleViolations
<1>2. SegmentViolations(from, to) \subseteq {"workspace", "singularity"}
  BY <1>1 DEF SegmentViolations
<1>3. PositionViolations(to, delta) \subseteq {"joint_limit", "joint_step"}
  BY DEF PositionViolations
<1> QED
  BY <1>2, <1>3

\* PointToPointTrajectoryGenerator and TrajectoryValidator agree: no generated
\* motion whose profile asks for no more than the policy allows is refused for its
\* velocities, accelerations or times, whatever its length and its duration.
THEOREM GeneratedPasses == CommissioningSpec => []GeneratedIsSmooth
<1> DEFINE Rough == {"joint_velocity", "joint_acceleration", "non_finite_value",
                     "trajectory_time"}
<1>1. MotionInv => GeneratedIsSmooth
  <2> SUFFICES ASSUME MotionInv, request.kind = "move", stage = "refused",
                      request.profile.velocity # NonFinite,
                      request.profile.acceleration # NonFinite,
                      \A j \in Joints : /\ ~(request.profile.velocity > MaxVelocity[j])
                                        /\ ~(request.profile.acceleration > MaxAcceleration[j])
               PROVE  verdict.types \cap Rough = {}
    BY DEF GeneratedIsSmooth
  <2> DEFINE p == request.profile
             d == p.duration
  <2>1. /\ measured \in [Joints -> Int] /\ request.target \in [Joints -> Int]
        /\ p \in [duration : Nat \ {0}, velocity : Numbers, acceleration : Numbers]
        /\ WholeCubic(measured, request.target, p) /\ ProfileAllows(measured, request.target, p)
        /\ points = Generate(measured, request.target, p)
    BY StatesAssumption, RequestsAssumption DEF MotionInv, SourceInv
  <2>2. p \in [duration : Nat \ {0}, velocity : Int, acceleration : Int]
    BY <2>1 DEF Numbers
  <2>3. \A j \in Joints : p.velocity <= MaxVelocity[j] /\ p.acceleration <= MaxAcceleration[j]
    BY <2>2, PolicyAssumption
  <2>4. DOMAIN points = 1..(d + 1)
    BY <2>1 DEF Generate
  <2>5. ASSUME NEW k \in DOMAIN points
        PROVE  PointViolations(points, measured, k) \cap Rough = {}
    <3>1. k \in 1..(p.duration + 1)
      BY <2>4
    <3>2. /\ Finite(points[k].position)
          /\ DerivativeViolations(AsRatios(points[k].velocity), MaxVelocity, "joint_velocity") = {}
          /\ DerivativeViolations(VelocityAt(points, measured, k), MaxVelocity,
                                  "joint_velocity") = {}
          /\ DerivativeViolations(AsRatios(points[k].acceleration), MaxAcceleration,
                                  "joint_acceleration") = {}
          /\ DerivativeViolations(AccelerationAt(points, measured, k), MaxAcceleration,
                                  "joint_acceleration") = {}
      BY <2>1, <2>2, <2>3, <3>1, GeneratedKeepsLimits
    <3>3. PointViolations(points, measured, k) \subseteq
            PositionViolations(points[k].position, Delta(points, measured, k)) \cup
            SegmentViolations(PositionAt(points, measured, k - 1), points[k].position)
      BY <3>2 DEF PointViolations
    <3> QED
      BY <3>3, OtherViolations
  <2>6. verdict = Validate(JointNames, points, measured, age)
    BY DEF MotionInv, OutcomeInv
  <2> DEFINE all == UNION {PointViolations(points, measured, k) : k \in DOMAIN points}
  <2>7. \E stale \in SUBSET {"stale_state"} : \/ verdict.types = stale \cup {"trajectory_budget"}
                                             \/ verdict.types = stale \cup all
    BY <2>6 DEF Validate
  <2>8. all \cap Rough = {}
    BY <2>5
  <2> HIDE DEF all
  <2> QED
    BY <2>7, <2>8
<1> QED
  BY <1>1, MotionInvariant, PTL

-----------------------------------------------------------------------------
(* How a goal is watched.                                                  *)

\* The numbers in what the goal says of its tolerances, once they passed.
Entries == [name : STRING, position : Numbers, derivative : BOOLEAN]

Distinct(entries) ==
    \A i \in DOMAIN entries :
        /\ entries[i].position \in Int /\ entries[i].position >= -1
        /\ \A k \in 1..(i - 1) : entries[k].name # entries[i].name

LEMMA CheckedEntries ==
    ASSUME NEW entries \in Seq(Entries), ToleranceError(entries) = "none"
    PROVE  Distinct(entries)
<1> DEFINE wrong == {i \in DOMAIN entries : EntryError(entries, i) # "none"}
<1>1. wrong = {}
  <2> SUFFICES ASSUME wrong # {} PROVE FALSE
    OBVIOUS
  <2>1. wrong \in SUBSET Nat
    OBVIOUS
  <2>2. Min(wrong) \in wrong
    BY <2>1, LeastNatural
  <2>3. ToleranceError(entries) = EntryError(entries, Min(wrong))
    BY DEF ToleranceError
  <2> QED
    BY <2>2, <2>3
<1>2. ASSUME NEW i \in DOMAIN entries
      PROVE  /\ entries[i].position \in Int /\ entries[i].position >= -1
             /\ \A k \in 1..(i - 1) : entries[k].name # entries[i].name
  <2>1. EntryError(entries, i) = "none"
    BY <1>1
  <2>2. /\ entries[i].position # NonFinite /\ ~(entries[i].position < -1)
        /\ ~(\E k \in 1..(i - 1) : entries[k].name = entries[i].name)
    BY <2>1 DEF EntryError
  <2>3. entries[i] \in Entries
    OBVIOUS
  <2>4. entries[i].position \in Numbers
    BY <2>3 DEF Entries
  <2> QED
    BY <2>2, <2>4 DEF Numbers
<1> QED
  BY <1>2 DEF Distinct

\* Of an accepted goal every tolerance was checked, of the path and of the goal.
LEMMA ToleranceEntries ==
    ASSUME NEW goal \in Requests, goal.kind = "goal", ConvertGoal(goal).ok
    PROVE  /\ goal.path \in Seq(Entries) /\ Distinct(goal.path)
           /\ goal.final \in Seq(Entries) /\ Distinct(goal.final)
           /\ ConvertGoal(goal).path = ResolveTolerances(goal.path, DefaultPathTolerance)
           /\ ConvertGoal(goal).final = ResolveTolerances(goal.final, DefaultGoalTolerance)
<1> DEFINE errors == <<StampError(goal.stamp), ToleranceError(goal.path),
                       ToleranceError(goal.final),
                       IF goal.extra < 0 THEN "invalid_goal" ELSE "none">>
           bad == {i \in 1..4 : errors[i] # "none"}
<1>1. GoalError(goal) = "none"
  BY DEF ConvertGoal, Refused
<1>2. LaterError(goal) = "none"
  BY <1>1 DEF GoalError
<1>3. bad = {}
  <2> SUFFICES ASSUME bad # {} PROVE FALSE
    OBVIOUS
  <2>1. bad \in SUBSET Nat
    OBVIOUS
  <2>2. Min(bad) \in bad
    BY <2>1, LeastNatural
  <2>3. LaterError(goal) = errors[Min(bad)]
    BY DEF LaterError
  <2> QED
    BY <1>2, <2>2, <2>3
<1>4. ToleranceError(goal.path) = "none" /\ ToleranceError(goal.final) = "none"
  <2>1. errors[2] = ToleranceError(goal.path) /\ errors[3] = ToleranceError(goal.final)
    OBVIOUS
  <2> QED
    BY <1>3, <2>1
<1>5. goal.path \in Seq(Entries) /\ goal.final \in Seq(Entries)
  BY RequestsAssumption DEF Entries
<1>6. /\ ConvertGoal(goal).path = ResolveTolerances(goal.path, DefaultPathTolerance)
      /\ ConvertGoal(goal).final = ResolveTolerances(goal.final, DefaultGoalTolerance)
  BY <1>1 DEF ConvertGoal
<1> QED
  BY <1>4, <1>5, <1>6, CheckedEntries

\* The tolerance of the goal for a joint, by its name: -1 for none.
ToleranceOf(entries, default, j) ==
    LET given == {entries[i].position : i \in
                    {n \in DOMAIN entries : entries[n].name = JointNames[j]}} IN
    IF given \subseteq {0} THEN default ELSE CHOOSE v \in given : TRUE

LEMMA ToleranceResolved ==
    ASSUME NEW entries \in Seq(Entries), Distinct(entries), NEW default \in Nat,
           NEW j \in Joints
    PROVE  LET tolerance == ToleranceOf(entries, default, j) IN
           /\ tolerance \in Int
           /\ ResolveTolerances(entries, default)[j]
                = IF tolerance = -1 THEN Unbounded ELSE tolerance
<1> DEFINE named == {k \in DOMAIN entries : entries[k].name = JointNames[j]}
           given == {entries[i].position : i \in named}
           resolved == ResolveTolerances(entries, default)[j]
<1>1. DOMAIN entries \subseteq Nat \ {0}
  OBVIOUS
<1>2. \A i \in DOMAIN entries :
         /\ entries[i].position \in Int /\ entries[i].position >= -1
         /\ \A k \in 1..(i - 1) : entries[k].name # entries[i].name
  BY DEF Distinct
<1>3. resolved = IF named = {} THEN default
                 ELSE ResolveOne(entries[CHOOSE k \in named : TRUE].position, default)
  BY DEF ResolveTolerances, Joints
<1>4. ToleranceOf(entries, default, j) = IF given \subseteq {0} THEN default
                                         ELSE CHOOSE v \in given : TRUE
  BY DEF ToleranceOf
<1>5. CASE named = {}
  BY <1>3, <1>4, <1>5
<1>6. CASE named # {}
  <2>1. PICK k \in named : TRUE
    BY <1>6
  <2>2. \A i \in named : i = k
    <3> SUFFICES ASSUME NEW i \in named PROVE i = k
      OBVIOUS
    <3>1. i \in Nat \ {0} /\ k \in Nat \ {0} /\ entries[i].name = entries[k].name
      BY <1>1, <2>1
    <3>2. ~(i < k) /\ ~(k < i)
      BY <1>2, <2>1, <3>1
    <3> QED
      BY <3>1, <3>2
  <2>3. (CHOOSE i \in named : TRUE) = k
    BY <2>1, <2>2
  <2>4. given = {entries[k].position}
    BY <2>1, <2>2
  <2>5. (CHOOSE v \in given : TRUE) = entries[k].position
    BY <2>4
  <2>6. resolved = ResolveOne(entries[k].position, default)
    BY <1>3, <1>6, <2>3
  <2>7. ToleranceOf(entries, default, j) = IF entries[k].position = 0 THEN default
                                           ELSE entries[k].position
    BY <1>4, <2>4, <2>5
  <2>8. entries[k].position \in Int
    BY <1>2, <2>1
  <2> QED
    BY <2>6, <2>7, <2>8 DEF ResolveOne
<1> QED
  BY <1>5, <1>6

NamesOf(joints) == {JointNames[j] : j \in joints}

\* What the driver finds off a waypoint in its own order of joints are the joints
\* that stray in the numbers of the goal.
LEMMA StraysAreFound ==
    ASSUME MotionInv, stage = "admitted", request.kind = "goal",
           NEW actual \in [Joints -> Int], NEW k \in DOMAIN points,
           NEW entries \in Seq(Entries), Distinct(entries), NEW default \in Nat
    PROVE  ViolatedJoints(actual, points[k].position, ResolveTolerances(entries, default))
             = NamesOf(Strays(actual, k, entries, default))
<1> DEFINE resolved == ResolveTolerances(entries, default)
           position == points[k].position
<1>1. /\ request \in Requests /\ accepted.ok /\ accepted = ConvertGoal(request)
      /\ points = accepted.points
  BY DEF MotionInv, SourceInv
<1>2. /\ NamesMatch(request.names)
      /\ points = ConvertPoints(request.points, ReorderIndices(request.names))
  BY <1>1, AcceptedGoal
<1>3. position \in [Joints -> Int]
  BY AdmittedPosition
<1>4. position = Reorder(request.points[k].position, ReorderIndices(request.names))
  BY <1>2 DEF ConvertPoints
<1> HIDE DEF position, resolved
<1>5. ASSUME NEW j \in Joints
      PROVE  j \in Strays(actual, k, entries, default) <=>
               resolved[j] # Unbounded /\ Abs(actual[j] - position[j]) > resolved[j]
  <2> DEFINE tolerance == ToleranceOf(entries, default, j)
             value(i) == request.points[k].position[i]
  <2>1. PICK i \in DOMAIN request.names : request.names[i] = JointNames[j]
    <3>1. JointNames[j] \in ToSet(request.names)
      BY <1>2 DEF NamesMatch, ToSet, Joints
    <3> QED
      BY <3>1 DEF ToSet
  <2>2. \A m \in DOMAIN request.names : request.names[m] = JointNames[j] => m = i
    BY <1>2, <2>1 DEF NamesMatch, IsInjective
  <2>3. position[j] = value(i)
    <3>1. IndexIn(request.names, JointNames[j]) = i
      BY <2>1, <2>2 DEF IndexIn
    <3>2. /\ ReorderIndices(request.names)[j] = i
          /\ j \in DOMAIN ReorderIndices(request.names)
      BY <3>1 DEF ReorderIndices, Joints
    <3> QED
      BY <1>4, <3>2 DEF Reorder
  <2>4. /\ tolerance \in Int
        /\ resolved[j] = IF tolerance = -1 THEN Unbounded ELSE tolerance
    BY ToleranceResolved DEF resolved
  <2>5. j \in Strays(actual, k, entries, default) <=>
          /\ tolerance # -1
          /\ \E m \in DOMAIN request.names :
                request.names[m] = JointNames[j] /\ Abs(actual[j] - value(m)) > tolerance
    BY DEF Strays, ToleranceOf
  <2> HIDE DEF tolerance, value
  <2>6. j \in Strays(actual, k, entries, default) <=>
          tolerance # -1 /\ Abs(actual[j] - value(i)) > tolerance
    BY <2>1, <2>2, <2>5
  <2> QED
    BY <2>3, <2>4, <2>6, ConverterAssumption
<1>6. Strays(actual, k, entries, default) \subseteq Joints
  BY DEF Strays
<1>7. ViolatedJoints(actual, position, resolved)
        = {JointNames[j] : j \in {i \in Joints :
             resolved[i] # Unbounded /\ Abs(actual[i] - position[i]) > resolved[i]}}
  BY DEF ViolatedJoints, Joints
<1> QED
  BY <1>5, <1>6, <1>7 DEF position, resolved, NamesOf

\* A goal ends as off its path exactly when a joint was, at some waypoint, further
\* from it than the tolerance the goal gives by name, and otherwise by its last
\* reading and its goal tolerances; for goals of every length, tolerances and
\* joints in every order and everything that may be measured.
THEOREM GoalsAreWatched == CommissioningSpec => []WatchedByName
<1>1. MotionInv => WatchedByName
  <2> DEFINE last == Len(request.points)
             Path(k) == Strays(readings[k], k, request.path, DefaultPathTolerance)
             Final == Strays(readings[last + 1], last, request.final, DefaultGoalTolerance)
             compared == {n \in 1..last : n <= Len(readings)}
             strayed == UNION {Path(k) : k \in compared}
  <2> SUFFICES ASSUME MotionInv, result # "none"
               PROVE  /\ result = "path_violated" <=> strayed # {}
                      /\ violation \subseteq {JointNames[j] : j \in strayed}
                      /\ result # "path_violated" =>
                           Len(readings) = last + 1 /\ (result = "succeeded" <=> Final = {})
    BY Zenon DEF WatchedByName
  <2>1. stage = "admitted" /\ request.kind = "goal" /\ ProgressInv
    BY DEF MotionInv, WatchInv, Unwatched
  <2>2. /\ request \in Requests /\ accepted = ConvertGoal(request) /\ accepted.ok
        /\ points = accepted.points
    BY <2>1 DEF MotionInv, SourceInv
  <2>3. /\ Len(points) = last /\ last \in Nat \ {0} /\ DOMAIN points = 1..last
    <3>1. points = ConvertPoints(request.points, ReorderIndices(request.names))
      BY <2>2, AcceptedGoal
    <3>2. request.points # <<>> /\ request.points \in Seq(ToSet(request.points))
      BY <2>1, <2>2, AcceptedGoal, RequestsAssumption DEF PointsValid
    <3>3. DOMAIN points = 1..last /\ last \in Nat \ {0}
      BY <3>1, <3>2 DEF ConvertPoints
    <3>4. Len(points) \in Nat /\ DOMAIN points = 1..Len(points)
      BY <2>1, PointsShaped DEF MotionInv
    <3> QED
      BY <3>3, <3>4
  <2>4. /\ request.path \in Seq(Entries) /\ Distinct(request.path)
        /\ request.final \in Seq(Entries) /\ Distinct(request.final)
        /\ accepted.path = ResolveTolerances(request.path, DefaultPathTolerance)
        /\ accepted.final = ResolveTolerances(request.final, DefaultGoalTolerance)
        /\ DefaultPathTolerance \in Nat /\ DefaultGoalTolerance \in Nat
    BY <2>1, <2>2, ToleranceEntries, ConverterAssumption
  <2>5. readings \in Seq([Joints -> Int]) /\ Len(readings) \in Nat
    BY <2>1 DEF ProgressInv
  <2> HIDE DEF last
  <2>6. compared = Compared
    BY <2>3, <2>5 DEF Compared
  <2>7. ASSUME NEW k \in compared
        PROVE  OffAt(k) = NamesOf(Path(k))
    <3>1. k \in DOMAIN points /\ readings[k] \in [Joints -> Int]
      BY <2>3, <2>5
    <3>2. ViolatedJoints(readings[k], points[k].position,
                         ResolveTolerances(request.path, DefaultPathTolerance))
            = NamesOf(Strays(readings[k], k, request.path, DefaultPathTolerance))
      BY ONLY MotionInv, <2>1, <2>4, <3>1, StraysAreFound
    <3> QED
      BY <2>4, <3>2 DEF OffAt
  <2>8. Len(readings) = last + 1 => OffAtGoal = NamesOf(Final)
    <3> SUFFICES ASSUME Len(readings) = last + 1
                 PROVE  OffAtGoal = NamesOf(Final)
      OBVIOUS
    <3>1. last \in DOMAIN points /\ readings[last + 1] \in [Joints -> Int]
      BY <2>3, <2>5
    <3>2. ViolatedJoints(readings[last + 1], points[last].position,
                         ResolveTolerances(request.final, DefaultGoalTolerance))
            = NamesOf(Strays(readings[last + 1], last, request.final, DefaultGoalTolerance))
      BY ONLY MotionInv, <2>1, <2>4, <3>1, StraysAreFound
    <3>3. OffAtGoal = ViolatedJoints(readings[last + 1], points[last].position, accepted.final)
      BY <2>3 DEF OffAtGoal
    <3> QED
      BY <2>4, <3>2, <3>3
  <2> HIDE DEF Path, Final, compared
  <2>9. violation = {} <=> strayed = {}
    <3>1. \A k \in compared : OffAt(k) = {} <=> Path(k) = {}
      BY <2>7 DEF NamesOf
    <3>2. strayed = {} <=> \A k \in compared : Path(k) = {}
      OBVIOUS
    <3> QED
      BY <2>1, <2>6, <3>1, <3>2 DEF ProgressInv
  <2>10. violation \subseteq {JointNames[j] : j \in strayed}
    <3> SUFFICES ASSUME NEW name \in violation PROVE \E j \in strayed : name = JointNames[j]
      OBVIOUS
    <3>1. PICK k \in compared : name \in OffAt(k)
      BY <2>1, <2>6 DEF ProgressInv
    <3>2. PICK j \in Path(k) : name = JointNames[j]
      BY <2>7, <3>1 DEF NamesOf
    <3> QED
      BY <3>2
  <2>11. result = "path_violated" <=> violation # {}
    BY <2>1 DEF ProgressInv
  <2>12. result # "path_violated" =>
           Len(readings) = last + 1 /\ (result = "succeeded" <=> OffAtGoal = {})
    BY <2>1, <2>3 DEF ProgressInv
  <2>13. NamesOf(Final) = {} <=> Final = {}
    BY DEF NamesOf
  <2> QED
    BY <2>8, <2>9, <2>10, <2>11, <2>12, <2>13
<1> QED
  BY <1>1, MotionInvariant, PTL
=============================================================================

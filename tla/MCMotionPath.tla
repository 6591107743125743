---------------------------- MODULE MCMotionPath ----------------------------
(* Instances of MotionPath for TLC: three joints, small whole numbers. *)
EXTENDS MotionPath, TLC

Names == <<"a", "b", "c">>
ThreeAxes == 1..3

\* Cells of the first joint no pose may be in: between 0 and 5/2.
InObstacle(s, n) == s[1] > 0 /\ 2 * s[1] < 5 * n
AtElbow(s, n) == s[2] = 2 * n /\ s[3] = 2 * n

PerJoint(v) == [j \in 1..3 |-> v]
MaxV == <<9, 8, 8>>
MaxA == <<16, 16, 9>>
Low == PerJoint(-6)
High == <<6, 7, 6>>
Signs == <<1, -1, -1>>
Shift == <<2, 0, -3>>

Start == <<0, 0, 0>>
States == {Start, <<3, 1, 0>>}

Point(p, v, a, t) == [position |-> p, velocity |-> v, acceleration |-> a,
                      effort |-> FALSE, time |-> t]
Entry(name, p) == [name |-> name, position |-> p, derivative |-> FALSE]

Positions == {<<0, 0, 0>>, <<5, 0, 1>>, <<3, 2, 2>>, <<3, 1, 0>>, <<-5, 1, 2>>}
Optional == {<<>>, <<1, 2, 3>>}

Orders == {<<"a", "b", "c">>, <<"b", "c", "a">>, <<"c", "b", "a">>}
Goal(names, pts, path, final) ==
    [kind |-> "goal", names |-> names, points |-> pts, stamp |-> 0,
     path |-> path, final |-> final, extra |-> 0]

\* Of the path and of the goal: by default, by name, erased, in another order.
Tolerances ==
    { [path |-> <<>>, final |-> <<>>],
      [path |-> <<Entry("b", 1)>>, final |-> <<Entry("c", -1)>>],
      [path |-> <<Entry("c", -1), Entry("a", 2)>>,
       final |-> <<Entry("b", 0), Entry("c", 4), Entry("a", 3)>>] }

\* Some distances from the waypoints that can be reached are those of a tolerance,
\* others are one more.
Seen == {Start, <<3, 1, 0>>, <<2, 2, -4>>}

GoodPoints ==
    {<<Point(p, v, <<>>, 1)>> : p \in Positions, v \in Optional}
    \cup {<<Point(p, <<>>, a, 0), Point(q, <<>>, <<>>, t)>> :
            p \in {<<0, 0, 0>>, <<3, 1, 0>>}, q \in Positions, a \in Optional, t \in {2, 4}}

GoodGoals ==
    {Goal(o, pts, t.path, t.final) : o \in Orders, pts \in GoodPoints, t \in Tolerances}

Sample == <<Point(<<0, 0, 0>>, <<>>, <<>>, 1), Point(<<0, 1, 0>>, <<>>, <<>>, 3)>>
Plain == Goal(Names, Sample, <<>>, <<>>)

BadPoints ==
    { <<>>, Sample \o Sample \o Sample, <<Sample[1], Sample[1]>>,
      <<[Sample[1] EXCEPT !.time = -1]>>, <<[Sample[1] EXCEPT !.effort = TRUE]>>,
      <<Point(<<0, 0>>, <<>>, <<>>, 1)>>, <<Point(<<0, 0, NonFinite>>, <<>>, <<>>, 1)>>,
      <<Point(<<0, 0, 0>>, <<1>>, <<>>, 1)>>,
      <<Point(<<0, 0, 0>>, <<>>, <<1, NonFinite, 1>>, 1)>> }

BadGoals ==
    {[Plain EXCEPT !.names = n] :
        n \in {<<>>, <<"a", "b">>, <<"a", "a", "c">>, <<"a", "b", "x">>}}
    \cup {[Plain EXCEPT !.points = p] : p \in BadPoints}
    \cup {[Plain EXCEPT !.stamp = s] : s \in {-1, 3, 5, 9}}
    \cup {[Plain EXCEPT !.path = p] :
            p \in {<<Entry("x", 1)>>, <<Entry("a", 1), Entry("a", 2)>>, <<Entry("a", -2)>>,
                   <<Entry("a", NonFinite)>>, <<[Entry("a", 1) EXCEPT !.derivative = TRUE]>>}}
    \cup {[Plain EXCEPT !.final = <<Entry("x", 0)>>], [Plain EXCEPT !.extra = -1],
          [Plain EXCEPT !.extra = 4]}

Moves ==
    {[kind |-> "move", target |-> <<d * d * d * x, y * d * d * d, 0>>,
      profile |-> [duration |-> d, velocity |-> v, acceleration |-> a]] :
        d \in 1..3, x \in {0, 1}, y \in {-1, 0, 1}, v \in {NonFinite, 1, 8}, a \in {NonFinite, 6, 9}}

\* Trajectories of a caller, with a value that is not finite at any place.
Cores ==
    {[kind |-> "core", names |-> Names,
      points |-> <<Point(p, <<>>, <<>>, 1), Point(q, <<>>, <<>>, 3), Point(r, <<>>, <<>>, 5)>>] :
        p, q, r \in {<<0, 0, 0>>, <<5, 4, 1>>, <<-5, 4, 1>>, <<0, NonFinite, 0>>}}
    \cup {[kind |-> "core", names |-> n, points |-> Sample] :
            n \in {<<"b", "a", "c">>, <<"a", "b">>}}

AllRequests == {Plain} \cup GoodGoals \cup BadGoals \cup Moves \cup Cores
=============================================================================

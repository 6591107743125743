-------------------------- MODULE DriverNodeProofs --------------------------
(***************************************************************************)
(* Proofs about DriverNode, for every set of goals and every number of     *)
(* lifecycle transitions.                                                  *)
(***************************************************************************)
EXTENDS DriverNode, SequenceTheorems, TLAPS

Rank == 1 .. Len(pool)

\* The worker holds every unfinished command once, and works on the first only.
PoolInv ==
    /\ \A i, j \in Rank : pool[i] = pool[j] => i = j
    /\ \A i \in Rank : work[pool[i]] \in Unfinished
    /\ \A i \in Rank : i # 1 => work[pool[i]] = "queued"
    /\ \A g \in Goals : work[g] \in Unfinished => \E i \in Rank : pool[i] = g

\* The goal that is reserved is the last one submitted.
LastInv ==
    reserved # NoGoal =>
        /\ work[reserved] \in Unfinished => pool[Len(pool)] = reserved
        /\ work[reserved] \in Over => pool = <<>>

\* How far a command is, seen from the callback of its goal.
StepInv ==
    \A g \in Goals :
        /\ exec[g] \in {"idle", "reserve", "rejected", "take", "gate", "start", "refuse"} =>
              work[g] = "none"
        /\ exec[g] \in {"result", "late_stop", "verdict"} => work[g] \in Over
        /\ exec[g] \in {"poll", "cancel"} => work[g] # "none"
        /\ exec[g] \notin {"release", "done"} => handle[g] \notin {"succeeded", "canceled"}

\* What the state of the manager, and its next call, say about the session.
LinkInv ==
    /\ \A g \in Goals : work[g] = "running" => fac[g] = facade /\ link = "open"
    /\ facade = 0 => link = "closed" /\ transition = "none"
                     /\ lifecycle \in {"unconfigured", "fault"}
    /\ lifecycle = "unconfigured" => link = "closed" /\ transition = "none"
    /\ lifecycle = "inactive" /\ transition = "none" => link = "closed"
    /\ lifecycle = "active" /\ transition = "none" => link \in {"open", "faulted"}
    /\ transition = "connect" => link = "closed"
    /\ transition = "probe" => link \in {"open", "faulted"}

\* The end of the process.
NodeInv ==
    /\ node # "up" => transition = "none" /\ ~polling
    /\ node \in {"join", "gone"} => shut
    /\ node = "gone" => pool = <<>> /\ (link = "closed" \/ lifecycle = "fault")

\* A goal has a handle once it is accepted, and only its last steps find it ended.
HandleInv ==
    \A g \in Goals :
        /\ handle[g] = "none" <=> exec[g] \in {"idle", "reserve", "rejected"}
        /\ handle[g] \in {"succeeded", "canceled", "aborted"} <=> exec[g] \in {"release", "done"}

DriverInv ==
    /\ TypeOK
    /\ OneGoalAtATime
    /\ PoolInv
    /\ LastInv
    /\ StepInv
    /\ ReportsAreTrue
    /\ LinkInv
    /\ NodeInv
    /\ HandleInv

-----------------------------------------------------------------------------
(* What the calls of the core do to the commands                           *)

\* A cancel or a close moves no command but a live one, and none into motion.
Nudged ==
    /\ pool' = pool /\ fac' = fac /\ shut' = shut
    /\ work' \in [Goals -> Stages]
    /\ \A g \in Goals :
          \/ work'[g] = work[g]
          \/ work[g] \in Live /\ work'[g] \in Live /\ work'[g] # "running"

LEMMA CancelNudges ==
    ASSUME TypeOK, NEW f \in Nat, NEW outcome, Cancel(f, outcome)
    PROVE  Nudged /\ link' \in {link, Faulted(f)} /\ facade' = facade /\ built' = built
<1>1. CASE UNCHANGED <<work, link>>
  BY <1>1 DEF Cancel, Nudged, TypeOK
<1>2. CASE ~UNCHANGED <<work, link>>
  <2>1. PICK g \in Active(f) : \E stage \in Live \ {"running"} :
           work' = [work EXCEPT ![g] = stage] /\ link' \in {link, Faulted(f)}
    BY <1>2 DEF Cancel, Live
  <2>2. PICK stage \in Live \ {"running"} :
           work' = [work EXCEPT ![g] = stage] /\ link' \in {link, Faulted(f)}
    BY <2>1
  <2>3. g \in Goals /\ work[g] \in Live /\ stage \in Stages
    BY DEF Active, Stages, Unfinished
  <2> QED
    BY <2>2, <2>3 DEF Nudged, TypeOK, Cancel
<1> QED
  BY <1>1, <1>2

\* After a close no command of the session runs.
LEMMA CloseNudges ==
    ASSUME TypeOK, NEW outcome, CloseSession(outcome), UNCHANGED <<pool, fac, shut>>
    PROVE  /\ Nudged
           /\ link' \in {"closed", "dead"}
           /\ \A g \in Goals : fac[g] = facade => work'[g] # "running"
<1> DEFINE running == {g \in Active(facade) : work[g] = "running"}
           After(stage) == [g \in Goals |-> IF g \in running THEN stage ELSE work[g]]
<1>1. PICK stage \in {"stopping", "failing"} : work' = After(stage)
  BY DEF CloseSession
<1>2. link' \in {"closed", "dead"}
  BY DEF CloseSession
<1>3. stage \in Live \ {"running"} /\ stage \in Stages
  BY DEF Live, Stages, Unfinished
<1>4. work \in [Goals -> Stages]
  BY DEF TypeOK
<1>5. ASSUME NEW g \in Goals
      PROVE  /\ work'[g] \in Stages
             /\ \/ work'[g] = work[g]
                \/ work[g] \in Live /\ work'[g] \in Live /\ work'[g] # "running"
             /\ fac[g] = facade => work'[g] # "running"
  <2>1. work'[g] = IF g \in running THEN stage ELSE work[g]
    BY <1>1
  <2>2. CASE g \in running
    BY <2>1, <2>2, <1>3 DEF Active
  <2>3. CASE g \notin running
    BY <2>1, <2>3, <1>4 DEF Active, Live
  <2> QED
    BY <2>2, <2>3
<1>6. work' \in [Goals -> Stages]
  BY <1>1, <1>5
<1> QED
  BY <1>2, <1>5, <1>6 DEF Nudged

-----------------------------------------------------------------------------
(* Types                                                                   *)

Links == {"closed", "open", "faulted", "dead"}

\* A step of the worker thread moves its own command, and may fault its session.
LEMMA WorkMoves ==
    ASSUME TypeOK, NEW g \in Goals, Work(g)
    PROVE  /\ pool # <<>> /\ Head(pool) = g /\ work[g] \in Unfinished
           /\ \E stage \in Unfinished \cup Over :
                 /\ work' = [work EXCEPT ![g] = stage]
                 /\ pool' = IF stage \in Over THEN Tail(pool) ELSE pool
                 /\ stage = "running" => LinkOf(g) = "open" /\ link' = link
           /\ link' \in {link, Faulted(fac[g])}
           /\ UNCHANGED <<facade, built, fac, shut>>
<1> DEFINE Moved(stage) ==
              /\ work' = [work EXCEPT ![g] = stage]
              /\ pool' = IF stage \in Over THEN Tail(pool) ELSE pool
              /\ stage = "running" => LinkOf(g) = "open" /\ link' = link
<1>1. ASSUME NEW stage \in Unfinished, Reach(g, stage), stage # "running" \/ LinkOf(g) = "open"
      PROVE  Moved(stage) /\ link' = link
  BY <1>1 DEF Reach, Over, Unfinished, Live
<1>2. ASSUME NEW stage \in Over, Finish(g, stage)
      PROVE  Moved(stage)
  BY <1>2 DEF Finish, Over
<1>3. ASSUME Fail(g)
      PROVE  \E stage \in Over : Moved(stage)
  <2>1. PICK stage \in {"failed", "raised"} : Finish(g, stage)
    BY <1>3 DEF Fail
  <2> QED
    BY <2>1, <1>2 DEF Over
<1>4. ASSUME Ready(g)
      PROVE  \E stage \in Unfinished \cup Over : Moved(stage)
  <2>1. CASE Reach(g, "admitting")
    BY <2>1, <1>1 DEF Unfinished
  <2>2. CASE Finish(g, "failed") \/ Finish(g, "raised")
    BY <2>2, <1>2 DEF Over
  <2> QED
    BY <1>4, <2>1, <2>2 DEF Ready
<1>5. ASSUME Admit(g)
      PROVE  \E stage \in Unfinished \cup Over : Moved(stage)
  <2>1. CASE Reach(g, "published")
    BY <2>1, <1>1 DEF Unfinished, Live
  <2>2. CASE Finish(g, "failed")
    BY <2>2, <1>2 DEF Over
  <2> QED
    BY <1>3, <1>5, <2>1, <2>2 DEF Admit
<1>6. ASSUME Begin(g)
      PROVE  \E stage \in Unfinished \cup Over : Moved(stage)
  <2>1. CASE LinkOf(g) = "open" /\ Reach(g, "running")
    BY <2>1, <1>1 DEF Unfinished, Live
  <2> QED
    BY <1>3, <1>6, <2>1 DEF Begin
<1>7. ASSUME End(g)
      PROVE  \E stage \in Unfinished \cup Over : Moved(stage)
  <2>1. CASE Finish(g, "succeeded") \/ Finish(g, "canceled")
    BY <2>1, <1>2 DEF Over
  <2> QED
    BY <1>3, <1>7, <2>1 DEF End
<1>8. PICK stages : Working(g, stages) /\ stages \subseteq Unfinished
  BY DEF Work, Ready, Admit, Begin, End, Unfinished, Live
<1>9. \E stage \in Unfinished \cup Over : Moved(stage)
  BY <1>3, <1>4, <1>5, <1>6, <1>7 DEF Work
<1>10. link' \in {link, Faulted(fac[g])}
  BY DEF Work, Ready, Admit, Begin, End, Reach, Fail
<1> QED
  BY <1>8, <1>9, <1>10 DEF Working

LEMMA TypeKept ==
    ASSUME TypeOK, [Next]_vars
    PROVE  TypeOK'
<1> USE DEF TypeOK
<1>1. CASE UNCHANGED vars
  BY <1>1 DEF vars, coreVars, lifeVars, goalVars
<1>2. CASE Serve
  <2>1. lifecycle' \in Lifecycles /\ transition' \in Transitions
    BY <1>2 DEF Serve, Service, Configure, Activate, Deactivate, Cleanup, Recover,
       Request, Settle, Call, Lifecycles, Transitions
  <2>2. facade' \in Nat /\ built' \in Nat /\ calls' \in Nat
    BY <1>2 DEF Serve, Service, Configure, Activate, Deactivate, Cleanup, Recover,
       Request, coreVars
  <2>3. UNCHANGED <<link, fac, work, pool, shut, outlived, goalVars, polling, node>>
    BY <1>2 DEF Serve, Service, Configure, Activate, Deactivate, Cleanup, Recover,
       Request, coreVars
  <2> QED
    BY <2>1, <2>2, <2>3 DEF goalVars
<1>3. CASE Manage
  <2>1. lifecycle' \in Lifecycles /\ transition' \in Transitions
    BY <1>3 DEF Manage, Transition, Reopen, Open, Probe, Abandon, CancelMotion, Release,
       Dispose, Settle, Call, Lifecycles, Transitions
  <2>2. calls' = calls /\ outlived' \in SUBSET Goals
    BY <1>3 DEF Manage, Transition, Reopen, Open, Probe, Abandon, CancelMotion, Release, Dispose
  <2>3. /\ facade' \in Nat /\ built' \in Nat /\ link' \in Links
        /\ fac' \in [Goals -> Nat] /\ work' \in [Goals -> Stages]
        /\ pool' \in Seq(Goals) /\ shut' \in BOOLEAN
    <3>1. CASE \E outcome : Close(outcome)
      BY <3>1, CloseNudges DEF Close, Nudged, Links
    <3>2. CASE \E outcome : Connect(outcome)
      BY <3>2 DEF Connect, Links
    <3>3. CASE \E outcome : Cancel(facade, outcome)
      BY <3>3, CancelNudges DEF Nudged, Links, Faulted
    <3>4. CASE UNCHANGED coreVars
      BY <3>4 DEF coreVars, Links
    <3>5. CASE /\ CloseSession("ok") /\ facade' = 0
               /\ UNCHANGED <<built, fac, pool, shut>>
      BY <3>5, CloseNudges DEF Nudged, Links
    <3> QED
      BY <1>3, <3>1, <3>2, <3>3, <3>4, <3>5 DEF Manage, Transition, Reopen, Open, Probe,
         Abandon, CancelMotion, Release, Dispose
  <2> QED
    BY <1>3, <2>1, <2>2, <2>3 DEF Manage, goalVars, Links
<1>4. CASE StartPoll
  BY <1>4 DEF StartPoll, coreVars, lifeVars, goalVars
<1>5. CASE EndPoll
  BY <1>5 DEF EndPoll, RecordFault, coreVars, lifeVars, goalVars, Lifecycles
<1>6. CASE Interrupt
  BY <1>6 DEF Interrupt, coreVars, lifeVars, goalVars, NodeSteps
<1>7. CASE ShutdownCancel
  <2>1. CASE UNCHANGED coreVars
    BY <1>7, <2>1 DEF ShutdownCancel, coreVars, lifeVars, goalVars, NodeSteps
  <2>2. CASE \E outcome : Cancel(facade, outcome)
    BY <1>7, <2>2, CancelNudges DEF ShutdownCancel, Nudged, Faulted, lifeVars, goalVars,
       NodeSteps
  <2> QED
    BY <1>7, <2>1, <2>2 DEF ShutdownCancel
<1>8. CASE Seal
  BY <1>8 DEF Seal, lifeVars, goalVars, NodeSteps
<1>9. CASE ShutdownClose
  <2>1. lifecycle' \in Lifecycles /\ node' \in NodeSteps
    BY <1>9 DEF ShutdownClose, Lifecycles, NodeSteps
  <2>2. CASE UNCHANGED coreVars
    BY <1>9, <2>1, <2>2 DEF ShutdownClose, coreVars, goalVars
  <2>3. CASE /\ \E outcome : CloseSession(outcome)
             /\ facade' \in {0, facade}
             /\ UNCHANGED <<built, fac, pool, shut>>
    BY <1>9, <2>1, <2>3, CloseNudges DEF ShutdownClose, Nudged, goalVars
  <2> QED
    BY <1>9, <2>2, <2>3 DEF ShutdownClose, Close
<1>10. CASE Quiet
  BY <1>10 DEF Quiet, vars, coreVars, lifeVars, goalVars
<1>11. ASSUME NEW g \in Goals, Accept(g)
       PROVE  TypeOK'
  BY <1>11 DEF Accept, CheckGoal, CancelGoal, Goto, coreVars, lifeVars, locks, Steps, Handles
<1>12. ASSUME NEW g \in Goals, Command(g)
       PROVE  TypeOK'
  <2>1. Work(g) /\ UNCHANGED <<lifeVars, goalVars, polling, node>>
    BY <1>12 DEF Command
  <2>2. PICK stage \in Unfinished \cup Over :
           /\ work' = [work EXCEPT ![g] = stage]
           /\ pool' = IF stage \in Over THEN Tail(pool) ELSE pool
    BY <2>1, WorkMoves
  <2>3. work' \in [Goals -> Stages]
    BY <2>2 DEF Stages
  <2>4. pool' \in Seq(Goals)
    BY <2>1, <2>2, WorkMoves
  <2>5. link' \in Links /\ UNCHANGED <<facade, built, fac, shut>>
    BY <2>1, WorkMoves DEF Links, Faulted
  <2> QED
    BY <2>1, <2>3, <2>4, <2>5 DEF lifeVars, goalVars, Links
<1>13. ASSUME NEW g \in Goals, Stray(g)
       PROVE  TypeOK'
  BY <1>13 DEF Stray, Progress, coreVars, lifeVars
<1>14. ASSUME NEW g \in Goals, Run(g)
       PROVE  TypeOK'
  <2>1. UNCHANGED <<polling, node, built, facade, shut, transition, calls, outlived>>
    BY <1>14 DEF Run, Execute, ReserveGoal, Take, Gate, Refuse, StartRefused, Submit, Poll,
       SendCancel, Result, LateStop, Verdict, SettleGoal, StopSettling, Succeed, Except,
       ReleaseGoal, RecordFault, Cancel, Stop, coreVars, lifeVars
  <2>2. exec' \in [Goals -> Steps]
    BY <1>14, ZenonT(30) DEF Run, Execute, ReserveGoal, Take, Gate, Refuse, StartRefused,
       Submit, Poll,
       SendCancel, Result, LateStop, Verdict, SettleGoal, StopSettling, Succeed, Except,
       ReleaseGoal, Conclude, ConcludeCanceled, Goto, Steps
  <2>3. handle' \in [Goals -> Handles]
    BY <1>14, ZenonT(30) DEF Run, Execute, ReserveGoal, Take, Gate, Refuse, StartRefused,
       Submit, Poll,
       SendCancel, Result, LateStop, Verdict, SettleGoal, StopSettling, Succeed, Except,
       ReleaseGoal, Conclude, ConcludeCanceled, Handles
  <2>4. /\ sent' \in [Goals -> BOOLEAN]
        /\ strayed' \in BOOLEAN
        /\ reserved' \in Goals \cup {NoGoal}
        /\ accepted' \in Goals \cup {NoGoal}
    BY <1>14, ZenonT(30) DEF Run, Execute, ReserveGoal, Take, Gate, Refuse, StartRefused,
       Submit, Poll,
       SendCancel, Result, LateStop, Verdict, SettleGoal, StopSettling, Succeed, Except,
       ReleaseGoal, Free, locks
  <2>5. lifecycle' \in Lifecycles
    BY <1>14, ZenonT(30) DEF Run, Execute, ReserveGoal, Take, Gate, Refuse, StartRefused,
       Submit, Poll,
       SendCancel, Result, LateStop, Verdict, SettleGoal, StopSettling, Succeed, Except,
       ReleaseGoal, RecordFault, lifeVars, Lifecycles
  <2>6. /\ link' \in Links /\ fac' \in [Goals -> Nat] /\ work' \in [Goals -> Stages]
        /\ pool' \in Seq(Goals)
    <3>1. CASE SendCancel(g)
      BY <3>1, CancelNudges DEF SendCancel, Nudged, Links, Faulted
    <3>2. CASE \E outcome : Stop(g, outcome)
      BY <3>2 DEF Stop, Links, Faulted
    <3>3. CASE Submit(g)
      <4>1. link' = link /\ fac' = fac
        BY <3>3 DEF Submit
      <4>2. work' \in [Goals -> Stages]
        BY <3>3 DEF Submit, Stages, Unfinished
      <4>3. pool' = pool \/ pool' = Append(pool, g)
        BY <3>3 DEF Submit
      <4>4. pool' \in Seq(Goals)
        <5>1. pool \in Seq(Goals) /\ g \in Goals
          OBVIOUS
        <5>2. Append(pool, g) \in Seq(Goals)
          BY <5>1
        <5> QED
          BY <4>3, <5>1, <5>2
      <4> QED
        BY <4>1, <4>2, <4>4 DEF Links
    <3>4. CASE Take(g)
      BY <3>4 DEF Take, Links
    <3>5. CASE UNCHANGED coreVars
      BY <3>5 DEF coreVars, Links
    <3> QED
      BY <1>14, <3>1, <3>2, <3>3, <3>4, <3>5 DEF Run, Execute, ReserveGoal, Gate, Refuse,
         StartRefused, Poll, Result, LateStop, Verdict, SettleGoal, StopSettling, Succeed,
         Except, ReleaseGoal
  <2> QED
    BY <2>1, <2>2, <2>3, <2>4, <2>5, <2>6 DEF Links
<1> QED
  BY <1>1, <1>2, <1>3, <1>4, <1>5, <1>6, <1>7, <1>8, <1>9, <1>10, <1>11, <1>12, <1>13,
     <1>14 DEF Next, Shutdown

-----------------------------------------------------------------------------
(* One goal at a time                                                      *)

\* What the steps of callbacks do to the reservation; all others leave it alone.
LEMMA SerialKept ==
    ASSUME TypeOK, OneGoalAtATime, [Next]_vars
    PROVE  OneGoalAtATime'
<1> USE GoalsAssumption DEF TypeOK, OneGoalAtATime
<1>1. CASE UNCHANGED <<exec, reserved, accepted>>
  BY <1>1
<1>2. ASSUME NEW g \in Goals, exec[g] = "idle", reserved' = reserved, accepted' = accepted,
             \E step \in {"reserve", "rejected"} : Goto(g, step)
      PROVE  OneGoalAtATime'
  BY <1>2 DEF Goto, Unserved
<1>3. ASSUME NEW g \in Goals, ReserveGoal(g)
      PROVE  OneGoalAtATime'
  <2>1. exec[g] = "reserve" /\ g # NoGoal
    BY <1>3 DEF ReserveGoal
  <2>2. CASE Goto(g, "rejected") /\ reserved' = reserved /\ accepted' = accepted
    BY <2>1, <2>2 DEF Goto, Unserved
  <2>3. CASE reserved = NoGoal /\ reserved' = g /\ accepted' = g /\ Goto(g, "take")
    <3>1. \A h \in Goals : exec[h] \in Unserved
      BY <2>3
    <3>2. \A h \in Goals : exec'[h] = IF h = g THEN "take" ELSE exec[h]
      BY <2>3 DEF Goto
    <3> QED
      BY <2>3, <3>1, <3>2 DEF Unserved
  <2> QED
    BY <1>3, <2>2, <2>3 DEF ReserveGoal, locks
<1>4. ASSUME NEW g \in Goals, Take(g)
      PROVE  OneGoalAtATime'
  <2>1. accepted = g /\ reserved = g
    BY <1>4 DEF Take, Unserved
  <2>2. Goto(g, "gate") /\ accepted' = NoGoal /\ reserved' = reserved
    BY <1>4, <2>1 DEF Take
  <2> QED
    BY <2>1, <2>2 DEF Goto, Unserved
<1>5. ASSUME NEW g \in Goals, exec[g] \notin Unserved \cup {"take"}, Free,
             \E step \in {"refuse", "done"} : Goto(g, step)
      PROVE  OneGoalAtATime'
  BY <1>5 DEF Free, Goto, Unserved
<1>6. ASSUME NEW g \in Goals, exec[g] \notin Unserved \cup {"take"},
             reserved' = reserved, accepted' = accepted,
             \E step \in Steps \ (Unserved \cup {"take"}) : Goto(g, step)
      PROVE  OneGoalAtATime'
  BY <1>6 DEF Goto, Unserved
<1>7. ASSUME NEW g \in Goals, Accept(g)
      PROVE  OneGoalAtATime'
  BY <1>1, <1>2, <1>7 DEF Accept, CheckGoal, CancelGoal, locks
<1>8. ASSUME NEW g \in Goals, Execute(g), ~Take(g), ~Gate(g), ~Refuse(g), ~ReleaseGoal(g)
      PROVE  OneGoalAtATime'
  <2>1. exec[g] \notin Unserved \cup {"take"} /\ reserved' = reserved /\ accepted' = accepted
    BY <1>8 DEF Execute, StartRefused, Submit, Poll, SendCancel, Result, LateStop, Verdict,
       SettleGoal, StopSettling, Succeed, Except, locks, Unserved
  <2>2. \E step \in Steps \ (Unserved \cup {"take"}) : Goto(g, step)
    BY <1>8 DEF Execute, StartRefused, Submit, Poll, SendCancel, Result, LateStop, Verdict,
       SettleGoal, StopSettling, Succeed, Except, Conclude, ConcludeCanceled, Steps, Unserved
  <2> QED
    BY <2>1, <2>2, <1>6
<1>9. ASSUME NEW g \in Goals, Gate(g)
      PROVE  OneGoalAtATime'
  <2>1. exec[g] \notin Unserved \cup {"take"} /\ "start" \in Steps \ (Unserved \cup {"take"})
    BY <1>9 DEF Gate, Unserved, Steps
  <2>2. \/ Free /\ Goto(g, "refuse")
        \/ Goto(g, "start") /\ reserved' = reserved /\ accepted' = accepted
    BY <1>9 DEF Gate, locks
  <2> QED
    BY <2>1, <2>2, <1>5, <1>6
<1>10. ASSUME NEW g \in Goals, ReleaseGoal(g)
       PROVE  OneGoalAtATime'
  BY <1>5, <1>10 DEF ReleaseGoal, Unserved
<1>11. ASSUME NEW g \in Goals, Refuse(g)
       PROVE  OneGoalAtATime'
  BY <1>11 DEF Refuse, Goto, Unserved, locks
<1>12. ASSUME NEW g \in Goals, Run(g)
       PROVE  OneGoalAtATime'
  BY <1>3, <1>4, <1>8, <1>9, <1>10, <1>11, <1>12 DEF Run
<1>13. CASE Serve \/ Manage \/ StartPoll \/ EndPoll \/ Interrupt \/ Shutdown \/ Quiet
  BY <1>1, <1>13 DEF Serve, Manage, StartPoll, EndPoll, Interrupt, Shutdown, ShutdownCancel,
     Seal, ShutdownClose, Quiet, goalVars, vars
<1>14. ASSUME NEW g \in Goals, Command(g) \/ Stray(g)
       PROVE  OneGoalAtATime'
  BY <1>1, <1>14 DEF Command, Stray, Progress, goalVars
<1> QED
  BY <1>1, <1>7, <1>12, <1>13, <1>14 DEF Next, vars, goalVars

-----------------------------------------------------------------------------
(* The worker's queue                                                      *)

LEMMA PoolNudged ==
    ASSUME TypeOK, PoolInv, Nudged
    PROVE  PoolInv'
<1>1. pool' = pool /\ Rank' = Rank
  BY DEF Nudged, Rank
<1>2. \A g \in Goals : work[g] \in Unfinished <=> work'[g] \in Unfinished
  BY DEF Nudged, Unfinished
<1>3. \A g \in Goals : work[g] = "queued" => work'[g] = "queued"
  BY DEF Nudged, Live
<1>4. \A i \in Rank : pool[i] \in Goals
  BY DEF TypeOK, Rank
<1> QED
  BY <1>1, <1>2, <1>3, <1>4 DEF PoolInv

\* A command that ends leaves the queue, and it was the first.
LEMMA PoolWorked ==
    ASSUME TypeOK, PoolInv, NEW g \in Goals, Work(g)
    PROVE  /\ PoolInv'
           /\ pool # <<>> /\ pool[1] = g /\ Len(pool) \in Nat \ {0}
<1>1. PICK stage \in Unfinished \cup Over :
         /\ work' = [work EXCEPT ![g] = stage]
         /\ pool' = IF stage \in Over THEN Tail(pool) ELSE pool
  BY WorkMoves
<1>2. pool # <<>> /\ pool[1] = g /\ pool \in Seq(Goals)
  BY WorkMoves DEF TypeOK
<1>3. Len(pool) \in Nat \ {0} /\ 1 \in Rank /\ \A i \in Rank : pool[i] \in Goals
  BY <1>2 DEF Rank
<1>4. work \in [Goals -> Stages]
  BY DEF TypeOK
<1>5. \A i \in Rank : i # 1 => work'[pool[i]] = work[pool[i]]
  BY <1>1, <1>2, <1>3, <1>4 DEF PoolInv
<1>6. CASE stage \in Over
  <2>1. /\ Len(Tail(pool)) = Len(pool) - 1
        /\ \A i \in 1 .. Len(pool) - 1 : Tail(pool)[i] = pool[i + 1] /\ i + 1 \in Rank
    BY <1>2, <1>3 DEF Rank
  <2>2. Rank' = 1 .. Len(pool) - 1 /\ \A i \in Rank' : pool'[i] = pool[i + 1] /\ i + 1 \in Rank
    BY <1>1, <1>6, <2>1 DEF Rank
  <2>3. \A i, j \in Rank' : pool'[i] = pool'[j] => i = j
    <3> SUFFICES ASSUME NEW i \in Rank', NEW j \in Rank', pool'[i] = pool'[j]
                 PROVE  i = j
      OBVIOUS
    <3>1. pool[i + 1] = pool[j + 1] /\ i + 1 \in Rank /\ j + 1 \in Rank
      BY <2>2
    <3>2. i + 1 = j + 1 /\ i \in Int /\ j \in Int
      BY <2>2, <3>1 DEF PoolInv
    <3> QED
      BY <3>2
  <2>4. \A i \in Rank' : work'[pool'[i]] = "queued"
    BY <2>2, <1>3, <1>5 DEF PoolInv, Rank
  <2>5. ASSUME NEW h \in Goals, work'[h] \in Unfinished
        PROVE  \E i \in Rank' : pool'[i] = h
    <3>1. h # g /\ work[h] \in Unfinished
      BY <1>1, <1>4, <1>6, <2>5 DEF Over, Unfinished, Live
    <3>2. PICK i \in Rank : pool[i] = h
      BY <3>1 DEF PoolInv
    <3>3. i - 1 \in Rank' /\ i - 1 + 1 = i
      BY <1>2, <1>3, <2>2, <3>1, <3>2 DEF Rank
    <3> QED
      BY <2>2, <3>2, <3>3
  <2> QED
    BY <1>2, <1>3, <2>3, <2>4, <2>5 DEF PoolInv, Unfinished
<1>7. CASE stage \notin Over
  <2>1. pool' = pool /\ Rank' = Rank /\ stage \in Unfinished
    BY <1>1, <1>7 DEF Rank
  <2>2. \A i \in Rank : work'[pool[i]] \in Unfinished
    BY <1>1, <1>3, <1>4, <2>1 DEF PoolInv
  <2>3. \A h \in Goals : work'[h] \in Unfinished => \E i \in Rank : pool[i] = h
    BY <1>1, <1>2, <1>3, <1>4 DEF PoolInv
  <2> QED
    BY <1>2, <1>3, <1>5, <2>1, <2>2, <2>3 DEF PoolInv
<1> QED
  BY <1>6, <1>7

-----------------------------------------------------------------------------
(* Commands and the callbacks of their goals                               *)

CommandInv == PoolInv /\ LastInv /\ StepInv /\ ReportsAreTrue

\* A call that stops commands, from anywhere but a callback or from SendCancel.
LEMMA CommandsNudged ==
    ASSUME TypeOK, CommandInv, Nudged, UNCHANGED <<handle, reserved, strayed>>,
           \/ exec' = exec
           \/ \E g \in Goals, step \in {"poll", "except"} : exec[g] = "cancel" /\ Goto(g, step)
    PROVE  CommandInv'
<1> USE DEF CommandInv
<1>1. PoolInv'
  BY PoolNudged
<1>2. \A g \in Goals : /\ work[g] \in Unfinished <=> work'[g] \in Unfinished
                       /\ \/ work[g] = work'[g]
                          \/ work[g] \in Unfinished /\ work'[g] \in Unfinished
  BY DEF Nudged, Unfinished
<1>3. \A stage \in Unfinished : stage # "none" /\ stage \notin Over
  BY DEF Unfinished, Live, Over
<1>4. LastInv'
  BY <1>2, <1>3 DEF LastInv, Nudged, TypeOK
<1>5. \A g \in Goals : exec'[g] = exec[g] \/ (exec[g] = "cancel" /\ exec'[g] \in {"poll", "except"})
  BY DEF Goto, TypeOK
<1>6. StepInv'
  BY <1>2, <1>3, <1>5 DEF StepInv
<1>7. ReportsAreTrue'
  BY <1>2, <1>3, <1>5 DEF ReportsAreTrue, Over
<1> QED
  BY <1>1, <1>4, <1>6, <1>7

\* A step of the worker thread.
LEMMA CommandsWorked ==
    ASSUME TypeOK, CommandInv, NEW g \in Goals, Work(g), UNCHANGED goalVars
    PROVE  CommandInv'
<1> USE DEF CommandInv
<1>1. PICK stage \in Unfinished \cup Over :
         /\ work' = [work EXCEPT ![g] = stage]
         /\ pool' = IF stage \in Over THEN Tail(pool) ELSE pool
  BY WorkMoves
<1>2. PoolInv' /\ pool # <<>> /\ pool[1] = g /\ Len(pool) \in Nat \ {0}
  BY PoolWorked
<1>3. work[g] \in Unfinished
  BY WorkMoves
<1>4. \A s \in Unfinished : s # "none" /\ s \notin Over
  BY DEF Unfinished, Live, Over
<1>5. work'[g] = stage /\ \A h \in Goals : h # g => work'[h] = work[h]
  BY <1>1 DEF TypeOK
<1>6. UNCHANGED <<exec, handle, reserved, strayed>>
  BY DEF goalVars
<1>7. pool \in Seq(Goals) /\ reserved \in Goals \cup {NoGoal}
  BY DEF TypeOK
<1>8. LastInv'
  <2>1. CASE reserved = NoGoal
    BY <2>1, <1>6 DEF LastInv
  <2>2. CASE reserved = g
    <3>1. pool[Len(pool)] = g /\ 1 \in Rank /\ Len(pool) \in Rank
      BY <2>2, <1>2, <1>3, GoalsAssumption DEF LastInv, Rank
    <3>2. Len(pool) = 1
      <4>1. pool[Len(pool)] = pool[1]
        BY <3>1, <1>2
      <4> QED
        BY <3>1, <4>1 DEF PoolInv
    <3>3. Tail(pool) = <<>>
      <4>1. Tail(pool) \in Seq(Goals) /\ Len(Tail(pool)) = 0
        BY <3>2, <1>2, <1>7
      <4> QED
        BY <4>1
    <3> QED
      BY <2>2, <3>1, <3>3, <1>1, <1>4, <1>5, <1>6 DEF LastInv
  <2>3. CASE reserved \in Goals \ {g}
    <3>1. work'[reserved] = work[reserved] /\ work[reserved] \notin Over
      BY <2>3, <1>2, <1>5, GoalsAssumption DEF LastInv
    <3>2. ASSUME work[reserved] \in Unfinished
          PROVE  pool'[Len(pool')] = reserved
      <4>1. pool[Len(pool)] = reserved /\ Len(pool) # 1
        BY <2>3, <3>2, <1>2, GoalsAssumption DEF LastInv
      <4>2. CASE stage \in Over
        <5>1. Len(Tail(pool)) = Len(pool) - 1 /\ Len(pool) - 1 \in 1 .. Len(pool) - 1
          <6>1. Len(Tail(pool)) = Len(pool) - 1
            BY <1>2, <1>7, HeadTailProperties
          <6>2. Len(pool) \in Nat /\ Len(pool) # 0 /\ Len(pool) # 1
            BY <4>1, <1>2
          <6>3. Len(pool) - 1 \in 1 .. Len(pool) - 1
            BY <6>2
          <6> QED
            BY <6>1, <6>3
        <5>2. Tail(pool)[Len(pool) - 1] = pool[Len(pool) - 1 + 1]
          BY <5>1, <1>2, <1>7, HeadTailProperties
        <5>3. Tail(pool)[Len(Tail(pool))] = pool[Len(pool)]
          BY <5>1, <5>2, <1>2
        <5> QED
          BY <4>1, <4>2, <5>3, <1>1
      <4>3. CASE stage \notin Over
        BY <4>1, <4>3, <1>1
      <4> QED
        BY <4>2, <4>3
    <3>3. work'[reserved] \notin Over
      BY <3>1
    <3>4. work'[reserved] \in Unfinished => pool'[Len(pool')] = reserved
      BY <3>1, <3>2
    <3> QED
      BY <3>3, <3>4, <1>6 DEF LastInv
  <2> QED
    BY <2>1, <2>2, <2>3, <1>7
<1>9. StepInv'
  <2> SUFFICES ASSUME NEW h \in Goals
               PROVE  /\ exec[h] \in {"idle", "reserve", "rejected", "take", "gate", "start", "refuse"} =>
                            work'[h] = "none"
                      /\ exec[h] \in {"result", "late_stop", "verdict"} => work'[h] \in Over
                      /\ exec[h] \in {"poll", "cancel"} => work'[h] # "none"
    BY <1>6 DEF StepInv
  <2>1. CASE h # g
    BY <2>1, <1>5 DEF StepInv
  <2>2. CASE h = g
    <3>1. work[g] # "none" /\ work[g] \notin Over /\ work'[g] # "none"
      BY <1>3, <1>4, <1>5 DEF Over
    <3> QED
      BY <2>2, <3>1 DEF StepInv
  <2> QED
    BY <2>1, <2>2
<1>10. ReportsAreTrue'
  <2>1. handle[g] # "succeeded" /\ handle[g] # "canceled" /\ exec[g] \notin {"settle", "stop", "succeed"}
    BY <1>3, <1>4 DEF ReportsAreTrue, Over
  <2> QED
    BY <2>1, <1>5, <1>6 DEF ReportsAreTrue
<1> QED
  BY <1>2, <1>8, <1>9, <1>10

\* A goal's command enters the queue behind all others.
LEMMA CommandsSubmitted ==
    ASSUME TypeOK, OneGoalAtATime, CommandInv, NEW g \in Goals, Submit(g), ~shut
    PROVE  CommandInv'
<1> USE DEF CommandInv
<1>1. /\ exec[g] = "start" /\ ~Asked(g)
      /\ work' = [work EXCEPT ![g] = "queued"]
      /\ pool' = Append(pool, g)
      /\ Goto(g, "poll")
      /\ UNCHANGED <<handle, reserved, strayed>>
  BY DEF Submit, locks
<1>2. work[g] = "none" /\ reserved = g
  BY <1>1 DEF StepInv, OneGoalAtATime, Unserved
<1>3. /\ pool \in Seq(Goals) /\ Len(pool) \in Nat
      /\ Len(pool') = Len(pool) + 1
      /\ \A i \in Rank : pool'[i] = pool[i] /\ pool[i] \in Goals
      /\ pool'[Len(pool) + 1] = g
  BY <1>1 DEF TypeOK, Rank
<1>4. /\ work'[g] = "queued" /\ \A h \in Goals : h # g => work'[h] = work[h]
      /\ exec'[g] = "poll" /\ \A h \in Goals : h # g => exec'[h] = exec[h]
  BY <1>1 DEF TypeOK, Goto
<1>5. Rank' = Rank \cup {Len(pool) + 1} /\ Rank \subseteq 1 .. Len(pool) /\ 1 \in Rank'
  BY <1>3 DEF Rank
<1>6. "none" \notin Unfinished /\ "queued" \in Unfinished /\ "queued" \notin Over
  BY DEF Unfinished, Live, Over
<1>7. \A i \in Rank : pool[i] # g
  BY <1>2, <1>6 DEF PoolInv
<1>8. PoolInv'
  <2>1. \A i, j \in Rank' : pool'[i] = pool'[j] => i = j
    BY <1>3, <1>5, <1>7 DEF PoolInv
  <2>2. \A i \in Rank' : work'[pool'[i]] \in Unfinished /\ (i # 1 => work'[pool'[i]] = "queued")
    BY <1>3, <1>4, <1>5, <1>6, <1>7 DEF PoolInv
  <2>3. ASSUME NEW h \in Goals, work'[h] \in Unfinished
        PROVE  \E i \in Rank' : pool'[i] = h
    <3>1. CASE h = g
      BY <3>1, <1>3, <1>5
    <3>2. CASE h # g
      BY <3>2, <2>3, <1>3, <1>4, <1>5 DEF PoolInv
    <3> QED
      BY <3>1, <3>2
  <2> QED
    BY <2>1, <2>2, <2>3 DEF PoolInv
<1>9. LastInv'
  <2>1. reserved' = g /\ work'[g] = "queued" /\ pool'[Len(pool')] = g
    BY <1>1, <1>2, <1>3, <1>4
  <2> QED
    BY <2>1, <1>6 DEF LastInv
<1>10. StepInv'
  <2> SUFFICES ASSUME NEW h \in Goals
               PROVE  /\ exec'[h] \in {"idle", "reserve", "rejected", "take", "gate", "start", "refuse"} =>
                            work'[h] = "none"
                      /\ exec'[h] \in {"result", "late_stop", "verdict"} => work'[h] \in Over
                      /\ exec'[h] \in {"poll", "cancel"} => work'[h] # "none"
                      /\ exec'[h] \notin {"release", "done"} =>
                            handle[h] \notin {"succeeded", "canceled"}
    BY <1>1 DEF StepInv
  <2>1. CASE h # g
    BY <2>1, <1>4 DEF StepInv
  <2>2. CASE h = g
    BY <2>2, <1>1, <1>4 DEF StepInv
  <2> QED
    BY <2>1, <2>2
<1>11. ReportsAreTrue'
  <2>1. handle[g] # "succeeded" /\ handle[g] # "canceled"
    BY <1>1 DEF StepInv
  <2> QED
    BY <2>1, <1>1, <1>4 DEF ReportsAreTrue
<1> QED
  BY <1>8, <1>9, <1>10, <1>11

\* A step of the callback of g that leaves all commands alone.
LEMMA CallbackMoves ==
    ASSUME TypeOK, CommandInv, NEW g \in Goals, NEW step, NEW state,
           UNCHANGED <<work, pool>>, Goto(g, step), handle' = [handle EXCEPT ![g] = state],
           LastInv', strayed' => strayed,
           step \in {"idle", "reserve", "rejected", "take", "gate", "start", "refuse"} => work[g] = "none",
           step \in {"result", "late_stop", "verdict"} => work[g] \in Over,
           step \in {"poll", "cancel"} => work[g] # "none",
           step \notin {"release", "done"} => state \notin {"succeeded", "canceled"},
           state = "succeeded" => work[g] = "succeeded",
           state = "canceled" => work[g] \in Over \cup {"none"},
           step \in {"settle", "stop", "succeed"} => work[g] = "succeeded" /\ ~strayed'
    PROVE  CommandInv'
<1> USE DEF CommandInv
<1>1. \A h \in Goals : /\ exec'[h] = IF h = g THEN step ELSE exec[h]
                       /\ handle'[h] = IF h = g THEN state ELSE handle[h]
  BY DEF Goto, TypeOK
<1>2. PoolInv'
  BY DEF PoolInv, Rank
<1>3. StepInv'
  <2> SUFFICES ASSUME NEW h \in Goals
               PROVE  /\ exec'[h] \in {"idle", "reserve", "rejected", "take", "gate", "start", "refuse"} =>
                            work[h] = "none"
                      /\ exec'[h] \in {"result", "late_stop", "verdict"} => work[h] \in Over
                      /\ exec'[h] \in {"poll", "cancel"} => work[h] # "none"
                      /\ exec'[h] \notin {"release", "done"} =>
                            handle'[h] \notin {"succeeded", "canceled"}
    BY DEF StepInv
  <2>1. CASE h = g
    BY <2>1, <1>1
  <2>2. CASE h # g
    BY <2>2, <1>1 DEF StepInv
  <2> QED
    BY <2>1, <2>2
<1>4. ReportsAreTrue'
  <2> SUFFICES ASSUME NEW h \in Goals
               PROVE  /\ handle'[h] = "succeeded" => work[h] = "succeeded"
                      /\ handle'[h] = "canceled" => work[h] \in Over \cup {"none"}
                      /\ exec'[h] \in {"settle", "stop", "succeed"} =>
                            work[h] = "succeeded" /\ ~strayed'
    BY DEF ReportsAreTrue
  <2>1. CASE h = g
    BY <2>1, <1>1
  <2>2. CASE h # g
    BY <2>2, <1>1 DEF ReportsAreTrue
  <2> QED
    BY <2>1, <2>2
<1> QED
  BY <1>2, <1>3, <1>4

\* Every step of a callback but the call of cancel and the submission.
LEMMA CommandsCalledBack ==
    ASSUME TypeOK, OneGoalAtATime, CommandInv, NEW g \in Goals,
           \/ CheckGoal(g) \/ CancelGoal(g) \/ ReserveGoal(g)
           \/ Execute(g) /\ ~SendCancel(g) /\ ~Submit(g)
    PROVE  CommandInv'
<1> USE DEF CommandInv
<1>1. UNCHANGED <<work, pool>>
  BY DEF CheckGoal, CancelGoal, ReserveGoal, Execute, Take, Gate, Refuse, StartRefused,
     Poll, Result,
     LateStop, Verdict, SettleGoal, StopSettling, Succeed, Except, ReleaseGoal, Stop, coreVars
<1>2. /\ exec[g] \in {"idle", "reserve", "rejected", "take", "gate", "start", "refuse"} => work[g] = "none"
      /\ exec[g] \in {"result", "late_stop", "verdict"} => work[g] \in Over
      /\ exec[g] \in {"poll", "cancel"} => work[g] # "none"
      /\ exec[g] \notin {"release", "done"} => handle[g] \notin {"succeeded", "canceled"}
  BY DEF StepInv
<1>3. /\ handle[g] = "succeeded" => work[g] = "succeeded"
      /\ handle[g] = "canceled" => work[g] \in Over \cup {"none"}
      /\ exec[g] \in {"settle", "stop", "succeed"} => work[g] = "succeeded" /\ ~strayed
  BY DEF ReportsAreTrue
<1>4. "none" \notin Unfinished \cup Over /\ "succeeded" \in Over
  BY DEF Unfinished, Live, Over
<1>5. handle = [handle EXCEPT ![g] = handle[g]] /\ exec = [exec EXCEPT ![g] = exec[g]]
  BY DEF TypeOK
<1>6. LastInv' /\ (strayed' => strayed)
  <2>1. CASE reserved' = reserved /\ strayed' = strayed
    BY <2>1, <1>1 DEF LastInv
  <2>2. CASE reserved' = NoGoal /\ strayed' = FALSE
    BY <2>2 DEF LastInv
  <2>3. CASE reserved' = g /\ strayed' = FALSE /\ exec[g] = "reserve"
    BY <2>3, <1>1, <1>2, <1>4 DEF LastInv
  <2> QED
    BY <2>1, <2>2, <2>3 DEF CheckGoal, CancelGoal, ReserveGoal, Execute, Take, Gate, Refuse,
       StartRefused, Poll, Result, LateStop, Verdict, SettleGoal, StopSettling, Succeed,
       Except, ReleaseGoal, Free, locks
<1> DEFINE Fits(step, state) ==
      /\ Goto(g, step) /\ handle' = [handle EXCEPT ![g] = state]
      /\ step \in {"idle", "reserve", "rejected", "take", "gate", "start", "refuse"} => work[g] = "none"
      /\ step \in {"result", "late_stop", "verdict"} => work[g] \in Over
      /\ step \in {"poll", "cancel"} => work[g] # "none"
      /\ step \notin {"release", "done"} => state \notin {"succeeded", "canceled"}
      /\ state = "succeeded" => work[g] = "succeeded"
      /\ state = "canceled" => work[g] \in Over \cup {"none"}
      /\ step \in {"settle", "stop", "succeed"} => work[g] = "succeeded" /\ ~strayed'
<1>7. ASSUME NEW step, NEW state, Fits(step, state)
      PROVE  CommandInv'
  BY <1>1, <1>6, <1>7, CallbackMoves
<1> HIDE DEF CommandInv
<1>8. CASE CheckGoal(g)
  BY <1>8, <1>2, <1>3, <1>5, <1>7 DEF CheckGoal
<1>9. CASE CancelGoal(g)
  <2>1. Goto(g, exec[g]) /\ handle' = [handle EXCEPT ![g] = "canceling"] /\ strayed' = strayed
    BY <1>5, <1>9 DEF CancelGoal, Goto, locks
  <2> QED
    BY <2>1, <1>2, <1>3, <1>7
<1>10. CASE ReserveGoal(g)
  BY <1>10, <1>2, <1>3, <1>5, <1>7 DEF ReserveGoal
<1>11. CASE Take(g)
  BY <1>11, <1>2, <1>3, <1>5, <1>7 DEF Take
<1>12. CASE Gate(g)
  BY <1>12, <1>2, <1>3, <1>5, <1>7 DEF Gate
<1>13. CASE StartRefused(g)
  BY <1>13, <1>2, <1>7 DEF StartRefused, Conclude
<1>23. CASE Refuse(g)
  BY <1>23, <1>7 DEF Refuse
<1>14. CASE Poll(g)
  BY <1>14, <1>2, <1>3, <1>5, <1>7 DEF Poll
<1>15. CASE Result(g)
  BY <1>15, <1>2, <1>3, <1>5, <1>7 DEF Result
<1>16. CASE LateStop(g)
  BY <1>16, <1>2, <1>3, <1>5, <1>7 DEF LateStop
<1>17. CASE Verdict(g)
  <2>1. strayed' = strayed /\ work[g] \in Over /\ exec[g] = "verdict"
    BY <1>17, <1>2 DEF Verdict, locks
  <2>2. CASE \E state \in {"aborted", "canceled"} : Conclude(g, state)
    BY <2>1, <2>2, <1>7 DEF Conclude
  <2>3. CASE Goto(g, "except") /\ UNCHANGED handle
    BY <2>1, <2>3, <1>2, <1>3, <1>5, <1>7
  <2>4. CASE Goto(g, "settle") /\ UNCHANGED handle /\ work[g] = "succeeded" /\ ~strayed
    BY <2>1, <2>4, <1>2, <1>3, <1>5, <1>7
  <2> QED
    BY <1>17, <2>2, <2>3, <2>4 DEF Verdict, ConcludeCanceled
<1>18. CASE SettleGoal(g)
  <2>1. strayed' = strayed /\ work[g] = "succeeded" /\ ~strayed /\ exec[g] = "settle"
    BY <1>18, <1>3 DEF SettleGoal, locks
  <2>2. CASE Conclude(g, "aborted")
    BY <2>1, <2>2, <1>7 DEF Conclude
  <2>3. CASE \E step \in {"stop", "succeed", "except"} : Goto(g, step) /\ UNCHANGED handle
    BY <2>1, <2>3, <1>2, <1>3, <1>5, <1>7
  <2> QED
    BY <1>18, <2>2, <2>3 DEF SettleGoal
<1>19. CASE StopSettling(g)
  <2>1. work[g] = "succeeded" /\ exec[g] = "stop"
    BY <1>19, <1>3 DEF StopSettling
  <2>2. CASE Conclude(g, "canceled")
    BY <2>1, <2>2, <1>4, <1>7 DEF Conclude
  <2>3. CASE Goto(g, "except") /\ UNCHANGED handle
    BY <2>1, <2>3, <1>2, <1>3, <1>5, <1>7
  <2> QED
    BY <1>19, <2>2, <2>3 DEF StopSettling, ConcludeCanceled
<1>20. CASE Succeed(g)
  BY <1>20, <1>3, <1>7 DEF Succeed, Conclude
<1>21. CASE Except(g)
  BY <1>21, <1>7 DEF Except, Conclude
<1>22. CASE ReleaseGoal(g)
  BY <1>22, <1>3, <1>5, <1>7 DEF ReleaseGoal
<1> QED
  BY <1>8, <1>9, <1>10, <1>11, <1>12, <1>13, <1>14, <1>15, <1>16, <1>17, <1>18, <1>19, <1>20,
     <1>21, <1>22, <1>23 DEF Execute

\* Progress of a command finds no goal that has already passed its path check.
LEMMA CommandsStrayed ==
    ASSUME TypeOK, OneGoalAtATime, CommandInv, NEW g \in Goals, Stray(g)
    PROVE  CommandInv'
<1> USE DEF CommandInv
<1>1. UNCHANGED <<work, pool, exec, handle, reserved>>
  BY DEF Stray, Progress, coreVars
<1>2. pool # <<>>
  <2>1. work[g] \in Unfinished
    BY DEF Stray, Progress, Unfinished, Live
  <2>2. PICK i \in Rank : pool[i] = g
    BY <2>1 DEF PoolInv
  <2>3. Len(pool) # 0
    BY <2>2 DEF Rank
  <2> QED
    BY <2>3
<1>3. ASSUME NEW h \in Goals, exec[h] \in {"settle", "stop", "succeed"}
      PROVE  FALSE
  <2>1. reserved = h /\ work[h] \in Over
    BY <1>3 DEF OneGoalAtATime, Unserved, ReportsAreTrue, Over
  <2> QED
    BY <2>1, <1>2, GoalsAssumption DEF LastInv
<1>4. PoolInv' /\ LastInv' /\ StepInv'
  BY <1>1 DEF PoolInv, LastInv, StepInv, Rank
<1>5. ReportsAreTrue'
  BY <1>1, <1>3 DEF ReportsAreTrue
<1> QED
  BY <1>4, <1>5

LEMMA CommandsKept ==
    ASSUME TypeOK, OneGoalAtATime, CommandInv, [Next]_vars
    PROVE  CommandInv'
<1>1. CASE UNCHANGED <<work, pool, exec, handle, reserved, strayed>>
  BY <1>1 DEF CommandInv, PoolInv, LastInv, StepInv, ReportsAreTrue, Rank
<1>2. CASE Serve \/ StartPoll \/ EndPoll \/ Interrupt \/ Seal \/ Quiet
  BY <1>1, <1>2 DEF Serve, Service, Configure, Activate, Deactivate, Cleanup, Recover,
     StartPoll, EndPoll, Interrupt, Seal, Quiet, coreVars, goalVars, vars
<1>3. CASE Manage
  <2>1. UNCHANGED goalVars
    BY <1>3 DEF Manage
  <2>2. \/ UNCHANGED <<work, pool>>
        \/ \E outcome : Cancel(facade, outcome)
        \/ \E outcome : CloseSession(outcome) /\ UNCHANGED <<pool, fac, shut>>
    BY <1>3 DEF Manage, Transition, Reopen, Open, Probe, Abandon, CancelMotion, Release,
       Dispose, Close, Connect, coreVars
  <2>3. UNCHANGED <<work, pool>> \/ Nudged
    BY <2>2, CancelNudges, CloseNudges DEF TypeOK
  <2> QED
    BY <1>1, <2>1, <2>3, CommandsNudged DEF goalVars
<1>4. CASE ShutdownCancel \/ ShutdownClose
  <2>1. UNCHANGED goalVars
    BY <1>4 DEF ShutdownCancel, ShutdownClose
  <2>2. \/ UNCHANGED <<work, pool>>
        \/ \E outcome : Cancel(facade, outcome)
        \/ \E outcome : CloseSession(outcome) /\ UNCHANGED <<pool, fac, shut>>
    BY <1>4 DEF ShutdownCancel, ShutdownClose, Close, coreVars
  <2>3. UNCHANGED <<work, pool>> \/ Nudged
    BY <2>2, CancelNudges, CloseNudges DEF TypeOK
  <2> QED
    BY <1>1, <2>1, <2>3, CommandsNudged DEF goalVars
<1>5. ASSUME NEW g \in Goals, Accept(g)
      PROVE  CommandInv'
  BY <1>5, CommandsCalledBack DEF Accept
<1>6. ASSUME NEW g \in Goals, SendCancel(g)
      PROVE  CommandInv'
  <2>1. exec[g] = "cancel" /\ UNCHANGED <<handle, reserved, strayed>>
        /\ \E step \in {"poll", "except"} : Goto(g, step)
    BY <1>6 DEF SendCancel, locks
  <2>2. Nudged
    BY <1>6, CancelNudges DEF SendCancel, TypeOK
  <2> QED
    BY <2>1, <2>2, CommandsNudged
<1>7. ASSUME NEW g \in Goals, Submit(g)
      PROVE  CommandInv'
  <2>1. CASE ~shut
    BY <1>7, <2>1, CommandsSubmitted
  <2>2. CASE shut
    <3>1. /\ Goto(g, "except") /\ exec[g] = "start"
          /\ UNCHANGED <<work, pool, handle, reserved, strayed>>
      BY <1>7, <2>2 DEF Submit, locks
    <3>2. handle' = [handle EXCEPT ![g] = handle[g]] /\ LastInv'
      BY <3>1 DEF TypeOK, CommandInv, LastInv
    <3>3. handle[g] \notin {"succeeded", "canceled"}
      BY <3>1 DEF CommandInv, StepInv
    <3> QED
      BY <3>1, <3>2, <3>3, CallbackMoves
  <2> QED
    BY <2>1, <2>2
<1>8. ASSUME NEW g \in Goals, Run(g)
      PROVE  CommandInv'
  BY <1>6, <1>7, <1>8, CommandsCalledBack DEF Run
<1>9. ASSUME NEW g \in Goals, Command(g)
      PROVE  CommandInv'
  BY <1>9, CommandsWorked DEF Command
<1>10. ASSUME NEW g \in Goals, Stray(g)
       PROVE  CommandInv'
  BY <1>10, CommandsStrayed
<1> QED
  BY <1>1, <1>2, <1>3, <1>4, <1>5, <1>8, <1>9, <1>10 DEF Next, Shutdown, vars, coreVars, goalVars

-----------------------------------------------------------------------------
(* The state of the manager and the session                                *)

\* The worker is inside one command at most.
LEMMA OneLive ==
    ASSUME PoolInv, NEW g \in Goals, NEW h \in Goals,
           work[g] \in Live, work[h] \in Live
    PROVE  g = h
<1>1. \A s \in Live : s \in Unfinished /\ s # "queued"
  BY DEF Live, Unfinished
<1>2. PICK i \in Rank : pool[i] = g
  BY <1>1 DEF PoolInv
<1>3. PICK j \in Rank : pool[j] = h
  BY <1>1 DEF PoolInv
<1>4. i = 1 /\ j = 1
  BY <1>1, <1>2, <1>3 DEF PoolInv
<1> QED
  BY <1>2, <1>3, <1>4

\* A fault of the core is no reason to doubt what the manager says.
LEMMA LinkFaulted ==
    ASSUME LinkInv, NEW f, link' \in {link, Faulted(f)}, UNCHANGED <<facade, transition>>,
           lifecycle' \in {lifecycle, "fault"},
           \A g \in Goals : work'[g] = "running" => fac'[g] = facade /\ link' = "open"
    PROVE  LinkInv'
BY DEF LinkInv, Faulted

LEMMA LinkCancelled ==
    ASSUME TypeOK, PoolInv, LinkInv, NEW f \in Nat, NEW outcome, Cancel(f, outcome)
    PROVE  /\ link' \in {link, Faulted(f)} /\ UNCHANGED <<facade, fac>>
           /\ \A g \in Goals : work'[g] = "running" => fac'[g] = facade /\ link' = "open"
<1>1. Nudged /\ link' \in {link, Faulted(f)} /\ facade' = facade
  BY CancelNudges
<1>2. \A g \in Goals : work'[g] = "running" => work[g] = "running"
  BY <1>1 DEF Nudged
<1>3. CASE link' = link
  BY <1>1, <1>2, <1>3 DEF LinkInv, Nudged
<1>4. CASE link' # link
  <2>1. PICK g \in Active(f) :
           work' = [work EXCEPT ![g] = IF @ \in {"running", "failing"} THEN "failing" ELSE "void"]
    BY <1>4 DEF Cancel
  <2>2. g \in Goals /\ work[g] \in Live /\ work'[g] # "running"
    BY <2>1 DEF Active, TypeOK
  <2>3. \A h \in Goals : work'[h] # "running"
    BY <1>2, <2>2, OneLive DEF Live
  <2> QED
    BY <1>1, <2>3 DEF Nudged
<1> QED
  BY <1>1, <1>3, <1>4 DEF Nudged

\* After a close nothing runs, whichever session is closed.
LEMMA LinkClosed ==
    ASSUME TypeOK, LinkInv, NEW outcome, CloseSession(outcome), UNCHANGED <<pool, fac, shut>>
    PROVE  /\ link' \in {"closed", "dead"} /\ (outcome = "ok" => link' = "closed")
           /\ \A g \in Goals : work'[g] # "running"
<1>1. Nudged /\ link' \in {"closed", "dead"}
      /\ \A g \in Goals : fac[g] = facade => work'[g] # "running"
  BY CloseNudges
<1>2. \A g \in Goals : work'[g] = "running" => work[g] = "running"
  BY <1>1 DEF Nudged
<1>3. outcome = "ok" => link' = "closed"
  BY DEF CloseSession
<1> QED
  BY <1>1, <1>2, <1>3 DEF LinkInv

LEMMA LinkServed ==
    ASSUME TypeOK, LinkInv, Serve
    PROVE  LinkInv'
<1>1. UNCHANGED <<link, fac, work>> /\ Unlocked
  BY DEF Serve, Service, Configure, Activate, Deactivate, Cleanup, Recover, Request, coreVars
<1>2. CASE Configure
  <2>1. link = "closed" /\ built + 1 # 0 /\ \A g \in Goals : work[g] # "running"
    BY <1>2 DEF Configure, Request, LinkInv, TypeOK
  <2> QED
    BY <1>1, <1>2, <2>1 DEF Configure, Request, Settle, LinkInv
<1>3. CASE Activate
  BY <1>1, <1>3 DEF Activate, Request, Call, LinkInv, coreVars, Unlocked
<1>4. CASE Deactivate
  BY <1>1, <1>4 DEF Deactivate, Request, Call, LinkInv, coreVars
<1>5. CASE Cleanup
  BY <1>1, <1>5 DEF Cleanup, Request, Settle, Call, LinkInv, coreVars
<1>6. CASE Recover
  BY <1>1, <1>6 DEF Recover, Request, Call, LinkInv, coreVars
<1> QED
  BY <1>2, <1>3, <1>4, <1>5, <1>6 DEF Serve, Service

LEMMA LinkManaged ==
    ASSUME TypeOK, PoolInv, LinkInv, Manage
    PROVE  LinkInv'
<1>1. transition # "none" /\ facade # 0 /\ lifecycle # "unconfigured"
  BY DEF Manage, Transition, Reopen, Open, Probe, Abandon, CancelMotion, Release, Dispose, LinkInv
<1>2. CASE Reopen
  <2>1. PICK outcome \in {"ok", "failed"} :
           Close(outcome) /\ Call(IF outcome = "ok" THEN "connect" ELSE "abandon")
    BY <1>2 DEF Reopen
  <2>2. (outcome = "ok" => link' = "closed") /\ \A g \in Goals : work'[g] # "running"
    BY <2>1, LinkClosed DEF Close
  <2> QED
    BY <1>1, <2>1, <2>2 DEF Call, Close, LinkInv
<1>3. CASE Open
  <2>1. PICK outcome \in {"ok", "failed"} :
           Connect(outcome) /\ Call(IF outcome = "ok" THEN "probe" ELSE "abandon")
    BY <1>3 DEF Open
  <2>2. link = "closed" /\ \A g \in Goals : work'[g] # "running"
    BY <1>3, <2>1 DEF Open, Connect, LinkInv
  <2> QED
    BY <1>1, <2>1, <2>2 DEF Call, Connect, LinkInv
<1>4. CASE Probe
  BY <1>1, <1>4 DEF Probe, Settle, Call, LinkInv, coreVars
<1>5. CASE Abandon
  <2>1. PICK outcome \in {"ok", "failed"} : Close(outcome)
    BY <1>5 DEF Abandon
  <2>2. \A g \in Goals : work'[g] # "running"
    BY <2>1, LinkClosed DEF Close
  <2> QED
    BY <1>1, <1>5, <2>1, <2>2 DEF Abandon, Close, Settle, LinkInv
<1>6. CASE CancelMotion
  <2>1. PICK outcome :
           Cancel(facade, outcome) /\ (Settle("fault") \/ Call("release"))
    BY <1>6 DEF CancelMotion
  <2>2. /\ UNCHANGED <<facade, fac>>
        /\ \A g \in Goals : work'[g] = "running" => fac'[g] = facade /\ link' = "open"
    BY <2>1, LinkCancelled DEF TypeOK
  <2> QED
    BY <1>1, <2>1, <2>2 DEF Settle, Call, LinkInv
<1>7. CASE Release
  <2>1. PICK outcome \in {"ok", "failed"} :
           Close(outcome) /\ Settle(IF outcome = "ok" THEN "inactive" ELSE "fault")
    BY <1>7 DEF Release
  <2>2. (outcome = "ok" => link' = "closed") /\ \A g \in Goals : work'[g] # "running"
    BY <2>1, LinkClosed DEF Close
  <2> QED
    BY <1>1, <2>1, <2>2 DEF Settle, Close, LinkInv
<1>8. CASE Dispose
  <2>1. CASE /\ CloseSession("ok") /\ Settle("unconfigured") /\ facade' = 0
             /\ UNCHANGED <<built, fac, pool, shut>>
    BY <2>1, LinkClosed DEF Settle, LinkInv
  <2>2. CASE Close("failed") /\ Settle("fault")
    <3>1. \A g \in Goals : work'[g] # "running"
      BY <2>2, LinkClosed DEF Close
    <3> QED
      BY <1>1, <2>2, <3>1 DEF Settle, Close, LinkInv
  <2> QED
    BY <1>8, <2>1, <2>2 DEF Dispose
<1> QED
  BY <1>2, <1>3, <1>4, <1>5, <1>6, <1>7, <1>8 DEF Manage, Transition

\* A goal that is past its command knows that none runs.
LEMMA NoneRuns ==
    ASSUME TypeOK, OneGoalAtATime, CommandInv, NEW g \in Goals,
           exec[g] \in {"late_stop", "stop"}
    PROVE  \A h \in Goals : work[h] # "running"
<1>1. reserved = g /\ work[g] \in Over
  BY DEF OneGoalAtATime, Unserved, CommandInv, StepInv, ReportsAreTrue, Over
<1>2. pool = <<>>
  BY <1>1, GoalsAssumption DEF CommandInv, LastInv
<1>3. Rank = {}
  BY <1>2 DEF Rank
<1> QED
  BY <1>3 DEF CommandInv, PoolInv, Unfinished, Live

LEMMA LinkRun ==
    ASSUME TypeOK, OneGoalAtATime, CommandInv, LinkInv, NEW g \in Goals, Run(g)
    PROVE  LinkInv'
<1>1. UNCHANGED <<facade, transition>> /\ lifecycle' \in {lifecycle, "fault"}
  BY DEF Run, Execute, ReserveGoal, Take, Gate, Refuse, StartRefused, Submit, Poll,
     SendCancel, Result, LateStop, Verdict, SettleGoal, StopSettling, Succeed, Except,
     ReleaseGoal, RecordFault, Cancel, Stop, coreVars, lifeVars
<1>2. CASE UNCHANGED <<link, work, fac>>
  BY <1>1, <1>2, LinkFaulted DEF LinkInv
<1>3. CASE Take(g)
  <2>1. UNCHANGED <<link, work>> /\ \A h \in Goals : h # g => fac'[h] = fac[h]
    BY <1>3 DEF Take, TypeOK
  <2>2. work[g] = "none"
    BY <1>3 DEF Take, CommandInv, StepInv
  <2> QED
    BY <1>1, <2>1, <2>2, LinkFaulted DEF LinkInv
<1>4. CASE Submit(g)
  <2>1. UNCHANGED <<link, fac>> /\ \A h \in Goals : work'[h] = "running" => work[h] = "running"
    BY <1>4 DEF Submit, TypeOK
  <2> QED
    BY <1>1, <2>1, LinkFaulted DEF LinkInv
<1>5. CASE SendCancel(g)
  <2>1. PICK outcome : Cancel(fac[g], outcome)
    BY <1>5 DEF SendCancel
  <2>2. /\ link' \in {link, Faulted(fac[g])}
        /\ \A h \in Goals : work'[h] = "running" => fac'[h] = facade /\ link' = "open"
    <3>1. fac[g] \in Nat
      BY DEF TypeOK
    <3> QED
      BY <2>1, <3>1, LinkCancelled DEF CommandInv
  <2> QED
    BY <1>1, <2>2, LinkFaulted
<1>6. CASE exec[g] \in {"late_stop", "stop"} /\ \E outcome : Stop(g, outcome)
  <2>1. link' \in {link, Faulted(fac[g])} /\ UNCHANGED <<work, fac>>
    BY <1>6 DEF Stop
  <2>2. \A h \in Goals : work'[h] # "running"
    BY <1>6, <2>1, NoneRuns
  <2> QED
    BY <1>1, <2>1, <2>2, LinkFaulted
<1> QED
  BY <1>2, <1>3, <1>4, <1>5, <1>6 DEF Run, Execute, ReserveGoal, Gate, Refuse, StartRefused, Poll,
     Result, LateStop, Verdict, SettleGoal, StopSettling, Succeed, Except, ReleaseGoal, coreVars

LEMMA LinkWorked ==
    ASSUME TypeOK, PoolInv, LinkInv, NEW g \in Goals, Command(g)
    PROVE  LinkInv'
<1>1. PICK stage \in Unfinished \cup Over :
         /\ work' = [work EXCEPT ![g] = stage]
         /\ stage = "running" => LinkOf(g) = "open" /\ link' = link
  BY WorkMoves DEF Command
<1>2. /\ link' \in {link, Faulted(fac[g])} /\ UNCHANGED <<facade, fac, transition, lifecycle>>
      /\ pool # <<>> /\ pool[1] = g /\ work[g] \in Unfinished
  BY WorkMoves, PoolWorked DEF Command, lifeVars
<1>3. ASSUME NEW h \in Goals, work'[h] = "running"
      PROVE  fac'[h] = facade /\ link' = "open"
  <2>1. CASE h = g
    <3>1. stage = "running"
      BY <1>1, <1>3, <2>1 DEF TypeOK
    <3> QED
      BY <1>1, <1>2, <2>1, <3>1 DEF LinkOf
  <2>2. CASE h # g
    <3>1. work[h] = "running"
      BY <1>1, <1>3, <2>2 DEF TypeOK
    <3>2. PICK i \in Rank : pool[i] = h
      BY <3>1 DEF PoolInv, Unfinished, Live
    <3>3. i = 1
      BY <3>1, <3>2 DEF PoolInv
    <3> QED
      BY <1>2, <2>2, <3>2, <3>3
  <2> QED
    BY <2>1, <2>2
<1> QED
  BY <1>2, <1>3, LinkFaulted

LEMMA LinkKept ==
    ASSUME TypeOK, OneGoalAtATime, CommandInv, LinkInv, NodeInv, [Next]_vars
    PROVE  LinkInv'
<1>1. CASE UNCHANGED <<facade, link, fac, work, transition>> /\ lifecycle' \in {lifecycle, "fault"}
  BY <1>1, LinkFaulted DEF LinkInv
<1>2. CASE StartPoll \/ EndPoll \/ Interrupt \/ Seal \/ Quiet
  BY <1>1, <1>2 DEF StartPoll, EndPoll, Interrupt, Seal, Quiet, RecordFault, coreVars,
     lifeVars, vars
<1>3. CASE ShutdownCancel
  <2>1. UNCHANGED <<transition, lifecycle>>
    BY <1>3 DEF ShutdownCancel, lifeVars
  <2>2. CASE UNCHANGED coreVars
    BY <1>1, <2>1, <2>2 DEF coreVars
  <2>3. CASE \E outcome : Cancel(facade, outcome)
    <3>1. /\ link' \in {link, Faulted(facade)} /\ UNCHANGED <<facade, fac>>
          /\ \A g \in Goals : work'[g] = "running" => fac'[g] = facade /\ link' = "open"
      BY <2>3, LinkCancelled DEF TypeOK, CommandInv
    <3> QED
      BY <2>1, <3>1, LinkFaulted
  <2> QED
    BY <1>3, <2>2, <2>3 DEF ShutdownCancel
<1>4. CASE ShutdownClose
  <2>1. transition = "none" /\ transition' = "none"
    BY <1>4 DEF ShutdownClose, NodeInv
  <2>2. CASE facade = 0 /\ lifecycle' = "unconfigured" /\ UNCHANGED coreVars
    BY <2>1, <2>2 DEF LinkInv, coreVars
  <2>3. CASE /\ CloseSession("ok") /\ lifecycle' = "unconfigured" /\ facade' = 0
             /\ UNCHANGED <<built, fac, pool, shut>>
    BY <2>1, <2>3, LinkClosed DEF LinkInv
  <2>4. CASE facade # 0 /\ Close("failed") /\ lifecycle' = "fault"
    <3>1. \A g \in Goals : work'[g] # "running"
      BY <2>4, LinkClosed DEF Close
    <3> QED
      BY <2>1, <2>4, <3>1 DEF Close, LinkInv
  <2> QED
    BY <1>4, <2>2, <2>3, <2>4 DEF ShutdownClose
<1>5. ASSUME NEW g \in Goals, Accept(g) \/ Stray(g)
      PROVE  LinkInv'
  BY <1>1, <1>5 DEF Accept, CheckGoal, CancelGoal, Stray, Progress, coreVars, lifeVars
<1> QED
  BY <1>1, <1>2, <1>3, <1>4, <1>5, LinkServed, LinkManaged, LinkRun, LinkWorked DEF Next,
     Shutdown, CommandInv, vars, coreVars, lifeVars

-----------------------------------------------------------------------------
(* The end of the process                                                  *)

\* What every step but those of Shutdown leaves as it is once the node is not up.
LEMMA NodeLeft ==
    ASSUME NodeInv, UNCHANGED <<node, shut, transition>>, ~polling' \/ polling' = polling,
           node = "gone" => pool' = pool /\ (link = "closed" => link' = "closed"),
           lifecycle' \in {lifecycle, "fault"}
    PROVE  NodeInv'
BY DEF NodeInv

LEMMA NodeKept ==
    ASSUME TypeOK, OneGoalAtATime, CommandInv, LinkInv, NodeInv, [Next]_vars
    PROVE  NodeInv'
<1>1. CASE UNCHANGED vars
  BY <1>1, NodeLeft DEF vars, coreVars, lifeVars
<1>2. CASE Serve \/ Manage \/ StartPoll
  <2>1. node = "up" /\ node' = node
    <3>1. CASE Manage
      BY <3>1 DEF Manage, Transition, Reopen, Open, Probe, Abandon, CancelMotion, Release,
         Dispose, NodeInv
    <3> QED
      BY <1>2, <3>1 DEF Serve, StartPoll
  <2> QED
    BY <2>1 DEF NodeInv
<1>3. CASE EndPoll
  BY <1>3, NodeLeft DEF EndPoll, RecordFault, coreVars, lifeVars
<1>4. CASE Interrupt
  BY <1>4 DEF Interrupt, Unlocked, NodeInv, lifeVars
<1>5. CASE ShutdownCancel
  BY <1>5 DEF ShutdownCancel, NodeInv, lifeVars
<1>6. CASE Seal
  BY <1>6 DEF Seal, NodeInv, lifeVars
<1>7. CASE ShutdownClose
  <2>1. /\ transition' = "none" /\ ~polling' /\ node' = "gone" /\ shut /\ pool = <<>>
    BY <1>7 DEF ShutdownClose, NodeInv
  <2>2. shut' /\ pool' = <<>>
    BY <1>7, <2>1 DEF ShutdownClose, Close, coreVars
  <2>3. link' = "closed" \/ lifecycle' = "fault"
    BY <1>7 DEF ShutdownClose, CloseSession, LinkInv, coreVars
  <2> QED
    BY <2>1, <2>2, <2>3 DEF NodeInv
<1>8. CASE Quiet
  BY <1>1, <1>8 DEF Quiet
<1>9. ASSUME NEW g \in Goals, Accept(g) \/ Stray(g)
      PROVE  NodeInv'
  BY <1>9, NodeLeft DEF Accept, CheckGoal, CancelGoal, Stray, Progress, coreVars, lifeVars
<1>10. ASSUME NEW g \in Goals, Command(g)
       PROVE  NodeInv'
  <2>1. pool # <<>> /\ UNCHANGED <<node, polling, shut, transition, lifecycle>>
    BY <1>10, WorkMoves DEF Command, lifeVars
  <2> QED
    BY <2>1, NodeLeft DEF NodeInv
<1>11. ASSUME NEW g \in Goals, Run(g)
       PROVE  NodeInv'
  <2>1. UNCHANGED <<node, polling, shut, transition>> /\ lifecycle' \in {lifecycle, "fault"}
    BY <1>11 DEF Run, Execute, ReserveGoal, Take, Gate, Refuse, StartRefused, Submit, Poll,
       SendCancel, Result, LateStop, Verdict, SettleGoal, StopSettling, Succeed, Except,
       ReleaseGoal, RecordFault, Cancel, Stop, coreVars, lifeVars
  <2>2. link = "closed" => link' = "closed"
    BY <1>11 DEF Run, Execute, ReserveGoal, Take, Gate, Refuse, StartRefused, Submit, Poll,
       SendCancel, Result, LateStop, Verdict, SettleGoal, StopSettling, Succeed, Except,
       ReleaseGoal, Cancel, Stop, Faulted, coreVars
  <2>3. shut => pool' = pool
    BY <1>11 DEF Run, Execute, ReserveGoal, Take, Gate, Refuse, StartRefused, Submit, Poll,
       SendCancel, Result, LateStop, Verdict, SettleGoal, StopSettling, Succeed, Except,
       ReleaseGoal, Cancel, Stop, coreVars
  <2> QED
    BY <2>1, <2>2, <2>3, NodeLeft DEF NodeInv
<1> QED
  BY <1>1, <1>2, <1>3, <1>4, <1>5, <1>6, <1>7, <1>8, <1>9, <1>10, <1>11 DEF Next, Shutdown

-----------------------------------------------------------------------------
(* The goal handles                                                        *)

Ended == {"succeeded", "canceled", "aborted"}

\* A step of the callback of g that changes the handle as its next step tells.
LEMMA HandleMoves ==
    ASSUME TypeOK, HandleInv, NEW g \in Goals, NEW step, NEW state,
           Goto(g, step), handle' = [handle EXCEPT ![g] = state],
           state = "none" <=> step \in {"idle", "reserve", "rejected"},
           state \in Ended <=> step \in {"release", "done"}
    PROVE  HandleInv'
<1>1. \A h \in Goals : /\ exec'[h] = IF h = g THEN step ELSE exec[h]
                       /\ handle'[h] = IF h = g THEN state ELSE handle[h]
  BY DEF Goto, TypeOK
<1> QED
  BY <1>1 DEF HandleInv, Ended

\* A step of the callback of g that leaves the handle as it is.
LEMMA HandleWaits ==
    ASSUME TypeOK, HandleInv, NEW g \in Goals, NEW step, Goto(g, step), handle' = handle,
           exec[g] \in {"idle", "reserve", "rejected"} <=> step \in {"idle", "reserve", "rejected"},
           exec[g] \in {"release", "done"} <=> step \in {"release", "done"}
    PROVE  HandleInv'
<1>1. handle' = [handle EXCEPT ![g] = handle[g]]
  BY DEF TypeOK
<1> QED
  BY <1>1, HandleMoves DEF HandleInv, Ended

LEMMA HandleKept ==
    ASSUME TypeOK, HandleInv, [Next]_vars
    PROVE  HandleInv'
<1>1. CASE UNCHANGED <<exec, handle>>
  BY <1>1 DEF HandleInv
<1>2. CASE Serve \/ Manage \/ StartPoll \/ EndPoll \/ Interrupt \/ Shutdown \/ Quiet
  BY <1>1, <1>2 DEF Serve, Manage, StartPoll, EndPoll, Interrupt, Shutdown, ShutdownCancel,
     Seal, ShutdownClose, Quiet, goalVars, vars
<1>3. ASSUME NEW g \in Goals, Command(g) \/ Stray(g)
      PROVE  HandleInv'
  BY <1>1, <1>3 DEF Command, Stray, Progress, goalVars
<1>4. ASSUME NEW g \in Goals, CheckGoal(g)
      PROVE  HandleInv'
  BY <1>4, HandleWaits DEF CheckGoal
<1>5. ASSUME NEW g \in Goals, CancelGoal(g)
      PROVE  HandleInv'
  <2>1. Goto(g, exec[g]) /\ handle' = [handle EXCEPT ![g] = "canceling"] /\ handle[g] = "executing"
    BY <1>5 DEF CancelGoal, Goto, TypeOK
  <2> QED
    BY <2>1, HandleMoves DEF HandleInv, Ended
<1>6. ASSUME NEW g \in Goals, ReserveGoal(g)
      PROVE  HandleInv'
  <2>1. CASE handle' = [handle EXCEPT ![g] = "executing"] /\ Goto(g, "take")
    BY <2>1, HandleMoves DEF Ended
  <2>2. CASE Goto(g, "rejected") /\ handle' = handle /\ exec[g] = "reserve"
    BY <2>2, HandleWaits
  <2> QED
    BY <1>6, <2>1, <2>2 DEF ReserveGoal
<1>7. ASSUME NEW g \in Goals, NEW state \in Ended, NEW step \in {"release", "done"},
             Goto(g, step), handle' = [handle EXCEPT ![g] = state]
      PROVE  HandleInv'
  BY <1>7, HandleMoves DEF Ended
<1>8. ASSUME NEW g \in Goals, Execute(g)
      PROVE  HandleInv'
  <2>1. exec[g] \notin {"idle", "reserve", "rejected", "done"}
    BY <1>8 DEF Execute, Take, Gate, Refuse, StartRefused, Submit, Poll, SendCancel, Result,
       LateStop, Verdict, SettleGoal, StopSettling, Succeed, Except, ReleaseGoal
  <2>2. CASE ReleaseGoal(g)
    BY <2>2, HandleWaits DEF ReleaseGoal
  <2>3. CASE \E state \in Ended, step \in {"release", "done"} :
               Goto(g, step) /\ handle' = [handle EXCEPT ![g] = state]
    BY <2>3, <1>7
  <2>4. CASE /\ exec[g] # "release" /\ handle' = handle
             /\ \E step \in Steps \ {"idle", "reserve", "rejected", "release", "done"} :
                   Goto(g, step)
    BY <2>1, <2>4, HandleWaits
  <2> QED
    BY <1>8, <2>2, <2>3, <2>4, ZenonT(60) DEF Execute, Take, Gate, Refuse, StartRefused, Submit,
       Poll, SendCancel, Result, LateStop, Verdict, SettleGoal, StopSettling, Succeed, Except,
       Conclude, ConcludeCanceled, Steps, Ended
<1> QED
  BY <1>1, <1>2, <1>3, <1>4, <1>5, <1>6, <1>8 DEF Next, Accept, Run, vars, goalVars

-----------------------------------------------------------------------------
(* The invariant, and what follows from it                                 *)

LEMMA InitDriver ==
    ASSUME Init
    PROVE  DriverInv
<1> USE DEF Init, CoreInit, LifeInit, GoalInit
<1>1. pool = <<>> /\ pool \in Seq(Goals) /\ Rank = {}
  BY DEF Rank
<1>2. TypeOK
  BY <1>1 DEF TypeOK, Stages, Steps, Handles, Lifecycles, Transitions, NodeSteps
<1>3. OneGoalAtATime
  BY GoalsAssumption DEF OneGoalAtATime, Unserved
<1>4. PoolInv
  BY <1>1 DEF PoolInv, Unfinished, Live
<1>5. LastInv /\ StepInv /\ ReportsAreTrue
  BY DEF LastInv, StepInv, ReportsAreTrue
<1>6. LinkInv /\ NodeInv /\ HandleInv
  BY DEF LinkInv, NodeInv, HandleInv
<1> QED
  BY <1>2, <1>3, <1>4, <1>5, <1>6 DEF DriverInv

\* Whatever the goals, the transitions and the interleaving, the invariant holds.
THEOREM DriverInvariant == Spec => []DriverInv
<1>1. Init => DriverInv
  BY InitDriver
<1>2. DriverInv /\ [Next]_vars => DriverInv'
  BY TypeKept, SerialKept, CommandsKept, LinkKept, NodeKept, HandleKept DEF DriverInv, CommandInv
<1> QED
  BY <1>1, <1>2, PTL DEF Spec

\* The state of the driver keeps its type.
THEOREM TypeCorrect == Spec => []TypeOK
<1>1. DriverInv => TypeOK
  BY DEF DriverInv
<1> QED
  BY <1>1, DriverInvariant, PTL

\* Goals are serialized: however the checks of two goal callbacks interleave, one
\* goal at most is between acceptance and end (action_coordinator.py).
THEOREM Serialized == Spec => []OneGoalAtATime
<1>1. DriverInv => OneGoalAtATime
  BY DEF DriverInv
<1> QED
  BY <1>1, DriverInvariant, PTL

\* The lifecycle state tells the truth about the hardware whenever the manager's
\* lock is free (lifecycle_manager.py).
THEOREM StateIsHonest == Spec => []StateTellsHardware
<1>1. DriverInv => StateTellsHardware
  <2> SUFFICES ASSUME LinkInv, transition = "none"
               PROVE  /\ lifecycle = "active" => link \in {"open", "faulted"} /\ facade # 0
                      /\ lifecycle \in {"inactive", "unconfigured"} =>
                            link = "closed" /\ \A g \in Goals : work[g] # "running"
    BY DEF DriverInv, StateTellsHardware, Unlocked
  <2>1. lifecycle = "active" => link \in {"open", "faulted"} /\ facade # 0
    BY DEF LinkInv
  <2>2. lifecycle \in {"inactive", "unconfigured"} => link = "closed"
    BY DEF LinkInv
  <2>3. link = "closed" => \A g \in Goals : work[g] # "running"
    BY DEF LinkInv
  <2> QED
    BY <2>1, <2>2, <2>3
<1> QED
  BY <1>1, DriverInvariant, PTL

\* A goal reported succeeded or canceled has no command that could still move the
\* robot, and a success hides no path violation (action_coordinator.py).
THEOREM ReportsHold == Spec => []ReportsAreTrue
<1>1. DriverInv => ReportsAreTrue
  BY DEF DriverInv
<1> QED
  BY <1>1, DriverInvariant, PTL

\* After the end of the process no command is left and the port is closed, or a
\* fault is recorded (driver_node.py).
THEOREM QuietAfterEnd == Spec => []GoneIsQuiet
<1>1. DriverInv => GoneIsQuiet
  <2> SUFFICES ASSUME TypeOK, PoolInv, NodeInv, node = "gone", NEW g \in Goals
               PROVE  work[g] \in Over \cup {"none"}
    BY DEF DriverInv, GoneIsQuiet, NodeInv
  <2>1. Rank = {}
    BY DEF NodeInv, Rank
  <2>2. work[g] \in Stages /\ work[g] \notin Unfinished
    BY <2>1 DEF TypeOK, PoolInv
  <2> QED
    BY <2>2 DEF Stages
<1> QED
  BY <1>1, DriverInvariant, PTL

-----------------------------------------------------------------------------
(* The driver implements GoalService                                       *)

Statuses == [g \in Goals |-> Told(handle[g], exec[g])]
Motions == [g \in Goals |-> Moves(work[g])]
Powered == link \in {"open", "faulted"}

Served == [Promised!Next]_(Promised!serviceVars)

LEMMA ToldValue ==
    ASSUME NEW state \in Handles, NEW step
    PROVE  /\ Told(state, step) = "active" <=> state \in {"executing", "canceling"}
           /\ Told(state, step) = "new" <=> state = "none" /\ step # "rejected"
           /\ state = "none" /\ step = "rejected" => Told(state, step) = "rejected"
           /\ state \in Ended => Told(state, step) = state
BY DEF Told, Handles, Ended

LEMMA MovesValue ==
    /\ Moves("none") = "none"
    /\ \A stage \in {"queued", "admitting", "published"} : Moves(stage) = "pending"
    /\ Moves("running") = "moving"
    /\ \A stage \in {"withdrawn", "void", "stopping", "failing"} : Moves(stage) = "stopped"
    /\ Moves("succeeded") = "complete"
    /\ \A stage \in Over \ {"succeeded"} : Moves(stage) = "over"
BY DEF Moves, Over

\* A step that the client and the robot do not notice.
LEMMA Unseen ==
    ASSUME Statuses' = Statuses, Motions' = Motions, Powered' = Powered
    PROVE  Served
BY DEF Served, Promised!serviceVars, Statuses, Motions, Powered

\* What may be told to the client of g.
LEMMA Tells ==
    ASSUME NEW g \in Goals, NEW to, Motions' = Motions, Powered' = Powered,
           Statuses' = [Statuses EXCEPT ![g] = to],
           \/ Statuses[g] = "new" /\ to = "rejected"
           \/ /\ Statuses[g] = "new" /\ to = "active"
              /\ \A h \in Goals \ {g} : Statuses[h] = "active" => Motions[h] = "none"
           \/ Statuses[g] = "active" /\ to = "aborted"
           \/ Statuses[g] = "active" /\ to = "canceled" /\ Motions[g] \in {"none", "complete", "over"}
           \/ Statuses[g] = "active" /\ to = "succeeded" /\ Motions[g] = "complete"
    PROVE  Served
<1>1. CASE Statuses[g] = "new" /\ to = "rejected"
  <2>1. Promised!Reject(g)
    BY <1>1 DEF Promised!Reject, Promised!Tell, Statuses, Motions, Powered
  <2> QED
    BY <2>1 DEF Served, Promised!Next
<1>2. CASE /\ Statuses[g] = "new" /\ to = "active"
           /\ \A h \in Goals \ {g} : Statuses[h] = "active" => Motions[h] = "none"
  <2>1. Promised!Accept(g)
    BY <1>2 DEF Promised!Accept, Promised!Alone, Promised!Tell, Statuses, Motions, Powered
  <2> QED
    BY <2>1 DEF Served, Promised!Next
<1>3. CASE Statuses[g] = "active" /\ to = "aborted"
  <2>1. Promised!Abort(g)
    BY <1>3 DEF Promised!Abort, Promised!Tell, Statuses, Motions, Powered
  <2> QED
    BY <2>1 DEF Served, Promised!Next
<1>4. CASE Statuses[g] = "active" /\ to = "canceled" /\ Motions[g] \in {"none", "complete", "over"}
  <2>1. Promised!Cancel(g)
    BY <1>4 DEF Promised!Cancel, Promised!Tell, Statuses, Motions, Powered
  <2> QED
    BY <2>1 DEF Served, Promised!Next
<1>5. CASE Statuses[g] = "active" /\ to = "succeeded" /\ Motions[g] = "complete"
  <2>1. Promised!Succeed(g)
    BY <1>5 DEF Promised!Succeed, Promised!Tell, Statuses, Motions, Powered
  <2> QED
    BY <2>1 DEF Served, Promised!Next
<1> QED
  BY <1>1, <1>2, <1>3, <1>4, <1>5

\* What the command of g may come to.
LEMMA Turns ==
    ASSUME NEW g \in Goals, NEW to, Statuses' = Statuses, Powered' = Powered,
           Motions' = [Motions EXCEPT ![g] = to],
           \/ /\ Motions[g] = "none" /\ to = "pending" /\ Statuses[g] = "active"
              /\ \A h \in Goals \ {g} : Statuses[h] = "active" => Motions[h] = "none"
           \/ /\ Motions[g] = "pending" /\ to = "moving"
              /\ Powered /\ Statuses[g] \in {"active", "aborted"}
              /\ \A h \in Goals : Motions[h] \notin {"moving", "stopped"}
           \/ Motions[g] \in {"pending", "moving"} /\ to = "stopped"
           \/ Motions[g] = "moving" /\ to = "complete"
           \/ Motions[g] \in {"pending", "moving", "stopped"} /\ to = "over"
    PROVE  Served
<1>1. CASE /\ Motions[g] = "none" /\ to = "pending" /\ Statuses[g] = "active"
           /\ \A h \in Goals \ {g} : Statuses[h] = "active" => Motions[h] = "none"
  <2>1. Promised!Submit(g)
    BY <1>1 DEF Promised!Submit, Promised!Alone, Promised!Turn, Statuses, Motions, Powered
  <2> QED
    BY <2>1 DEF Served, Promised!Next
<1>2. CASE /\ Motions[g] = "pending" /\ to = "moving"
           /\ Powered /\ Statuses[g] \in {"active", "aborted"}
           /\ \A h \in Goals : Motions[h] \notin {"moving", "stopped"}
  <2>1. Promised!Start(g)
    BY <1>2 DEF Promised!Start, Promised!Turn, Statuses, Motions, Powered
  <2> QED
    BY <2>1 DEF Served, Promised!Next
<1>3. CASE Motions[g] \in {"pending", "moving"} /\ to = "stopped"
  <2>1. Promised!Stop(g)
    BY <1>3 DEF Promised!Stop, Promised!Turn, Statuses, Motions, Powered
  <2> QED
    BY <2>1 DEF Served, Promised!Next
<1>4. CASE Motions[g] = "moving" /\ to = "complete"
  <2>1. Promised!Complete(g)
    BY <1>4 DEF Promised!Complete, Promised!Turn, Statuses, Motions, Powered
  <2> QED
    BY <2>1 DEF Served, Promised!Next
<1>5. CASE Motions[g] \in {"pending", "moving", "stopped"} /\ to = "over"
  <2>1. Promised!Fail(g)
    BY <1>5 DEF Promised!Fail, Promised!Turn, Statuses, Motions, Powered
  <2> QED
    BY <2>1 DEF Served, Promised!Next
<1> QED
  BY <1>1, <1>2, <1>3, <1>4, <1>5

\* A step of the callback of g tells its client at most.
LEMMA CallbackTells ==
    ASSUME TypeOK, HandleInv, NEW g \in Goals, NEW step, NEW state \in Handles,
           Goto(g, step), handle' = [handle EXCEPT ![g] = state],
           work' = work, Powered' = Powered,
           \/ Told(state, step) = Statuses[g]
           \/ Statuses[g] = "new" /\ Told(state, step) = "rejected"
           \/ /\ Statuses[g] = "new" /\ state = "executing"
              /\ \A h \in Goals \ {g} : Statuses[h] = "active" => Motions[h] = "none"
           \/ Statuses[g] = "active" /\ state = "aborted"
           \/ /\ Statuses[g] = "active" /\ state = "canceled"
              /\ work[g] \in Over \cup {"none"}
           \/ Statuses[g] = "active" /\ state = "succeeded" /\ work[g] = "succeeded"
    PROVE  Served
<1> DEFINE to == Told(state, step)
<1>1. Statuses' = [Statuses EXCEPT ![g] = to] /\ Motions' = Motions
  BY DEF Goto, TypeOK, Statuses, Motions
<1>2. CASE to = Statuses[g]
  <2>1. Statuses' = Statuses
    BY <1>1, <1>2 DEF Statuses
  <2> QED
    BY <1>1, <2>1, Unseen
<1>3. Motions[g] = Moves(work[g])
  BY DEF Motions
<1>4. work[g] \in Over \cup {"none"} => Motions[g] \in {"none", "complete", "over"}
  BY <1>3, MovesValue DEF Over
<1>5. work[g] = "succeeded" => Motions[g] = "complete"
  BY <1>3, MovesValue
<1>6. /\ state = "executing" => to = "active"
      /\ state \in {"succeeded", "canceled", "aborted"} => to = state
  BY DEF Told
<1>7. CASE Statuses[g] = "new" /\ to = "rejected"
  BY <1>1, <1>7, Tells
<1>8. CASE /\ Statuses[g] = "new" /\ state = "executing"
           /\ \A h \in Goals \ {g} : Statuses[h] = "active" => Motions[h] = "none"
  BY <1>1, <1>6, <1>8, Tells
<1>9. CASE Statuses[g] = "active" /\ state = "aborted"
  BY <1>1, <1>6, <1>9, Tells
<1>10. CASE Statuses[g] = "active" /\ state = "canceled" /\ work[g] \in Over \cup {"none"}
  BY <1>1, <1>4, <1>6, <1>10, Tells
<1>11. CASE Statuses[g] = "active" /\ state = "succeeded" /\ work[g] = "succeeded"
  BY <1>1, <1>5, <1>6, <1>11, Tells
<1> QED
  BY <1>2, <1>7, <1>8, <1>9, <1>10, <1>11

\* The goal of a callback that runs is active; no other active goal has a command.
LEMMA ServedGoal ==
    ASSUME TypeOK, OneGoalAtATime, StepInv, HandleInv, NEW g \in Goals,
           exec[g] \notin {"idle", "reserve", "rejected", "release", "done"}
    PROVE  Statuses[g] = "active"
<1>1. handle[g] \in {"executing", "canceling"}
  BY DEF TypeOK, Handles, HandleInv
<1>2. Told(handle[g], exec[g]) = "active"
  BY <1>1 DEF Told
<1> QED
  BY <1>2 DEF Statuses

LEMMA OthersWait ==
    ASSUME TypeOK, OneGoalAtATime, StepInv, HandleInv, NEW g \in Goals,
           reserved \in {g, NoGoal}, NEW h \in Goals \ {g}, Statuses[h] = "active"
    PROVE  Motions[h] = "none"
<1>1. handle[h] \in {"executing", "canceling"}
  BY ToldValue DEF TypeOK, Statuses
<1>2. exec[h] \notin {"idle", "reserve", "rejected", "release", "done"}
  BY <1>1 DEF HandleInv
<1>3. exec[h] \in Unserved
  BY GoalsAssumption DEF OneGoalAtATime
<1>4. work[h] = "none"
  BY <1>2, <1>3 DEF Unserved, StepInv
<1> QED
  BY <1>4, MovesValue DEF Motions

\* A callback of g that neither submits nor cancels.
LEMMA CallbackServes ==
    ASSUME TypeOK, OneGoalAtATime, CommandInv, HandleInv, NEW g \in Goals,
           \/ CheckGoal(g) \/ CancelGoal(g) \/ ReserveGoal(g)
           \/ Execute(g) /\ ~SendCancel(g) /\ ~Submit(g)
    PROVE  Served
<1>1. work' = work /\ Powered' = Powered
  BY DEF CheckGoal, CancelGoal, ReserveGoal, Execute, Take, Gate, Refuse, StartRefused, Poll,
     Result, LateStop, Verdict, SettleGoal, StopSettling, Succeed, Except, ReleaseGoal, Stop,
     Faulted, Powered, coreVars
<1>2. handle[g] \in Handles /\ handle = [handle EXCEPT ![g] = handle[g]]
      /\ Statuses[g] = Told(handle[g], exec[g])
  BY DEF TypeOK, Statuses
<1>3. ASSUME NEW step, Goto(g, step), handle' = handle,
             handle[g] = "none" => step # "rejected"
      PROVE  Served
  <2>1. Told(handle[g], step) = Statuses[g]
    BY <1>2, <1>3 DEF Told
  <2> QED
    BY <1>1, <1>2, <1>3, <2>1, CallbackTells
<1>4. ASSUME NEW step, NEW state \in {"aborted", "canceled", "succeeded"},
             Goto(g, step), handle' = [handle EXCEPT ![g] = state],
             exec[g] \notin {"idle", "reserve", "rejected", "release", "done"},
             state = "canceled" => work[g] \in Over \cup {"none"},
             state = "succeeded" => work[g] = "succeeded"
      PROVE  Served
  <2>1. Statuses[g] = "active" /\ state \in Handles
    BY <1>4, ServedGoal DEF CommandInv, Handles
  <2> QED
    BY <1>1, <1>4, <2>1, CallbackTells
<1>6. ASSUME Goto(g, "rejected"), handle' = handle, handle[g] = "none", exec[g] # "rejected"
      PROVE  Served
  <2>1. Statuses[g] = "new" /\ Told("none", "rejected") = "rejected"
    BY <1>2, <1>6 DEF Told
  <2> QED
    BY <1>1, <1>2, <1>6, <2>1, CallbackTells
<1>5. CASE CheckGoal(g)
  <2>1. handle[g] = "none" /\ exec[g] = "idle" /\ handle' = handle
    BY <1>5 DEF CheckGoal, HandleInv
  <2>2. CASE Goto(g, "reserve")
    BY <2>1, <2>2, <1>3
  <2>3. CASE Goto(g, "rejected")
    BY <2>1, <2>3, <1>6
  <2> QED
    BY <1>5, <2>2, <2>3 DEF CheckGoal
<1>7. CASE CancelGoal(g)
  <2>1. /\ handle[g] = "executing" /\ handle' = [handle EXCEPT ![g] = "canceling"]
        /\ Goto(g, exec[g])
    BY <1>7 DEF CancelGoal, Goto, TypeOK
  <2>2. Told("canceling", exec[g]) = Statuses[g] /\ "canceling" \in Handles
    BY <2>1, <1>2 DEF Told, Handles
  <2> QED
    BY <1>1, <2>1, <2>2, CallbackTells
<1>8. CASE ReserveGoal(g)
  <2>1. handle[g] = "none" /\ exec[g] = "reserve"
    BY <1>8 DEF ReserveGoal, HandleInv
  <2>2. CASE Goto(g, "rejected") /\ handle' = handle
    BY <2>1, <2>2, <1>6
  <2>3. CASE reserved = NoGoal /\ handle' = [handle EXCEPT ![g] = "executing"] /\ Goto(g, "take")
    <3>1. \A h \in Goals \ {g} : Statuses[h] = "active" => Motions[h] = "none"
      BY <2>3, OthersWait DEF CommandInv
    <3>2. Statuses[g] = "new" /\ "executing" \in Handles
      BY <2>1, <1>2 DEF Told, Handles
    <3> QED
      BY <1>1, <2>3, <3>1, <3>2, CallbackTells
  <2> QED
    BY <1>8, <2>2, <2>3 DEF ReserveGoal
<1>9. CASE Execute(g) /\ ~SendCancel(g) /\ ~Submit(g)
  <2>1. exec[g] \notin {"idle", "reserve", "rejected", "done"}
    BY <1>9 DEF Execute, Take, Gate, Refuse, StartRefused, Poll, Result, LateStop, Verdict,
       SettleGoal, StopSettling, Succeed, Except, ReleaseGoal
  <2>2. handle[g] # "none"
    BY <2>1 DEF HandleInv
  <2>3. /\ exec[g] = "start" => work[g] = "none"
        /\ exec[g] = "verdict" => work[g] \in Over
        /\ exec[g] \in {"stop", "succeed"} => work[g] = "succeeded" /\ work[g] \in Over
    BY DEF CommandInv, StepInv, ReportsAreTrue, Over
  <2>4. CASE handle' = handle /\ \E step : Goto(g, step)
    BY <2>2, <2>4, <1>3
  <2>5. CASE \E state \in {"aborted", "canceled", "succeeded"} : \E step :
               /\ Goto(g, step) /\ handle' = [handle EXCEPT ![g] = state]
               /\ exec[g] # "release"
               /\ state = "canceled" => work[g] \in Over \cup {"none"}
               /\ state = "succeeded" => work[g] = "succeeded"
    BY <2>1, <2>5, <1>4
  <2>6. CASE Take(g) \/ Gate(g) \/ Refuse(g) \/ Poll(g) \/ Result(g) \/ LateStop(g)
             \/ ReleaseGoal(g)
    BY <2>4, <2>5, <2>6 DEF Take, Gate, Refuse, Poll, Result, LateStop, ReleaseGoal
  <2>7. CASE StartRefused(g)
    BY <2>3, <2>5, <2>7 DEF StartRefused, Conclude
  <2>8. CASE Verdict(g)
    BY <2>3, <2>4, <2>5, <2>8 DEF Verdict, Conclude, ConcludeCanceled
  <2>9. CASE SettleGoal(g) \/ Except(g)
    BY <2>4, <2>5, <2>9 DEF SettleGoal, Except, Conclude
  <2>10. CASE StopSettling(g)
    BY <2>3, <2>4, <2>5, <2>10 DEF StopSettling, Conclude, ConcludeCanceled
  <2>11. CASE Succeed(g)
    BY <2>3, <2>5, <2>11 DEF Succeed, Conclude
  <2> QED
    BY <1>9, <2>6, <2>7, <2>8, <2>9, <2>10, <2>11 DEF Execute
<1> QED
  BY <1>5, <1>7, <1>8, <1>9

\* The callback of g submits its command.
LEMMA SubmitServes ==
    ASSUME TypeOK, OneGoalAtATime, CommandInv, HandleInv, NEW g \in Goals, Submit(g)
    PROVE  Served
<1>1. exec[g] = "start" /\ handle' = handle /\ Powered' = Powered
  BY DEF Submit, Powered
<1>2. \E step \in {"except", "poll"} : Goto(g, step)
  BY DEF Submit
<1>3. Statuses[g] = "active" /\ handle[g] # "none"
  BY <1>1, ServedGoal DEF CommandInv, HandleInv
<1>4. Statuses' = Statuses
  <2>1. ASSUME NEW h \in Goals
        PROVE  Told(handle[h], exec'[h]) = Told(handle[h], exec[h])
    BY <1>1, <1>2, <1>3 DEF Told, Goto, TypeOK
  <2> QED
    BY <1>1, <2>1 DEF Statuses
<1>5. CASE work' = work
  BY <1>1, <1>4, <1>5, Unseen DEF Motions
<1>6. CASE work' = [work EXCEPT ![g] = "queued"]
  <2>1. Motions' = [Motions EXCEPT ![g] = "pending"]
    BY <1>6, MovesValue DEF Motions, TypeOK
  <2>2. Motions[g] = "none"
    BY <1>1, MovesValue DEF Motions, CommandInv, StepInv
  <2>3. reserved = g
    BY <1>1 DEF OneGoalAtATime, Unserved
  <2>4. \A h \in Goals \ {g} : Statuses[h] = "active" => Motions[h] = "none"
    BY <2>3, OthersWait DEF CommandInv
  <2> QED
    BY <1>1, <1>3, <1>4, <2>1, <2>2, <2>4, Turns
<1> QED
  BY <1>5, <1>6 DEF Submit

\* A cancel stops one command at most.
LEMMA CancelTurns ==
    ASSUME TypeOK, NEW f \in Nat, NEW outcome, Cancel(f, outcome), Statuses' = Statuses
    PROVE  Served
<1>1. Powered' = Powered
  BY DEF Cancel, Faulted, Powered
<1>2. CASE work' = work
  BY <1>1, <1>2, Unseen DEF Motions
<1>3. CASE work' # work
  <2>1. PICK g \in Active(f) : \E stage \in {"withdrawn", "void", "stopping", "failing"} :
           work' = [work EXCEPT ![g] = stage]
    BY <1>3 DEF Cancel
  <2>2. PICK stage \in {"withdrawn", "void", "stopping", "failing"} :
           work' = [work EXCEPT ![g] = stage]
    BY <2>1
  <2>3. g \in Goals /\ work[g] \in Live
    BY DEF Active
  <2>4. Motions' = [Motions EXCEPT ![g] = "stopped"]
    BY <2>2, <2>3, MovesValue DEF Motions, TypeOK
  <2>5. Motions[g] \in {"pending", "moving", "stopped"}
    BY <2>3, MovesValue DEF Motions, Live
  <2>6. CASE Motions[g] = "stopped"
    <3>1. Motions' = Motions
      BY <2>4, <2>6 DEF Motions
    <3> QED
      BY <1>1, <3>1, Unseen
  <2>7. CASE Motions[g] \in {"pending", "moving"}
    BY <1>1, <2>3, <2>4, <2>7, Turns
  <2> QED
    BY <2>5, <2>6, <2>7
<1> QED
  BY <1>2, <1>3

\* A close cuts the power and stops what moves.
LEMMA CloseTurns ==
    ASSUME TypeOK, LinkInv, NEW outcome, CloseSession(outcome), Statuses' = Statuses
    PROVE  Served
<1> DEFINE running == {g \in Active(facade) : work[g] = "running"}
           After(stage) == [g \in Goals |-> IF g \in running THEN stage ELSE work[g]]
<1>1. PICK stage \in {"stopping", "failing"} : work' = After(stage)
  BY DEF CloseSession
<1>2. link' \in {"closed", "dead"}
  BY DEF CloseSession
<1>3. \A g \in Goals : work[g] = "running" => g \in running /\ link = "open"
  BY DEF LinkInv, Active, Live
<1>4. ~Powered'
  BY <1>2 DEF Powered
<1>5. ASSUME NEW g \in Goals
      PROVE  Moves(work'[g]) = IF Moves(work[g]) = "moving" THEN "stopped" ELSE Moves(work[g])
  <2>1. CASE work[g] = "running"
    BY <1>1, <1>3, <2>1, MovesValue
  <2>2. CASE work[g] # "running"
    <3>1. work'[g] = work[g] /\ Moves(work[g]) # "moving"
      BY <1>1, <2>2 DEF Moves
    <3> QED
      BY <3>1
  <2> QED
    BY <2>1, <2>2
<1>6. Motions' = [g \in Goals |-> IF Motions[g] = "moving" THEN "stopped" ELSE Motions[g]]
  BY <1>5 DEF Motions
<1>7. CASE Powered
  <2>1. Promised!Close
    BY <1>4, <1>6, <1>7 DEF Promised!Close, Statuses, Motions, Powered
  <2> QED
    BY <2>1 DEF Served, Promised!Next
<1>8. CASE ~Powered
  <2>1. \A g \in Goals : work[g] # "running"
    BY <1>3, <1>8 DEF Powered
  <2>2. \A g \in Goals : Motions[g] # "moving"
    BY <2>1 DEF Motions, Moves
  <2>3. Motions' = Motions
    BY <1>6, <2>2 DEF Motions
  <2> QED
    BY <1>4, <1>8, <2>3, Unseen DEF Powered
<1> QED
  BY <1>7, <1>8

\* Opening a session powers the robot at most.
LEMMA ConnectServes ==
    ASSUME TypeOK, NEW outcome, Connect(outcome), Statuses' = Statuses
    PROVE  Served
<1>1. Motions' = Motions
  BY DEF Connect, Motions
<1>2. CASE link' = link
  BY <1>1, <1>2, Unseen DEF Powered
<1>3. CASE link = "closed" /\ link' = "open"
  <2>1. Promised!Open
    BY <1>1, <1>3 DEF Promised!Open, Statuses, Motions
  <2> QED
    BY <2>1 DEF Served, Promised!Next
<1> QED
  BY <1>2, <1>3 DEF Connect

\* The command that begins is the only one the worker has begun.
LEMMA BeginServes ==
    ASSUME TypeOK, CommandInv, LinkInv, HandleInv, NEW g \in Goals, Statuses' = Statuses,
           work[g] = "published", work' = [work EXCEPT ![g] = "running"],
           LinkOf(g) = "open", link' = link
    PROVE  Served
<1>1. Motions' = [Motions EXCEPT ![g] = "moving"] /\ Motions[g] = "pending"
  BY MovesValue DEF Motions, TypeOK
<1>2. Powered /\ Powered' = Powered
  BY DEF LinkOf, Powered
<1>3. Statuses[g] \in {"active", "aborted"}
  <2>1. exec[g] \notin {"idle", "reserve", "rejected"}
    BY DEF CommandInv, StepInv
  <2>2. handle[g] \in Handles /\ handle[g] \notin {"none", "succeeded", "canceled"}
    BY <2>1 DEF TypeOK, HandleInv, CommandInv, ReportsAreTrue, Over
  <2>3. Told(handle[g], exec[g]) \in {"active", "aborted"}
    BY <2>2 DEF Told, Handles
  <2> QED
    BY <2>3 DEF Statuses
<1>4. ASSUME NEW h \in Goals
      PROVE  Motions[h] \notin {"moving", "stopped"}
  <2>1. h # g => work[h] \notin Live
    BY OneLive DEF CommandInv, Live
  <2>2. CASE h = g
    BY <1>1, <2>2
  <2>3. CASE h # g
    <3>1. work[h] \in Stages \ Live
      BY <2>1, <2>3 DEF TypeOK
    <3> QED
      BY <3>1 DEF Motions, Moves, Stages, Unfinished, Live, Over
  <2> QED
    BY <2>2, <2>3
<1> QED
  BY <1>1, <1>2, <1>3, <1>4, Turns

\* A step of the worker.
LEMMA WorkServes ==
    ASSUME TypeOK, CommandInv, LinkInv, HandleInv, NEW g \in Goals, Work(g),
           Statuses' = Statuses
    PROVE  Served
<1>1. link' \in {link, Faulted(fac[g])}
  BY WorkMoves
<1>2. Powered' = Powered
  BY <1>1 DEF Faulted, Powered
<1>3. ASSUME NEW stage, work' = [work EXCEPT ![g] = stage]
      PROVE  Motions' = [Motions EXCEPT ![g] = Moves(stage)]
  BY <1>3 DEF Motions, TypeOK
<1>4. ASSUME NEW stage, work' = [work EXCEPT ![g] = stage],
             work[g] \in {"queued", "admitting"}, stage \in {"admitting", "published"}
      PROVE  Served
  <2>1. Motions' = Motions
    BY <1>3, <1>4, MovesValue DEF Motions
  <2> QED
    BY <1>2, <2>1, Unseen
<1>5. ASSUME NEW stage, work' = [work EXCEPT ![g] = stage],
             work[g] \in Unfinished, stage \in Over \ {"succeeded"}
      PROVE  Served
  <2>1. Motions[g] \in {"pending", "moving", "stopped"}
    BY <1>5, MovesValue DEF Motions, Unfinished, Live
  <2>2. Motions' = [Motions EXCEPT ![g] = "over"]
    BY <1>3, <1>5, MovesValue
  <2> QED
    BY <1>2, <2>1, <2>2, Turns
<1>6. ASSUME work' = [work EXCEPT ![g] = "succeeded"], work[g] = "running"
      PROVE  Served
  <2>1. Motions[g] = "moving"
    BY <1>6, MovesValue DEF Motions
  <2>2. Motions' = [Motions EXCEPT ![g] = "complete"]
    BY <1>3, <1>6, MovesValue
  <2> QED
    BY <1>2, <2>1, <2>2, Turns
<1>7. work[g] \in Unfinished
  BY WorkMoves
<1>8. ASSUME Fail(g)
      PROVE  Served
  BY <1>5, <1>7, <1>8 DEF Fail, Finish, Over
<1>9. CASE Ready(g)
  BY <1>4, <1>5, <1>7, <1>9 DEF Ready, Working, Reach, Finish, Over
<1>10. CASE Admit(g)
  BY <1>4, <1>5, <1>7, <1>8, <1>10 DEF Admit, Working, Reach, Finish, Over
<1>11. CASE Begin(g)
  BY <1>8, <1>11, BeginServes DEF Begin, Working, Reach
<1>12. CASE End(g)
  BY <1>5, <1>6, <1>7, <1>8, <1>12 DEF End, Working, Finish, Over
<1> QED
  BY <1>9, <1>10, <1>11, <1>12 DEF Work

LEMMA InitServes == Init => Promised!Init
<1> SUFFICES ASSUME Init PROVE Promised!Init
  OBVIOUS
<1>1. Told("none", "idle") = "new" /\ Moves("none") = "none"
  BY DEF Told, Moves
<1> QED
  BY <1>1 DEF Init, CoreInit, GoalInit, Promised!Init

LEMMA StepServes ==
    ASSUME DriverInv, [Next]_vars
    PROVE  Served
<1> USE DEF DriverInv, CommandInv
<1>1. UNCHANGED <<handle, exec>> => Statuses' = Statuses
  BY DEF Statuses
<1>2. CASE UNCHANGED <<handle, exec, work, link>>
  BY <1>1, <1>2, Unseen DEF Motions, Powered
<1>3. CASE Serve \/ StartPoll \/ EndPoll \/ Interrupt \/ Seal \/ Quiet
  BY <1>2, <1>3 DEF Serve, Service, Configure, Activate, Deactivate, Cleanup, Recover,
     StartPoll, EndPoll, Interrupt, Seal, Quiet, coreVars, goalVars, vars
<1>4. CASE Manage
  <2>1. Statuses' = Statuses
    BY <1>1, <1>4 DEF Manage, goalVars
  <2>2. \/ UNCHANGED coreVars
        \/ \E outcome : Connect(outcome) \/ Cancel(facade, outcome) \/ CloseSession(outcome)
    BY <1>4 DEF Manage, Transition, Reopen, Open, Probe, Abandon, CancelMotion, Release,
       Dispose, Close
  <2>3. CASE UNCHANGED coreVars
    BY <1>2, <1>4, <2>3 DEF Manage, goalVars, coreVars
  <2> QED
    BY <2>1, <2>2, <2>3, ConnectServes, CancelTurns, CloseTurns DEF TypeOK
<1>5. CASE ShutdownCancel \/ ShutdownClose
  <2>1. Statuses' = Statuses
    BY <1>1, <1>5 DEF ShutdownCancel, ShutdownClose, goalVars
  <2>2. \/ UNCHANGED coreVars
        \/ \E outcome : Cancel(facade, outcome) \/ CloseSession(outcome)
    BY <1>5 DEF ShutdownCancel, ShutdownClose, Close
  <2>3. CASE UNCHANGED coreVars
    BY <1>2, <1>5, <2>3 DEF ShutdownCancel, ShutdownClose, goalVars, coreVars
  <2> QED
    BY <2>1, <2>2, <2>3, CancelTurns, CloseTurns DEF TypeOK
<1>6. ASSUME NEW g \in Goals, Accept(g)
      PROVE  Served
  BY <1>6, CallbackServes DEF Accept
<1>7. ASSUME NEW g \in Goals, SendCancel(g)
      PROVE  Served
  <2>1. exec[g] = "cancel" /\ handle' = handle /\ \E step \in {"poll", "except"} : Goto(g, step)
    BY <1>7 DEF SendCancel
  <2>2. Statuses' = Statuses
    <3>1. ASSUME NEW h \in Goals
          PROVE  Told(handle[h], exec'[h]) = Told(handle[h], exec[h])
      BY <2>1 DEF Told, Goto, TypeOK
    <3> QED
      BY <2>1, <3>1 DEF Statuses
  <2> QED
    BY <1>7, <2>2, CancelTurns DEF SendCancel, TypeOK
<1>8. ASSUME NEW g \in Goals, Run(g)
      PROVE  Served
  BY <1>6, <1>7, <1>8, CallbackServes, SubmitServes DEF Run
<1>9. ASSUME NEW g \in Goals, Command(g)
      PROVE  Served
  BY <1>1, <1>9, WorkServes DEF Command, goalVars
<1>10. ASSUME NEW g \in Goals, Stray(g)
       PROVE  Served
  BY <1>2, <1>10 DEF Stray, Progress, coreVars
<1> QED
  BY <1>2, <1>3, <1>4, <1>5, <1>6, <1>8, <1>9, <1>10 DEF Next, Shutdown, vars, coreVars, goalVars

\* The driver implements GoalService: whatever clients, services, polls, the worker
\* and the end of the process interleave, commands start alone and with an open
\* port, a stopped one never moves again, and what clients are told is true.
THEOREM DriverServesGoals == Spec => ServesGoals
<1>1. DriverInv /\ [Next]_vars => [Promised!Next]_(Promised!serviceVars)
  BY StepServes DEF Served
<1> QED
  BY <1>1, InitServes, DriverInvariant, PTL DEF Spec, ServesGoals, Promised!Spec
=============================================================================

------------------------- MODULE RobotSessionProofs -------------------------
(***************************************************************************)
(* Proofs about RobotSession, for every set of threads, every trajectory   *)
(* length and every number of calls.                                       *)
(***************************************************************************)
EXTENDS RobotSession, TLAPS

(***************************************************************************)
(* Type correctness                                                        *)
(***************************************************************************)

\* What the steps of execute rely on: from the moment it is called it has a
\* command id, and the waypoint it is about to handle exists.
LocalsOK ==
    \A t \in Threads :
        /\ pc[t] \in OwnerLabels \cup {"acquire"} => cmd[t] \in Commands
        /\ pc[t] \notin OwnerLabels \ {"admit", "publish", "accept"} => point[t] = 0
        /\ pc[t] \in {"wait", "write", "read"} => point[t] < Waypoints

TypeInv == TypeOK /\ LocalsOK

\* Every event leads to a driver state.
LEMMA Targets == \A event \in DriverEvent : Target(event) \in DriverState
BY DEF Target, DriverEvent, DriverState

\* The first state is well typed.
LEMMA TypeInit == Init => TypeInv
<1> SUFFICES ASSUME Init PROVE TypeInv
  OBVIOUS
<1>1. /\ driver \in DriverState
      /\ adapter \in BOOLEAN /\ connected \in BOOLEAN
      /\ handling \in [Threads -> BOOLEAN]
  BY DEF Init, ExecInit, DriverState
<1>2. /\ pc \in [Threads -> Labels]
      /\ outcome \in [Commands -> Outcomes]
      /\ execLock \in Threads \cup {NoThread}
      /\ lane \in Threads \cup {NoThread}
      /\ lifecycle \in Threads \cup {NoThread}
  BY DEF Init, ExecInit, Labels, Outcomes
<1>3. /\ generation \in Nat
      /\ active \in Commands \cup {NoCommand}
      /\ cmd \in [Threads -> Commands \cup {NoCommand}]
      /\ point \in [Threads -> 0 .. Waypoints]
      /\ accepted \in [Threads -> Nat]
      /\ writes \in [Commands -> Nat]
      /\ stops \in [Commands -> Nat]
  BY WaypointsAssumption DEF Init, ExecInit
<1>4. /\ budget \in [Calls -> Nat]
      /\ \A call \in Calls : budget[call] <= CallBudget[call]
  BY CallBudgetAssumption DEF Init, ExecInit
<1>5. /\ stopOutcome \in [id : Commands \cup {NoCommand}, ok : BOOLEAN]
      /\ stopAcked \in SUBSET Commands
      /\ canceled \in SUBSET Commands
  BY DEF Init, ExecInit, NoStop
<1>6. TypeOK
  BY <1>1, <1>2, <1>3, <1>4, <1>5 DEF TypeOK
<1>7. LocalsOK
  BY DEF Init, ExecInit, LocalsOK, OwnerLabels
<1> QED
  BY <1>6, <1>7 DEF TypeInv

\* Every step of execute keeps the state well typed.
LEMMA TypeExecuteStep ==
    ASSUME TypeInv, NEW t \in Threads, ExecuteStep(t), UNCHANGED sessionVars
    PROVE  TypeInv'
<1> USE DEF TypeInv
<1>1. CASE Acquire(t)
  <2>1. execLock' \in Threads \cup {NoThread}
    BY <1>1 DEF Acquire, TypeOK
  <2>2. pc' \in [Threads -> Labels]
    BY <1>1 DEF Acquire, Goto, Labels, TypeOK
  <2>3. cmd' \in [Threads -> Commands \cup {NoCommand}]
    BY <1>1 DEF Acquire, NoCommand, OwnerLabels, TypeOK
  <2>4. outcome' \in [Commands -> Outcomes]
    BY <1>1 DEF Acquire, Settle, Outcomes, TypeOK
  <2>5. TypeOK'
    BY <1>1, <2>1, <2>2, <2>3, <2>4 DEF Acquire, TypeOK, lanes, locals,
        history, sessionVars
  <2>6. LocalsOK'
    BY <1>1, WaypointsAssumption DEF Acquire, TypeOK, LocalsOK, Goto,
        OwnerLabels, NoCommand, lanes, locals, history, sessionVars
  <2> QED
    BY <2>5, <2>6
<1>2. CASE Admit(t)
  <2>1. lane' \in Threads \cup {NoThread}
    BY <1>2 DEF Admit, Raise, Leave, TypeOK
  <2>2. handling' \in [Threads -> BOOLEAN]
    BY <1>2 DEF Admit, Raise, TypeOK
  <2>3. pc' \in [Threads -> Labels]
    BY <1>2 DEF Admit, Raise, Leave, Goto, Labels, TypeOK
  <2>4. outcome' \in [Commands -> Outcomes]
    BY <1>2 DEF Admit, Leave, Settle, Outcomes, TypeOK
  <2>5. TypeOK'
    BY <1>2, <2>1, <2>2, <2>3, <2>4 DEF Admit, TypeOK, Raise, Leave, lanes,
        locals, history, sessionVars
  <2>6. LocalsOK'
    BY <1>2, WaypointsAssumption DEF Admit, TypeOK, LocalsOK, Goto,
        OwnerLabels, NoCommand, Raise, Leave, lanes, locals, history,
        sessionVars
  <2> QED
    BY <2>5, <2>6
<1>3. CASE Publish(t)
  <2>1. active' \in Commands \cup {NoCommand}
    BY <1>3 DEF Publish, OwnerLabels, TypeOK, LocalsOK
  <2>2. stopOutcome' \in [id : Commands \cup {NoCommand}, ok : BOOLEAN]
    BY <1>3 DEF Publish, OwnerLabels, NoStop, NoCommand, TypeOK, LocalsOK
  <2>3. pc' \in [Threads -> Labels]
    BY <1>3 DEF Publish, Goto, Labels, TypeOK
  <2>4. accepted' \in [Threads -> Nat]
    BY <1>3 DEF Publish, TypeOK
  <2>5. TypeOK'
    BY <1>3, <2>1, <2>2, <2>3, <2>4 DEF Publish, TypeOK, lanes, locals,
        history, sessionVars
  <2>6. LocalsOK'
    BY <1>3, WaypointsAssumption DEF Publish, TypeOK, LocalsOK, Goto,
        OwnerLabels, NoCommand, lanes, locals, history, sessionVars
  <2> QED
    BY <2>5, <2>6
<1>4. CASE Accept(t)
  <2>1. driver' \in DriverState
    BY <1>4, Targets DEF Accept, DriverEvent, TypeOK
  <2>2. lane' \in Threads \cup {NoThread}
    BY <1>4 DEF Accept, Raise, TypeOK
  <2>3. handling' \in [Threads -> BOOLEAN]
    BY <1>4 DEF Accept, Raise, TypeOK
  <2>4. pc' \in [Threads -> Labels]
    BY <1>4 DEF Accept, Raise, Goto, Labels, TypeOK
  <2>5. TypeOK'
    BY <1>4, <2>1, <2>2, <2>3, <2>4 DEF Accept, TypeOK, Raise, lanes, locals,
        history, sessionVars
  <2>6. LocalsOK'
    BY <1>4, WaypointsAssumption DEF Accept, TypeOK, LocalsOK, Goto,
        OwnerLabels, NoCommand, Raise, lanes, locals, history, sessionVars
  <2> QED
    BY <2>5, <2>6
<1>5. CASE WaitPoint(t)
  <2>1. pc' \in [Threads -> Labels]
    BY <1>5 DEF WaitPoint, Goto, Labels, TypeOK
  <2>2. TypeOK'
    BY <1>5, <2>1 DEF WaitPoint, TypeOK, lanes, locals, history, sessionVars
  <2>3. LocalsOK'
    BY <1>5, WaypointsAssumption DEF WaitPoint, TypeOK, LocalsOK, Goto,
        OwnerLabels, NoCommand, lanes, locals, history, sessionVars
  <2> QED
    BY <2>2, <2>3
<1>6. CASE WritePoint(t)
  <2>1. lane' \in Threads \cup {NoThread}
    BY <1>6 DEF WritePoint, Raise, TypeOK
  <2>2. handling' \in [Threads -> BOOLEAN]
    BY <1>6 DEF WritePoint, Raise, TypeOK
  <2>3. pc' \in [Threads -> Labels]
    BY <1>6 DEF WritePoint, Raise, Goto, Labels, TypeOK
  <2>4. writes' \in [Commands -> Nat]
    BY <1>6 DEF WritePoint, OwnerLabels, TypeOK
  <2>5. TypeOK'
    BY <1>6, <2>1, <2>2, <2>3, <2>4 DEF WritePoint, TypeOK, Raise, lanes,
        locals, history, sessionVars
  <2>6. LocalsOK'
    BY <1>6, WaypointsAssumption DEF WritePoint, TypeOK, LocalsOK, Goto,
        OwnerLabels, NoCommand, Raise, lanes, locals, history, sessionVars
  <2> QED
    BY <2>5, <2>6
<1>7. CASE ReadBack(t)
  <2>1. lane' \in Threads \cup {NoThread}
    BY <1>7 DEF ReadBack, Raise, TypeOK
  <2>2. handling' \in [Threads -> BOOLEAN]
    BY <1>7 DEF ReadBack, Raise, TypeOK
  <2>3. pc' \in [Threads -> Labels]
    BY <1>7 DEF ReadBack, Raise, Goto, Labels, TypeOK
  <2>4. point' \in [Threads -> 0 .. Waypoints]
    BY <1>7, WaypointsAssumption DEF ReadBack, TypeOK, LocalsOK
  <2>5. TypeOK'
    BY <1>7, <2>1, <2>2, <2>3, <2>4 DEF ReadBack, TypeOK, Raise, lanes,
        locals, history, sessionVars
  <2>6. LocalsOK'
    BY <1>7, WaypointsAssumption DEF ReadBack, TypeOK, LocalsOK, Goto,
        OwnerLabels, NoCommand, Raise, lanes, locals, history, sessionVars
  <2> QED
    BY <2>5, <2>6
<1>8. CASE Finalize(t)
  <2>1. driver' \in DriverState
    BY <1>8, Targets DEF Finalize, DriverEvent, TypeOK
  <2>2. lane' \in Threads \cup {NoThread}
    BY <1>8 DEF Finalize, Raise, Leave, TypeOK
  <2>3. handling' \in [Threads -> BOOLEAN]
    BY <1>8 DEF Finalize, Raise, TypeOK
  <2>4. pc' \in [Threads -> Labels]
    BY <1>8 DEF Finalize, Raise, Leave, Goto, Labels, TypeOK
  <2>5. active' \in Commands \cup {NoCommand}
    BY <1>8 DEF Finalize, NoCommand, OwnerLabels, TypeOK, LocalsOK
  <2>6. outcome' \in [Commands -> Outcomes]
    BY <1>8 DEF Finalize, Leave, Settle, Outcomes, TypeOK
  <2>7. TypeOK'
    BY <1>8, <2>1, <2>2, <2>3, <2>4, <2>5, <2>6 DEF Finalize, TypeOK, Raise,
        Leave, lanes, locals, history, sessionVars
  <2>8. LocalsOK'
    BY <1>8, WaypointsAssumption DEF Finalize, TypeOK, LocalsOK, Goto,
        OwnerLabels, NoCommand, Raise, Leave, lanes, locals, history,
        sessionVars
  <2> QED
    BY <2>7, <2>8
<1>9. CASE CancelStop(t)
  <2>1. stopOutcome' \in [id : Commands \cup {NoCommand}, ok : BOOLEAN]
    BY <1>9 DEF CancelStop, IssueStop, OwnerLabels, TypeOK, LocalsOK
  <2>2. stops' \in [Commands -> Nat]
    BY <1>9 DEF CancelStop, IssueStop, OwnerLabels, TypeOK, LocalsOK
  <2>3. stopAcked' \in SUBSET Commands
    BY <1>9 DEF CancelStop, IssueStop, OwnerLabels, TypeOK, LocalsOK
  <2>4. pc' \in [Threads -> Labels]
    BY <1>9 DEF CancelStop, Goto, Labels, TypeOK
  <2>5. TypeOK'
    BY <1>9, <2>1, <2>2, <2>3, <2>4 DEF CancelStop, TypeOK, lanes, locals,
        history, sessionVars
  <2>6. LocalsOK'
    BY <1>9, WaypointsAssumption DEF CancelStop, TypeOK, LocalsOK, Goto,
        OwnerLabels, NoCommand, lanes, locals, history, sessionVars
  <2> QED
    BY <2>5, <2>6
<1>10. CASE CancelCheck(t)
  <2>1. lane' \in Threads \cup {NoThread}
    BY <1>10 DEF CancelCheck, Leave, TypeOK
  <2>2. pc' \in [Threads -> Labels]
    BY <1>10 DEF CancelCheck, Leave, Goto, Labels, TypeOK
  <2>3. outcome' \in [Commands -> Outcomes]
    BY <1>10 DEF CancelCheck, Leave, Settle, Outcomes, TypeOK
  <2>4. TypeOK'
    BY <1>10, <2>1, <2>2, <2>3 DEF CancelCheck, TypeOK, Leave, lanes, locals,
        history, sessionVars
  <2>5. LocalsOK'
    BY <1>10, WaypointsAssumption DEF CancelCheck, TypeOK, LocalsOK, Goto,
        OwnerLabels, NoCommand, Leave, lanes, locals, history, sessionVars
  <2> QED
    BY <2>4, <2>5
<1>11. CASE CancelApply(t)
  <2>1. driver' \in DriverState
    BY <1>11, Targets DEF CancelApply, DriverEvent, TypeOK
  <2>2. lane' \in Threads \cup {NoThread}
    BY <1>11 DEF CancelApply, Raise, Leave, TypeOK
  <2>3. handling' \in [Threads -> BOOLEAN]
    BY <1>11 DEF CancelApply, Raise, TypeOK
  <2>4. pc' \in [Threads -> Labels]
    BY <1>11 DEF CancelApply, Raise, Leave, Goto, Labels, TypeOK
  <2>5. outcome' \in [Commands -> Outcomes]
    BY <1>11 DEF CancelApply, Leave, Settle, Outcomes, TypeOK
  <2>6. TypeOK'
    BY <1>11, <2>1, <2>2, <2>3, <2>4, <2>5 DEF CancelApply, TypeOK, Raise,
        Leave, lanes, locals, history, sessionVars
  <2>7. LocalsOK'
    BY <1>11, WaypointsAssumption DEF CancelApply, TypeOK, LocalsOK, Goto,
        OwnerLabels, NoCommand, Raise, Leave, lanes, locals, history,
        sessionVars
  <2> QED
    BY <2>6, <2>7
<1>12. CASE FailStop(t)
  <2>1. stopOutcome' \in [id : Commands \cup {NoCommand}, ok : BOOLEAN]
    BY <1>12 DEF FailStop, IssueStop, OwnerLabels, TypeOK, LocalsOK
  <2>2. stops' \in [Commands -> Nat]
    BY <1>12 DEF FailStop, IssueStop, OwnerLabels, TypeOK, LocalsOK
  <2>3. stopAcked' \in SUBSET Commands
    BY <1>12 DEF FailStop, IssueStop, OwnerLabels, TypeOK, LocalsOK
  <2>4. pc' \in [Threads -> Labels]
    BY <1>12 DEF FailStop, Goto, Labels, TypeOK
  <2>5. TypeOK'
    BY <1>12, <2>1, <2>2, <2>3, <2>4 DEF FailStop, TypeOK, lanes, locals,
        history, sessionVars
  <2>6. LocalsOK'
    BY <1>12, WaypointsAssumption DEF FailStop, TypeOK, LocalsOK, Goto,
        OwnerLabels, NoCommand, lanes, locals, history, sessionVars
  <2> QED
    BY <2>5, <2>6
<1>13. CASE FailCheck(t)
  <2>1. lane' \in Threads \cup {NoThread}
    BY <1>13 DEF FailCheck, Leave, TypeOK
  <2>2. pc' \in [Threads -> Labels]
    BY <1>13 DEF FailCheck, Leave, Goto, Labels, TypeOK
  <2>3. outcome' \in [Commands -> Outcomes]
    BY <1>13 DEF FailCheck, Leave, Settle, Outcomes, TypeOK
  <2>4. TypeOK'
    BY <1>13, <2>1, <2>2, <2>3 DEF FailCheck, TypeOK, Leave, lanes, locals,
        history, sessionVars
  <2>5. LocalsOK'
    BY <1>13, WaypointsAssumption DEF FailCheck, TypeOK, LocalsOK, Goto,
        OwnerLabels, NoCommand, Leave, lanes, locals, history, sessionVars
  <2> QED
    BY <2>4, <2>5
<1>14. CASE FailApply(t)
  <2>1. driver' \in DriverState
    BY <1>14, Targets DEF FailApply, DriverEvent, TypeOK
  <2>2. lane' \in Threads \cup {NoThread}
    BY <1>14 DEF FailApply, Raise, Leave, TypeOK
  <2>3. handling' \in [Threads -> BOOLEAN]
    BY <1>14 DEF FailApply, Raise, TypeOK
  <2>4. pc' \in [Threads -> Labels]
    BY <1>14 DEF FailApply, Raise, Leave, Goto, Labels, TypeOK
  <2>5. outcome' \in [Commands -> Outcomes]
    BY <1>14 DEF FailApply, Leave, Settle, Outcomes, TypeOK
  <2>6. TypeOK'
    BY <1>14, <2>1, <2>2, <2>3, <2>4, <2>5 DEF FailApply, TypeOK, Raise,
        Leave, lanes, locals, history, sessionVars
  <2>7. LocalsOK'
    BY <1>14, WaypointsAssumption DEF FailApply, TypeOK, LocalsOK, Goto,
        OwnerLabels, NoCommand, Raise, Leave, lanes, locals, history,
        sessionVars
  <2> QED
    BY <2>6, <2>7
<1>15. CASE Finally(t)
  <2>1. execLock' \in Threads \cup {NoThread}
    BY <1>15 DEF Finally, TypeOK
  <2>2. active' \in Commands \cup {NoCommand}
    BY <1>15 DEF Finally, NoCommand, OwnerLabels, TypeOK, LocalsOK
  <2>3. cmd' \in [Threads -> Commands \cup {NoCommand}]
    BY <1>15 DEF Finally, NoCommand, OwnerLabels, TypeOK
  <2>4. point' \in [Threads -> 0 .. Waypoints]
    BY <1>15, WaypointsAssumption DEF Finally, TypeOK, LocalsOK
  <2>5. accepted' \in [Threads -> Nat]
    BY <1>15 DEF Finally, TypeOK
  <2>6. handling' \in [Threads -> BOOLEAN]
    BY <1>15 DEF Finally, TypeOK
  <2>7. pc' \in [Threads -> Labels]
    BY <1>15 DEF Finally, Goto, Labels, TypeOK
  <2>8. TypeOK'
    BY <1>15, <2>1, <2>2, <2>3, <2>4, <2>5, <2>6, <2>7 DEF Finally, TypeOK,
        lanes, locals, history, sessionVars
  <2>9. LocalsOK'
    BY <1>15, WaypointsAssumption DEF Finally, TypeOK, LocalsOK, Goto,
        OwnerLabels, NoCommand, lanes, locals, history, sessionVars
  <2> QED
    BY <2>8, <2>9
<1> QED
  BY <1>1, <1>2, <1>3, <1>4, <1>5, <1>6, <1>7, <1>8, <1>9, <1>10, <1>11,
      <1>12, <1>13, <1>14, <1>15 DEF ExecuteStep

\* The steps of the calls other than execute.
ControlLabels == Labels \ (OwnerLabels \cup {"acquire"})

\* stop_now, wherever it is called, keeps the state well typed.
LEMMA TypeStopNow ==
    ASSUME TypeInv, NEW t \in Threads,
           NEW here \in ControlLabels, NEW check \in ControlLabels, NEW next \in ControlLabels,
           StopNow(t, here, check, next), UNCHANGED sessionVars
    PROVE  TypeInv'
<1> USE DEF TypeInv
<1>1. generation' \in Nat
  BY DEF StopNow, TypeOK
<1>2. canceled' \in SUBSET Commands
  BY DEF StopNow, TypeOK, NoCommand
<1>3. lane' \in Threads \cup {NoThread}
  BY DEF StopNow, TypeOK
<1>4. stopOutcome' \in [id : Commands \cup {NoCommand}, ok : BOOLEAN]
  <2>1. CASE active = NoCommand
    <3>1. stopOutcome' = NoStop
      BY <2>1 DEF StopNow, IssueAdHocStop
    <3>2. NoStop \in [id : Commands \cup {NoCommand}, ok : BOOLEAN]
      BY DEF NoStop
    <3> QED
      BY <3>1, <3>2
  <2>2. CASE active # NoCommand
    BY <2>2 DEF StopNow, IssueStop, TypeOK
  <2> QED
    BY <2>1, <2>2
<1>5. stops' \in [Commands -> Nat]
  BY DEF StopNow, IssueStop, IssueAdHocStop, NoStop, NoCommand, TypeOK
<1>6. stopAcked' \in SUBSET Commands
  BY DEF StopNow, IssueStop, IssueAdHocStop, NoStop, NoCommand, TypeOK
<1>7. pc' \in [Threads -> Labels]
  BY DEF StopNow, Goto, ControlLabels, TypeOK
<1>8. TypeOK'
  BY <1>1, <1>2, <1>3, <1>4, <1>5, <1>6, <1>7 DEF StopNow, TypeOK, lanes,
      locals, history, sessionVars
<1>9. LocalsOK'
  BY DEF StopNow, TypeOK, LocalsOK, Goto, ControlLabels, OwnerLabels, lanes,
      locals, history, sessionVars
<1> QED
  BY <1>8, <1>9

\* So does the check after a failed stop.
LEMMA TypeStopFaultCheck ==
    ASSUME TypeInv, NEW t \in Threads,
           NEW check \in ControlLabels, NEW fault \in ControlLabels, NEW next \in ControlLabels,
           StopFaultCheck(t, check, fault, next), UNCHANGED sessionVars
    PROVE  TypeInv'
<1> USE DEF TypeInv
<1>1. lane' \in Threads \cup {NoThread}
  BY DEF StopFaultCheck, TypeOK
<1>2. pc' \in [Threads -> Labels]
  BY DEF StopFaultCheck, Goto, ControlLabels, TypeOK
<1>3. TypeOK'
  BY <1>1, <1>2 DEF StopFaultCheck, TypeOK, lanes, locals, history,
      sessionVars
<1>4. LocalsOK'
  BY DEF StopFaultCheck, TypeOK, LocalsOK, Goto, ControlLabels, OwnerLabels,
      lanes, locals, history, sessionVars
<1> QED
  BY <1>3, <1>4

\* And the fault applied after it.
LEMMA TypeStopFault ==
    ASSUME TypeInv, NEW t \in Threads,
           NEW fault \in ControlLabels, NEW next \in ControlLabels,
           StopFault(t, fault, next), UNCHANGED sessionVars
    PROVE  TypeInv'
<1> USE DEF TypeInv
<1>1. driver' \in DriverState
  BY Targets DEF StopFault, DriverEvent, TypeOK
<1>2. lane' \in Threads \cup {NoThread}
  BY DEF StopFault, TypeOK
<1>3. pc' \in [Threads -> Labels]
  BY DEF StopFault, Goto, ControlLabels, TypeOK
<1>4. TypeOK'
  BY <1>1, <1>2, <1>3 DEF StopFault, TypeOK, lanes, locals, history,
      sessionVars
<1>5. LocalsOK'
  BY DEF StopFault, TypeOK, LocalsOK, Goto, ControlLabels, OwnerLabels, lanes,
      locals, history, sessionVars
<1> QED
  BY <1>4, <1>5

\* Every step of cancel_current_command and of a public stop keeps the types.
LEMMA TypeControlStep ==
    ASSUME TypeInv, NEW t \in Threads, ControlStep(t), UNCHANGED sessionVars
    PROVE  TypeInv'
<1> USE DEF TypeInv
<1>0. {"idle", "cancel", "cancel_check", "cancel_fault", "stop", "stop_check",
       "stop_fault"} \subseteq ControlLabels
  BY DEF ControlLabels, Labels, OwnerLabels
<1>1. CASE CancelNow(t)
  <2>1. generation' \in Nat
    BY <1>1 DEF CancelNow, TypeOK
  <2>2. canceled' \in SUBSET Commands
    BY <1>1 DEF CancelNow, TypeOK, history
  <2>3. lane' \in Threads \cup {NoThread}
    BY <1>1 DEF CancelNow, TypeOK
  <2>4. stopOutcome' \in [id : Commands \cup {NoCommand}, ok : BOOLEAN]
    BY <1>1 DEF CancelNow, IssueStop, TypeOK
  <2>5. stops' \in [Commands -> Nat]
    BY <1>1 DEF CancelNow, IssueStop, TypeOK, history
  <2>6. stopAcked' \in SUBSET Commands
    BY <1>1 DEF CancelNow, IssueStop, TypeOK, history
  <2>7. pc' \in [Threads -> Labels]
    BY <1>1 DEF CancelNow, Goto, Labels, TypeOK
  <2>8. writes' = writes /\ outcome' = outcome
    BY <1>1 DEF CancelNow, history
  <2>9. TypeOK'
    BY <1>1, <2>1, <2>2, <2>3, <2>4, <2>5, <2>6, <2>7, <2>8
       DEF CancelNow, TypeOK, locals, sessionVars
  <2>10. LocalsOK'
    BY <1>1 DEF CancelNow, TypeOK, LocalsOK, Goto, OwnerLabels, locals
  <2> QED
    BY <2>9, <2>10
<1>2. CASE StopFaultCheck(t, "cancel_check", "cancel_fault", "idle")
  BY <1>0, <1>2, TypeStopFaultCheck
<1>3. CASE StopFault(t, "cancel_fault", "idle")
  BY <1>0, <1>3, TypeStopFault
<1>4. CASE StopNow(t, "stop", "stop_check", "idle")
  BY <1>0, <1>4, TypeStopNow
<1>5. CASE StopFaultCheck(t, "stop_check", "stop_fault", "idle")
  BY <1>0, <1>5, TypeStopFaultCheck
<1>6. CASE StopFault(t, "stop_fault", "idle")
  BY <1>0, <1>6, TypeStopFault
<1> QED
  BY <1>1, <1>2, <1>3, <1>4, <1>5, <1>6 DEF ControlStep

\* A call that is made uses up one unit of its budget.
LEMMA SpendKeepsBudget ==
    ASSUME TypeOK, NEW call \in Calls, Spend(call)
    PROVE  /\ budget' \in [Calls -> Nat]
           /\ \A other \in Calls : budget'[other] <= CallBudget[other]
<1>1. budget[call] \in Nat /\ budget[call] > 0
  BY DEF TypeOK, Spend
<1>2. budget' = [budget EXCEPT ![call] = budget[call] - 1]
  BY DEF Spend
<1>3. budget \in [Calls -> Nat]
  BY DEF TypeOK
<1>4. budget[call] - 1 \in Nat
  BY <1>1
<1>5. budget' \in [Calls -> Nat]
  BY <1>2, <1>3, <1>4
<1>6. ASSUME NEW other \in Calls PROVE budget'[other] <= CallBudget[other]
  <2>1. budget[other] \in Nat /\ CallBudget[other] \in Nat
        /\ budget[other] <= CallBudget[other]
    BY <1>6, CallBudgetAssumption DEF TypeOK
  <2>2. budget'[other] \in {budget[other], budget[other] - 1}
    BY <1>2, <1>3
  <2> QED
    BY <2>1, <2>2
<1> QED
  BY <1>5, <1>6

\* An execute call that is made gets a command id of its own.
LEMMA NextCommandFresh ==
    ASSUME TypeOK, Spend("execute")
    PROVE  NextCommand \in Commands
<1>1. "execute" \in Calls
  BY DEF Calls
<1>2. /\ budget["execute"] \in Nat /\ CallBudget["execute"] \in Nat
      /\ budget["execute"] <= CallBudget["execute"]
  BY <1>1, CallBudgetAssumption DEF TypeOK
<1>3. budget["execute"] > 0
  BY DEF Spend
<1> QED
  BY <1>2, <1>3 DEF NextCommand, Commands

\* Every public call begins in a well typed state.
LEMMA TypeInvoke ==
    ASSUME TypeInv, NEW t \in Threads, Invoke(t)
    PROVE  TypeInv'
<1> USE DEF TypeInv
<1>1. CASE InvokeExecute(t)
  <2>1. budget' \in [Calls -> Nat]
        /\ \A call \in Calls : budget'[call] <= CallBudget[call]
    BY <1>1, SpendKeepsBudget DEF InvokeExecute, Calls
  <2>2. pc' \in [Threads -> Labels]
    BY <1>1 DEF InvokeExecute, Goto, Labels, TypeOK
  <2>3. cmd' \in [Threads -> Commands \cup {NoCommand}]
    BY <1>1, NextCommandFresh DEF InvokeExecute, TypeOK
  <2>4. TypeOK'
    BY <1>1, <2>1, <2>2, <2>3 DEF InvokeExecute, TypeOK, lanes, locals,
        history, sessionVars
  <2>5. connected => cmd'[t] \in Commands
    BY <1>1, NextCommandFresh DEF InvokeExecute, TypeOK
  <2>6. LocalsOK'
    BY <1>1, <2>5 DEF InvokeExecute, TypeOK, LocalsOK, Goto, OwnerLabels,
        lanes, locals, history, sessionVars
  <2> QED
    BY <2>4, <2>6
<1>2. CASE InvokeCancel(t)
  <2>1. budget' \in [Calls -> Nat]
        /\ \A call \in Calls : budget'[call] <= CallBudget[call]
    BY <1>2, SpendKeepsBudget DEF InvokeCancel, Calls
  <2>2. pc' \in [Threads -> Labels]
    BY <1>2 DEF InvokeCancel, Goto, Labels, TypeOK
  <2>3. TypeOK'
    BY <1>2, <2>1, <2>2 DEF InvokeCancel, TypeOK, lanes, locals, history,
        sessionVars
  <2>4. LocalsOK'
    BY <1>2 DEF InvokeCancel, TypeOK, LocalsOK, Goto, OwnerLabels, lanes,
        locals, history, sessionVars
  <2> QED
    BY <2>3, <2>4
<1>3. CASE InvokeStop(t)
  <2>1. budget' \in [Calls -> Nat]
        /\ \A call \in Calls : budget'[call] <= CallBudget[call]
    BY <1>3, SpendKeepsBudget DEF InvokeStop, Calls
  <2>2. pc' \in [Threads -> Labels]
    BY <1>3 DEF InvokeStop, Goto, Labels, TypeOK
  <2>3. TypeOK'
    BY <1>3, <2>1, <2>2 DEF InvokeStop, TypeOK, lanes, locals, history,
        sessionVars
  <2>4. LocalsOK'
    BY <1>3 DEF InvokeStop, TypeOK, LocalsOK, Goto, OwnerLabels, lanes,
        locals, history, sessionVars
  <2> QED
    BY <2>3, <2>4
<1>4. CASE InvokeRecover(t)
  <2>1. budget' \in [Calls -> Nat]
        /\ \A call \in Calls : budget'[call] <= CallBudget[call]
    BY <1>4, SpendKeepsBudget DEF InvokeRecover, Calls
  <2>2. pc' \in [Threads -> Labels]
    BY <1>4 DEF InvokeRecover, Goto, Labels, TypeOK
  <2>3. TypeOK'
    BY <1>4, <2>1, <2>2 DEF InvokeRecover, TypeOK, lanes, locals, history,
        sessionVars
  <2>4. LocalsOK'
    BY <1>4 DEF InvokeRecover, TypeOK, LocalsOK, Goto, OwnerLabels, lanes,
        locals, history, sessionVars
  <2> QED
    BY <2>3, <2>4
<1>5. CASE InvokeConnect(t)
  <2>1. budget' \in [Calls -> Nat]
        /\ \A call \in Calls : budget'[call] <= CallBudget[call]
    BY <1>5, SpendKeepsBudget DEF InvokeConnect, Calls
  <2>2. lifecycle' \in Threads \cup {NoThread}
    BY <1>5 DEF InvokeConnect, TypeOK
  <2>3. driver' \in DriverState
    BY <1>5, Targets DEF InvokeConnect, DriverEvent, TypeOK
  <2>4. pc' \in [Threads -> Labels]
    BY <1>5 DEF InvokeConnect, Goto, Labels, TypeOK
  <2>5. TypeOK'
    BY <1>5, <2>1, <2>2, <2>3, <2>4 DEF InvokeConnect, TypeOK, lanes, locals,
        history, sessionVars
  <2>6. LocalsOK'
    BY <1>5 DEF InvokeConnect, TypeOK, LocalsOK, Goto, OwnerLabels, lanes,
        locals, history, sessionVars
  <2> QED
    BY <2>5, <2>6
<1>6. CASE InvokeClose(t)
  <2>1. budget' \in [Calls -> Nat]
        /\ \A call \in Calls : budget'[call] <= CallBudget[call]
    BY <1>6, SpendKeepsBudget DEF InvokeClose, Calls
  <2>2. lifecycle' \in Threads \cup {NoThread}
    BY <1>6 DEF InvokeClose, TypeOK
  <2>3. pc' \in [Threads -> Labels]
    BY <1>6 DEF InvokeClose, Goto, Labels, TypeOK
  <2>4. TypeOK'
    BY <1>6, <2>1, <2>2, <2>3 DEF InvokeClose, TypeOK, lanes, locals, history,
        sessionVars
  <2>5. LocalsOK'
    BY <1>6 DEF InvokeClose, TypeOK, LocalsOK, Goto, OwnerLabels, lanes,
        locals, history, sessionVars
  <2> QED
    BY <2>4, <2>5
<1> QED
  BY <1>1, <1>2, <1>3, <1>4, <1>5, <1>6 DEF Invoke

\* Every step of connect, close and recover keeps the types.
LEMMA TypeSessionStep ==
    ASSUME TypeInv, NEW t \in Threads, SessionStep(t)
    PROVE  TypeInv'
<1> USE DEF TypeInv
<1>1. {"dis_stop", "dis_stop_check", "dis_stop_fault", "dis_hw"} \subseteq ControlLabels
  BY DEF ControlLabels, Labels, OwnerLabels
<1>2. CASE DisconnectStop(t)
  BY <1>1, <1>2, TypeStopNow, TypeStopFaultCheck, TypeStopFault DEF DisconnectStop
<1>3. CASE ConnectOpen(t)
  <2>1. adapter' \in BOOLEAN
    BY <1>3 DEF ConnectOpen, TypeOK
  <2>2. pc' \in [Threads -> Labels]
    BY <1>3 DEF ConnectOpen, Goto, Labels, TypeOK
  <2>3. TypeOK'
    BY <1>3, <2>1, <2>2 DEF ConnectOpen, TypeOK, lanes, locals, history,
        sessionVars
  <2>4. LocalsOK'
    BY <1>3 DEF ConnectOpen, TypeOK, LocalsOK, Goto, OwnerLabels, lanes,
        locals, history, sessionVars
  <2> QED
    BY <2>3, <2>4
<1>4. CASE ConnectDone(t)
  <2>1. driver' \in DriverState
    BY <1>4, Targets DEF ConnectDone, DriverEvent, TypeOK
  <2>2. pc' \in [Threads -> Labels]
    BY <1>4 DEF ConnectDone, Goto, Labels, TypeOK
  <2>3. TypeOK'
    BY <1>4, <2>1, <2>2 DEF ConnectDone, TypeOK, lanes, locals, history,
        sessionVars
  <2>4. LocalsOK'
    BY <1>4 DEF ConnectDone, TypeOK, LocalsOK, Goto, OwnerLabels, lanes,
        locals, history, sessionVars
  <2> QED
    BY <2>3, <2>4
<1>5. CASE ConnectCleanup(t)
  <2>1. adapter' \in BOOLEAN
    BY <1>5 DEF ConnectCleanup, TypeOK
  <2>2. driver' \in DriverState
    BY <1>5, Targets DEF ConnectCleanup, DriverEvent, TypeOK
  <2>3. lifecycle' \in Threads \cup {NoThread}
    BY <1>5 DEF ConnectCleanup, TypeOK
  <2>4. pc' \in [Threads -> Labels]
    BY <1>5 DEF ConnectCleanup, Goto, Labels, TypeOK
  <2>5. TypeOK'
    BY <1>5, <2>1, <2>2, <2>3, <2>4 DEF ConnectCleanup, TypeOK, lanes, locals,
        history, sessionVars
  <2>6. LocalsOK'
    BY <1>5 DEF ConnectCleanup, TypeOK, LocalsOK, Goto, OwnerLabels, lanes,
        locals, history, sessionVars
  <2> QED
    BY <2>5, <2>6
<1>6. CASE ConnectReset(t)
  <2>1. driver' \in DriverState
    BY <1>6, Targets DEF ConnectReset, DriverEvent, TypeOK
  <2>2. lifecycle' \in Threads \cup {NoThread}
    BY <1>6 DEF ConnectReset, TypeOK
  <2>3. pc' \in [Threads -> Labels]
    BY <1>6 DEF ConnectReset, Goto, Labels, TypeOK
  <2>4. TypeOK'
    BY <1>6, <2>1, <2>2, <2>3 DEF ConnectReset, TypeOK, lanes, locals,
        history, sessionVars
  <2>5. LocalsOK'
    BY <1>6 DEF ConnectReset, TypeOK, LocalsOK, Goto, OwnerLabels, lanes,
        locals, history, sessionVars
  <2> QED
    BY <2>4, <2>5
<1>7. CASE Probe(t)
  <2>1. connected' \in BOOLEAN
    BY <1>7 DEF Probe, sessionVars, TypeOK
  <2>2. lifecycle' \in Threads \cup {NoThread}
    BY <1>7 DEF Probe, sessionVars, TypeOK
  <2>3. pc' \in [Threads -> Labels]
    BY <1>7 DEF Probe, Goto, Labels, TypeOK
  <2>4. TypeOK'
    BY <1>7, <2>1, <2>2, <2>3 DEF Probe, TypeOK, lanes, locals, history,
        sessionVars
  <2>5. LocalsOK'
    BY <1>7 DEF Probe, TypeOK, LocalsOK, Goto, OwnerLabels, lanes, locals,
        history, sessionVars
  <2> QED
    BY <2>4, <2>5
<1>8. CASE DisconnectCheck(t)
  <2>1. pc' \in [Threads -> Labels]
    BY <1>8 DEF DisconnectCheck, Goto, Labels, TypeOK
  <2>2. TypeOK'
    BY <1>8, <2>1 DEF DisconnectCheck, TypeOK, lanes, locals, history,
        sessionVars
  <2>3. LocalsOK'
    BY <1>8 DEF DisconnectCheck, TypeOK, LocalsOK, Goto, OwnerLabels, lanes,
        locals, history, sessionVars
  <2> QED
    BY <2>2, <2>3
<1>9. CASE DisconnectHardware(t)
  <2>1. adapter' \in BOOLEAN
    BY <1>9 DEF DisconnectHardware, TypeOK
  <2>2. lifecycle' \in Threads \cup {NoThread}
    BY <1>9 DEF DisconnectHardware, TypeOK
  <2>3. pc' \in [Threads -> Labels]
    BY <1>9 DEF DisconnectHardware, Goto, Labels, TypeOK
  <2>4. TypeOK'
    BY <1>9, <2>1, <2>2, <2>3 DEF DisconnectHardware, TypeOK, lanes, locals,
        history, sessionVars
  <2>5. LocalsOK'
    BY <1>9 DEF DisconnectHardware, TypeOK, LocalsOK, Goto, OwnerLabels,
        lanes, locals, history, sessionVars
  <2> QED
    BY <2>4, <2>5
<1>10. CASE DisconnectApply(t)
  <2>1. driver' \in DriverState
    BY <1>10, Targets DEF DisconnectApply, DriverEvent, TypeOK
  <2>2. connected' \in BOOLEAN
    BY <1>10 DEF DisconnectApply, TypeOK
  <2>3. lifecycle' \in Threads \cup {NoThread}
    BY <1>10 DEF DisconnectApply, TypeOK
  <2>4. pc' \in [Threads -> Labels]
    BY <1>10 DEF DisconnectApply, Goto, Labels, TypeOK
  <2>5. TypeOK'
    BY <1>10, <2>1, <2>2, <2>3, <2>4 DEF DisconnectApply, TypeOK, lanes,
        locals, history, sessionVars
  <2>6. LocalsOK'
    BY <1>10 DEF DisconnectApply, TypeOK, LocalsOK, Goto, OwnerLabels, lanes,
        locals, history, sessionVars
  <2> QED
    BY <2>5, <2>6
<1>11. CASE RecoverCheck(t)
  <2>1. pc' \in [Threads -> Labels]
    BY <1>11 DEF RecoverCheck, Goto, Labels, TypeOK
  <2>2. TypeOK'
    BY <1>11, <2>1 DEF RecoverCheck, TypeOK, lanes, locals, history,
        sessionVars
  <2>3. LocalsOK'
    BY <1>11 DEF RecoverCheck, TypeOK, LocalsOK, Goto, OwnerLabels, lanes,
        locals, history, sessionVars
  <2> QED
    BY <2>2, <2>3
<1>12. CASE RecoverRequest(t)
  <2>1. driver' \in DriverState
    BY <1>12, Targets DEF RecoverRequest, DriverEvent, TypeOK
  <2>2. pc' \in [Threads -> Labels]
    BY <1>12 DEF RecoverRequest, Goto, Labels, TypeOK
  <2>3. TypeOK'
    BY <1>12, <2>1, <2>2 DEF RecoverRequest, TypeOK, lanes, locals, history,
        sessionVars
  <2>4. LocalsOK'
    BY <1>12 DEF RecoverRequest, TypeOK, LocalsOK, Goto, OwnerLabels, lanes,
        locals, history, sessionVars
  <2> QED
    BY <2>3, <2>4
<1>13. CASE RecoverRead(t)
  <2>1. driver' \in DriverState
    BY <1>13, Targets DEF RecoverRead, DriverEvent, TypeOK
  <2>2. pc' \in [Threads -> Labels]
    BY <1>13 DEF RecoverRead, Goto, Labels, TypeOK
  <2>3. TypeOK'
    BY <1>13, <2>1, <2>2 DEF RecoverRead, TypeOK, lanes, locals, history,
        sessionVars
  <2>4. LocalsOK'
    BY <1>13 DEF RecoverRead, TypeOK, LocalsOK, Goto, OwnerLabels, lanes,
        locals, history, sessionVars
  <2> QED
    BY <2>3, <2>4
<1> QED
  BY <1>2, <1>3, <1>4, <1>5, <1>6, <1>7, <1>8, <1>9, <1>10, <1>11, <1>12, <1>13 DEF
      SessionStep

\* The type invariant is preserved by every step.
LEMMA TypeNext == TypeInv /\ [Next]_vars => TypeInv'
<1> SUFFICES ASSUME TypeInv, [Next]_vars PROVE TypeInv'
  OBVIOUS
<1>1. ASSUME NEW t \in Threads, Invoke(t) PROVE TypeInv'
  BY <1>1, TypeInvoke
<1>2. ASSUME NEW t \in Threads, Step(t) PROVE TypeInv'
  BY <1>2, TypeExecuteStep, TypeControlStep, TypeSessionStep DEF Step
<1>3. CASE UNCHANGED vars
  BY <1>3 DEF TypeInv, TypeOK, LocalsOK, vars, execVars, lanes, locals, history,
              sessionVars
<1> QED
  BY <1>1, <1>2, <1>3 DEF Next, Quiet

\* Type correctness: whatever the interleaving of public calls, every variable
\* of the core keeps its type.
THEOREM TypeCorrect == Spec => []TypeOK
<1>1. TypeInv => TypeOK
  BY DEF TypeInv
<1> QED
  BY <1>1, TypeInit, TypeNext, PTL DEF Spec

-----------------------------------------------------------------------------
(***************************************************************************)
(* The session, the driver and the adapter agree, whatever calls run while *)
(* the session is opened and closed.                                       *)
(***************************************************************************)
\* The steps of connect and close, which hold the lifecycle lock, and those
\* of connect that run with the driver in CONNECTING.
ConnectingLabels == {"conn_open", "conn_done", "conn_cleanup"}

SessionLabels ==
    ConnectingLabels \cup
    {"conn_reset", "probe", "dis_check", "dis_stop", "dis_stop_check",
     "dis_stop_fault", "dis_hw", "dis_apply"}

\* The lifecycle lock is held by the thread inside connect or close, and by no other.
LockInv == \A t \in Threads : lifecycle = t <=> pc[t] \in SessionLabels

\* CONNECTING belongs to connect, and nobody but the holder of the lock leads
\* into or out of DISCONNECTED.
PhaseInv ==
    /\ \A t \in Threads : pc[t] \in SessionLabels => driver # "disconnected"
    /\ \A t \in Threads : pc[t] \in ConnectingLabels => driver = "connecting"
    /\ driver = "connecting" => \E t \in Threads : pc[t] \in ConnectingLabels

\* The adapter is closed before the driver says so, and the session becomes
\* ready only at the end of connect.
ReleaseInv ==
    /\ driver = "disconnected" => ~adapter /\ ~connected
    /\ \A t \in Threads : pc[t] \in {"conn_reset", "dis_apply"} => ~adapter
    /\ \A t \in Threads : pc[t] \in ConnectingLabels \cup {"conn_reset", "probe"} => ~connected

LifecycleInv == TypeInv /\ LockInv /\ PhaseInv /\ ReleaseInv

\* What every step outside connect and close has in common.
Elsewhere(t) ==
    /\ pc[t] \in Labels \ SessionLabels
    /\ pc' \in {pc} \cup {[pc EXCEPT ![t] = label] : label \in Labels \ SessionLabels}
    /\ \/ driver' = driver
       \/ driver \notin {"disconnected", "connecting"} /\ driver' \notin {"disconnected", "connecting"}
    /\ UNCHANGED <<adapter, sessionVars>>

LEMMA LifecycleElsewhere ==
    ASSUME LifecycleInv, TypeInv', NEW t \in Threads, Elsewhere(t)
    PROVE  LifecycleInv'
<1> USE DEF LifecycleInv
<1>1. pc \in [Threads -> Labels]
  BY DEF TypeInv, TypeOK
<1>2. LockInv'
  BY <1>1 DEF LockInv, Elsewhere, sessionVars
<1>3. PhaseInv'
  BY <1>1 DEF PhaseInv, Elsewhere, SessionLabels
<1>4. ReleaseInv'
  BY <1>1 DEF ReleaseInv, Elsewhere, SessionLabels, sessionVars
<1> QED
  BY <1>2, <1>3, <1>4

\* The steps of execute move the driver among the connected states.
LEMMA ExecuteElsewhere ==
    ASSUME TypeInv, NEW t \in Threads, ExecuteStep(t), UNCHANGED sessionVars
    PROVE  Elsewhere(t)
<1>1. OwnerLabels \cup {"acquire", "idle"} \subseteq Labels \ SessionLabels
  BY DEF Labels, OwnerLabels, SessionLabels, ConnectingLabels
<1>2. CASE Acquire(t) \/ Admit(t) \/ Publish(t) \/ WaitPoint(t) \/ WritePoint(t) \/ ReadBack(t)
  BY <1>1, <1>2 DEF Acquire, Admit, Publish, WaitPoint, WritePoint, ReadBack, Leave, Raise,
      Goto, Elsewhere, OwnerLabels
<1>3. CASE Accept(t) \/ Finalize(t)
  BY <1>1, <1>3 DEF Accept, Finalize, Leave, Raise, Goto, Elsewhere, OwnerLabels, Permits,
      Sources, Target
<1>4. CASE CancelStop(t) \/ CancelCheck(t) \/ FailStop(t) \/ FailCheck(t) \/ Finally(t)
  BY <1>1, <1>4 DEF CancelStop, CancelCheck, FailStop, FailCheck, Finally, Leave, Goto,
      Elsewhere, OwnerLabels
<1>5. CASE CancelApply(t) \/ FailApply(t)
  BY <1>1, <1>5 DEF CancelApply, FailApply, Leave, Raise, Goto, Elsewhere, OwnerLabels, Permits,
      Sources, Target
<1> QED
  BY <1>2, <1>3, <1>4, <1>5 DEF ExecuteStep

\* So do cancel, stop and recover.
LEMMA ControlElsewhere ==
    ASSUME TypeInv, NEW t \in Threads, ControlStep(t), UNCHANGED sessionVars
    PROVE  Elsewhere(t)
<1>1. {"idle", "cancel", "cancel_check", "cancel_fault", "stop", "stop_check", "stop_fault"}
        \subseteq Labels \ SessionLabels
  BY DEF Labels, SessionLabels, ConnectingLabels
<1>2. CASE CancelNow(t) \/ StopNow(t, "stop", "stop_check", "idle")
  BY <1>1, <1>2 DEF CancelNow, StopNow, Goto, Elsewhere
<1>3. CASE \/ StopFaultCheck(t, "cancel_check", "cancel_fault", "idle")
           \/ StopFaultCheck(t, "stop_check", "stop_fault", "idle")
  BY <1>1, <1>3 DEF StopFaultCheck, Goto, Elsewhere
<1>4. CASE StopFault(t, "cancel_fault", "idle") \/ StopFault(t, "stop_fault", "idle")
  BY <1>1, <1>4 DEF StopFault, Goto, Elsewhere, Permits, Sources, Target
<1> QED
  BY <1>2, <1>3, <1>4 DEF ControlStep

LEMMA RecoverElsewhere ==
    ASSUME TypeInv, NEW t \in Threads, RecoverCheck(t) \/ RecoverRequest(t) \/ RecoverRead(t)
    PROVE  Elsewhere(t)
<1>1. {"idle", "rec_check", "rec_request", "rec_read"} \subseteq Labels \ SessionLabels
  BY DEF Labels, SessionLabels, ConnectingLabels
<1> QED
  BY <1>1 DEF RecoverCheck, RecoverRequest, RecoverRead, Goto, Elsewhere, Permits, Sources, Target

\* And the beginning of the calls that do not take the lifecycle lock.
LEMMA InvokeElsewhere ==
    ASSUME TypeInv, NEW t \in Threads,
           InvokeExecute(t) \/ InvokeCancel(t) \/ InvokeStop(t) \/ InvokeRecover(t)
    PROVE  Elsewhere(t)
<1>1. {"idle", "acquire", "cancel", "stop", "rec_check"} \subseteq Labels \ SessionLabels
  BY DEF Labels, SessionLabels, ConnectingLabels
<1> QED
  BY <1>1 DEF InvokeExecute, InvokeCancel, InvokeStop, InvokeRecover, Goto, Elsewhere

\* The steps of connect.
LEMMA LifecycleConnect ==
    ASSUME LifecycleInv, TypeInv', NEW t \in Threads,
           \/ InvokeConnect(t) \/ ConnectOpen(t) \/ ConnectDone(t)
           \/ ConnectCleanup(t) \/ ConnectReset(t) \/ Probe(t)
    PROVE  LifecycleInv'
<1> USE DEF LifecycleInv, SessionLabels, ConnectingLabels
<1>1. /\ pc \in [Threads -> Labels] /\ NoThread \notin Threads
      /\ connected \in BOOLEAN /\ adapter \in BOOLEAN
  BY NoThreadAssumption DEF TypeInv, TypeOK
<1>2. CASE InvokeConnect(t)
  BY <1>1, <1>2 DEF InvokeConnect, LockInv, PhaseInv, ReleaseInv, Goto, Permits, Sources, Target
<1>3. CASE ConnectOpen(t)
  BY <1>1, <1>3 DEF ConnectOpen, LockInv, PhaseInv, ReleaseInv, Goto, sessionVars
<1>4. CASE ConnectDone(t)
  BY <1>1, <1>4 DEF ConnectDone, LockInv, PhaseInv, ReleaseInv, Goto, Target, sessionVars
<1>5. CASE ConnectCleanup(t)
  BY <1>1, <1>5 DEF ConnectCleanup, LockInv, PhaseInv, ReleaseInv, Goto, Target
<1>6. CASE ConnectReset(t)
  BY <1>1, <1>6 DEF ConnectReset, LockInv, PhaseInv, ReleaseInv, Goto, Target
<1>7. CASE Probe(t)
  BY <1>1, <1>7 DEF Probe, LockInv, PhaseInv, ReleaseInv, Goto, sessionVars
<1> QED
  BY <1>2, <1>3, <1>4, <1>5, <1>6, <1>7

\* The steps of close; its stop may fault the driver, which leaves it connected.
LEMMA LifecycleClose ==
    ASSUME LifecycleInv, TypeInv', NEW t \in Threads,
           \/ InvokeClose(t) \/ DisconnectCheck(t) \/ DisconnectStop(t)
           \/ DisconnectHardware(t) \/ DisconnectApply(t)
    PROVE  LifecycleInv'
<1> USE DEF LifecycleInv, SessionLabels, ConnectingLabels
<1>1. /\ pc \in [Threads -> Labels] /\ NoThread \notin Threads
      /\ connected \in BOOLEAN /\ adapter \in BOOLEAN
  BY NoThreadAssumption DEF TypeInv, TypeOK
<1>2. CASE InvokeClose(t)
  BY <1>1, <1>2 DEF InvokeClose, LockInv, PhaseInv, ReleaseInv, Goto
<1>3. CASE DisconnectCheck(t)
  BY <1>1, <1>3 DEF DisconnectCheck, LockInv, PhaseInv, ReleaseInv, Goto, sessionVars
<1>4. CASE DisconnectStop(t)
  <2>1. /\ pc[t] \in {"dis_stop", "dis_stop_check", "dis_stop_fault"}
        /\ \E label \in {"dis_stop_check", "dis_stop_fault", "dis_hw"} :
              pc' = [pc EXCEPT ![t] = label]
        /\ UNCHANGED <<adapter, connected, lifecycle>>
    BY <1>4 DEF DisconnectStop, StopNow, StopFaultCheck, StopFault, Goto, sessionVars
  <2>2. \/ driver' = driver
        \/ driver \in {"idle", "executing"} /\ driver' = "fault"
    BY <1>4 DEF DisconnectStop, StopNow, StopFaultCheck, StopFault, Permits, Sources, Target
  <2>3. LockInv'
    BY <1>1, <2>1 DEF LockInv
  <2>4. PhaseInv'
    BY <1>1, <2>1, <2>2 DEF PhaseInv
  <2>5. ReleaseInv'
    BY <1>1, <2>1, <2>2 DEF ReleaseInv
  <2> QED
    BY <2>3, <2>4, <2>5
<1>5. CASE DisconnectHardware(t)
  BY <1>1, <1>5 DEF DisconnectHardware, LockInv, PhaseInv, ReleaseInv, Goto
<1>6. CASE DisconnectApply(t)
  BY <1>1, <1>6 DEF DisconnectApply, LockInv, PhaseInv, ReleaseInv, Goto, Target
<1> QED
  BY <1>2, <1>3, <1>4, <1>5, <1>6

LEMMA LifecycleInit == Init => LifecycleInv
BY TypeInit, NoThreadAssumption DEF Init, ExecInit, LifecycleInv, LockInv, PhaseInv, ReleaseInv,
    SessionLabels, ConnectingLabels

LEMMA LifecycleNext == LifecycleInv /\ [Next]_vars => LifecycleInv'
<1> SUFFICES ASSUME LifecycleInv, [Next]_vars PROVE LifecycleInv'
  OBVIOUS
<1>1. TypeInv /\ TypeInv'
  BY TypeNext DEF LifecycleInv
<1>2. ASSUME NEW t \in Threads, Invoke(t) PROVE LifecycleInv'
  BY <1>1, <1>2, InvokeElsewhere, LifecycleElsewhere, LifecycleConnect, LifecycleClose DEF Invoke
<1>3. ASSUME NEW t \in Threads, Step(t) PROVE LifecycleInv'
  BY <1>1, <1>3, ExecuteElsewhere, ControlElsewhere, RecoverElsewhere, LifecycleElsewhere,
      LifecycleConnect, LifecycleClose DEF Step, SessionStep
<1>4. CASE UNCHANGED vars
  BY <1>1, <1>4 DEF vars, execVars, sessionVars, LifecycleInv, LockInv, PhaseInv, ReleaseInv
<1> QED
  BY <1>2, <1>3, <1>4 DEF Next, Quiet

\* A DISCONNECTED driver has released its adapter, a session that nobody opens
\* or closes is ready only outside DISCONNECTED, and CONNECTING is seen only
\* while connect runs.
THEOREM SessionIsConsistent == Spec => []SessionAgrees
<1>1. LifecycleInv => SessionAgrees
  BY NoThreadAssumption DEF LifecycleInv, LockInv, PhaseInv, ReleaseInv, SessionAgrees,
      SessionLabels
<1> QED
  BY <1>1, LifecycleInit, LifecycleNext, PTL DEF Spec
=============================================================================

----------------------- MODULE RobotSessionRefinement -----------------------
(***************************************************************************)
(* RobotSession implements TrajectoryCommand: every step of the core, seen *)
(* through Phase, writes and outcome, is a step of the abstract            *)
(* specification or changes nothing it can see.                            *)
(***************************************************************************)
EXTENDS RobotSessionSafety

\* A command that something happened to is over or in the hands of a call.
Accounted ==
    \A c \in Commands :
        \/ Untouched(c)
        \/ outcome[c] # "none"
        \/ \E t \in Threads : pc[t] \in Undecided /\ cmd[t] = c

\* A failing call has sent its stop; a call that leaves has its result.
Reported ==
    /\ \A t \in Threads : pc[t] \in {"ff_check", "ff_apply"} => stops[cmd[t]] # 0
    /\ \A t \in Threads : pc[t] = "finally" => outcome[cmd[t]] # "none"

RefinementInv == SafetyInv /\ Accounted /\ Reported

\* Every step of execute preserves the two parts.
LEMMA RefinementExecuteStep ==
    ASSUME RefinementInv, SafetyInv', NEW t \in Threads, ExecuteStep(t)
    PROVE  Accounted' /\ Reported'
<1> USE DEF RefinementInv, SafetyInv
<1>a. pc[t] \in InCall /\ cmd[t] \in Commands
  <2>1. pc[t] \in InCall
    BY DEF ExecuteStep, Acquire, Admit, Publish, Accept, WaitPoint, WritePoint, ReadBack,
        Finalize, CancelStop, CancelCheck, CancelApply, FailStop, FailCheck, FailApply,
        Finally, InCall, OwnerLabels
  <2> QED
    BY <2>1, Typing
<1>1. CASE Acquire(t)
  <2>1. Accounted'
    BY <1>a, <1>1, Typing DEF Acquire, Settle, Accounted, Untouched, InCall,
        Undecided, OwnerLabels, Goto, lanes, locals, history
  <2>2. Reported'
    BY <1>a, <1>1, Typing DEF Acquire, Settle, Reported, Identity, Accounted,
        StopInv, Untouched, InCall, Undecided, OwnerLabels, Goto, lanes,
        locals, history
  <2> QED
    BY <2>1, <2>2
<1>2. CASE Admit(t)
  <2>1. Accounted'
    BY <1>a, <1>2, Typing DEF Admit, Raise, Leave, Settle, Accounted,
        Untouched, InCall, Undecided, OwnerLabels, Goto, lanes, locals,
        history
  <2>2. Reported'
    BY <1>a, <1>2, Typing DEF Admit, Raise, Leave, Settle, Reported, Identity,
        Accounted, StopInv, Untouched, InCall, Undecided, OwnerLabels, Goto,
        lanes, locals, history
  <2> QED
    BY <2>1, <2>2
<1>3. CASE Publish(t)
  <2>1. Accounted'
    BY <1>a, <1>3, Typing DEF Publish, Accounted, Untouched, InCall,
        Undecided, OwnerLabels, Goto, lanes, locals, history
  <2>2. Reported'
    BY <1>a, <1>3, Typing DEF Publish, Reported, Identity, Accounted, StopInv,
        Untouched, InCall, Undecided, OwnerLabels, Goto, lanes, locals,
        history
  <2> QED
    BY <2>1, <2>2
<1>4. CASE Accept(t)
  <2>1. Accounted'
    BY <1>a, <1>4, Typing DEF Accept, Raise, Accounted, Untouched, InCall,
        Undecided, OwnerLabels, Goto, lanes, locals, history
  <2>2. Reported'
    BY <1>a, <1>4, Typing DEF Accept, Raise, Reported, Identity, Accounted,
        StopInv, Untouched, InCall, Undecided, OwnerLabels, Goto, lanes,
        locals, history
  <2> QED
    BY <2>1, <2>2
<1>5. CASE WaitPoint(t)
  <2>1. Accounted'
    BY <1>a, <1>5, Typing DEF WaitPoint, Accounted, Untouched, InCall,
        Undecided, OwnerLabels, Goto, lanes, locals, history
  <2>2. Reported'
    BY <1>a, <1>5, Typing DEF WaitPoint, Reported, Identity, Accounted,
        StopInv, Untouched, InCall, Undecided, OwnerLabels, Goto, lanes,
        locals, history
  <2> QED
    BY <2>1, <2>2
<1>6. CASE WritePoint(t)
  <2>1. Accounted'
    BY <1>a, <1>6, Typing DEF WritePoint, Raise, Accounted, Untouched, InCall,
        Undecided, OwnerLabels, Goto, lanes, locals, history
  <2>2. Reported'
    BY <1>a, <1>6, Typing DEF WritePoint, Raise, Reported, Identity,
        Accounted, StopInv, Untouched, InCall, Undecided, OwnerLabels, Goto,
        lanes, locals, history
  <2> QED
    BY <2>1, <2>2
<1>7. CASE ReadBack(t)
  <2>1. Accounted'
    BY <1>a, <1>7, Typing DEF ReadBack, Raise, Accounted, Untouched, InCall,
        Undecided, OwnerLabels, Goto, lanes, locals, history
  <2>2. Reported'
    BY <1>a, <1>7, Typing DEF ReadBack, Raise, Reported, Identity, Accounted,
        StopInv, Untouched, InCall, Undecided, OwnerLabels, Goto, lanes,
        locals, history
  <2> QED
    BY <2>1, <2>2
<1>8. CASE Finalize(t)
  <2>1. Accounted'
    BY <1>a, <1>8, Typing DEF Finalize, Raise, Leave, Settle, Accounted,
        Untouched, InCall, Undecided, OwnerLabels, Goto, lanes, locals,
        history
  <2>2. Reported'
    BY <1>a, <1>8, Typing DEF Finalize, Raise, Leave, Settle, Reported,
        Identity, Accounted, StopInv, Untouched, InCall, Undecided,
        OwnerLabels, Goto, lanes, locals, history
  <2> QED
    BY <2>1, <2>2
<1>9. CASE CancelStop(t)
  <2>1. Accounted'
    BY <1>a, <1>9, Typing DEF CancelStop, IssueStop, Accounted, Untouched,
        InCall, Undecided, OwnerLabels, Goto, lanes, locals, history
  <2>2. Reported'
    BY <1>a, <1>9, Typing DEF CancelStop, IssueStop, Reported, Identity,
        Accounted, StopInv, Untouched, InCall, Undecided, OwnerLabels, Goto,
        lanes, locals, history
  <2> QED
    BY <2>1, <2>2
<1>10. CASE CancelCheck(t)
  <2>1. Accounted'
    BY <1>a, <1>10, Typing DEF CancelCheck, Leave, Settle, Accounted,
        Untouched, InCall, Undecided, OwnerLabels, Goto, lanes, locals,
        history
  <2>2. Reported'
    BY <1>a, <1>10, Typing DEF CancelCheck, Leave, Settle, Reported, Identity,
        Accounted, StopInv, Untouched, InCall, Undecided, OwnerLabels, Goto,
        lanes, locals, history
  <2> QED
    BY <2>1, <2>2
<1>11. CASE CancelApply(t)
  <2>1. Accounted'
    BY <1>a, <1>11, Typing DEF CancelApply, Raise, Leave, Settle, Accounted,
        Untouched, InCall, Undecided, OwnerLabels, Goto, lanes, locals,
        history
  <2>2. Reported'
    BY <1>a, <1>11, Typing DEF CancelApply, Raise, Leave, Settle, Reported,
        Identity, Accounted, StopInv, Untouched, InCall, Undecided,
        OwnerLabels, Goto, lanes, locals, history
  <2> QED
    BY <2>1, <2>2
<1>12. CASE FailStop(t)
  <2>1. Accounted'
    BY <1>a, <1>12, Typing DEF FailStop, IssueStop, Accounted, Untouched,
        InCall, Undecided, OwnerLabels, Goto, lanes, locals, history
  <2>2. Reported'
    BY <1>a, <1>12, Typing DEF FailStop, IssueStop, Reported, Identity,
        Accounted, StopInv, Untouched, InCall, Undecided, OwnerLabels, Goto,
        lanes, locals, history
  <2> QED
    BY <2>1, <2>2
<1>13. CASE FailCheck(t)
  <2>1. Accounted'
    BY <1>a, <1>13, Typing DEF FailCheck, Leave, Settle, Accounted, Untouched,
        InCall, Undecided, OwnerLabels, Goto, lanes, locals, history
  <2>2. Reported'
    BY <1>a, <1>13, Typing DEF FailCheck, Leave, Settle, Reported, Identity,
        Accounted, StopInv, Untouched, InCall, Undecided, OwnerLabels, Goto,
        lanes, locals, history
  <2> QED
    BY <2>1, <2>2
<1>14. CASE FailApply(t)
  <2>1. Accounted'
    BY <1>a, <1>14, Typing DEF FailApply, Raise, Leave, Settle, Accounted,
        Untouched, InCall, Undecided, OwnerLabels, Goto, lanes, locals,
        history
  <2>2. Reported'
    BY <1>a, <1>14, Typing DEF FailApply, Raise, Leave, Settle, Reported,
        Identity, Accounted, StopInv, Untouched, InCall, Undecided,
        OwnerLabels, Goto, lanes, locals, history
  <2> QED
    BY <2>1, <2>2
<1>15. CASE Finally(t)
  <2>1. Accounted'
    BY <1>a, <1>15, Typing DEF Finally, Accounted, Untouched, InCall,
        Undecided, OwnerLabels, Goto, lanes, locals, history
  <2>2. Reported'
    BY <1>a, <1>15, Typing DEF Finally, Reported, Identity, Accounted,
        StopInv, Untouched, InCall, Undecided, OwnerLabels, Goto, lanes,
        locals, history
  <2> QED
    BY <2>1, <2>2
<1> QED
  BY <1>1, <1>2, <1>3, <1>4, <1>5, <1>6, <1>7, <1>8, <1>9, <1>10, <1>11,
      <1>12, <1>13, <1>14, <1>15 DEF ExecuteStep

\* So do the steps of the other calls.
LEMMA RefinementOutside ==
    ASSUME RefinementInv, SafetyInv', NEW t \in Threads, Outside(t) \/ Halt(t)
    PROVE  Accounted' /\ Reported'
<1> USE DEF RefinementInv, SafetyInv
<1>1. /\ \A u \in Threads : pc[u] \in InCall \/ pc'[u] \in InCall =>
             pc'[u] = pc[u] /\ cmd'[u] = cmd[u]
      /\ outcome' = outcome
  BY Typing DEF Outside, Halt, ControlLabels, InCall, locals, history
<1>2. Accounted'
  <2>1. \A c \in Commands : Untouched(c) => Untouched(c)' \/ c = active
    BY Typing DEF Outside, Halt, IssueStop, Untouched, history
  <2>2. active # NoCommand =>
          \E u \in Threads : cmd[u] = active /\ pc[u] \in OwnerLabels
    BY DEF ActiveInv
  <2>3. \A c \in Commands : c = active =>
          outcome[c] # "none" \/ \E u \in Threads : pc[u] \in Undecided /\ cmd[u] = c
    BY <2>2, Typing DEF Accounted, Reported, Undecided, InCall, OwnerLabels
  <2> QED
    BY <1>1, <2>1, <2>3 DEF Accounted, Undecided, InCall
<1>3. Reported'
  <2>1. \A u \in Threads : pc[u] \in InCall => (stops[cmd[u]] # 0 => stops'[cmd[u]] # 0)
    BY Typing DEF Outside, Halt, IssueStop, history
  <2> QED
    BY <1>1, <2>1 DEF Reported, InCall, OwnerLabels
<1> QED
  BY <1>2, <1>3

\* And a new execute call.
LEMMA RefinementInvokeExecute ==
    ASSUME RefinementInv, SafetyInv', NEW t \in Threads, InvokeExecute(t)
    PROVE  Accounted' /\ Reported'
<1> USE DEF RefinementInv, SafetyInv
<1>1. /\ pc[t] = "idle"
      /\ \A u \in Threads : u # t => pc'[u] = pc[u] /\ cmd'[u] = cmd[u]
      /\ pc'[t] \in {"idle", "acquire"}
      /\ UNCHANGED history
  BY Typing DEF InvokeExecute, Goto
<1>2. Accounted'
  BY <1>1 DEF Accounted, Untouched, Undecided, InCall, OwnerLabels, history
<1>3. Reported'
  BY <1>1 DEF Reported, history
<1> QED
  BY <1>2, <1>3

\* The invariant holds initially and is preserved.
LEMMA RefinementInit == Init => RefinementInv
<1> SUFFICES ASSUME Init PROVE RefinementInv
  OBVIOUS
<1>1. Accounted /\ Reported
  BY DEF Init, ExecInit, Accounted, Untouched, Reported
<1> QED
  BY <1>1, SafetyInit DEF RefinementInv

\* Every step is one of execute, the beginning of an execute call, a halt, or
\* does not touch the commands.
LEMMA StepKinds ==
    ASSUME TypeInv, Next
    PROVE  \/ \E t \in Threads :
                 \/ ExecuteStep(t) /\ UNCHANGED sessionVars
                 \/ InvokeExecute(t) \/ Halt(t) \/ Outside(t)
           \/ UNCHANGED vars
<1>1. ASSUME NEW t \in Threads, ControlStep(t) PROVE Halt(t) \/ Outside(t)
  <2>1. {"idle", "cancel_check", "cancel_fault", "stop", "stop_check", "stop_fault"}
          \subseteq ControlLabels
    BY DEF ControlLabels, Labels, OwnerLabels
  <2> QED
    BY <1>1, <2>1, CancelIsHalt, StopIsHalt, FaultIsOutside DEF ControlStep
<1> QED
  BY <1>1, InvokeIsOutside, SessionIsOutside DEF Next, Quiet, Step

LEMMA RefinementNext == RefinementInv /\ [Next]_vars => RefinementInv'
<1> SUFFICES ASSUME RefinementInv, [Next]_vars PROVE RefinementInv'
  OBVIOUS
<1>1. SafetyInv'
  BY SafetyNext DEF RefinementInv
<1>2. CASE UNCHANGED vars
  BY <1>1, <1>2 DEF vars, execVars, locals, history, RefinementInv, Accounted, Untouched, Reported
<1>3. CASE Next
  BY <1>1, <1>2, <1>3, StepKinds, RefinementExecuteStep, RefinementInvokeExecute,
      RefinementOutside DEF RefinementInv, SafetyInv
<1> QED
  BY <1>2, <1>3

(***************************************************************************)
(* The refinement                                                          *)
(***************************************************************************)

Interrupted(c) == c \in canceled \/ stops[c] # 0

Phases == [c \in Commands |-> Phase(c)]

\* Phase, now and in the next state, without its arithmetic.
LEMMA PhaseValue ==
    ASSUME TypeInv, TypeInv', NEW c \in Commands
    PROVE  /\ Phases[c] = IF outcome[c] # "none" THEN "done"
                          ELSE IF Interrupted(c) THEN "closed"
                          ELSE IF active = c THEN "open" ELSE "pending"
           /\ Phases'[c] = IF outcome'[c] # "none" THEN "done"
                           ELSE IF c \in canceled' \/ stops'[c] # 0 THEN "closed"
                           ELSE IF active' = c THEN "open" ELSE "pending"
<1>1. stops[c] \in Nat /\ stops'[c] \in Nat
  BY DEF TypeInv, TypeOK
<1>2. (stops[c] > 0 <=> stops[c] # 0) /\ (stops'[c] > 0 <=> stops'[c] # 0)
  BY <1>1
<1>3. Phases[c] = Phase(c) /\ Phases'[c] = Phase(c)'
  BY DEF Phases
<1> QED
  BY <1>2, <1>3 DEF Phase, Interrupted

\* While a call owns the execution lock, no command but its own is open or closed.
LEMMA OwnerIsAlone ==
    ASSUME RefinementInv, TypeInv', NEW t \in Threads, pc[t] \in OwnerLabels
    PROVE  \A d \in Commands \ {cmd[t]} : Phases[d] \notin {"open", "closed"}
<1> USE DEF RefinementInv, SafetyInv
<1> SUFFICES ASSUME NEW d \in Commands, d # cmd[t], Phases[d] \in {"open", "closed"}
             PROVE  FALSE
  OBVIOUS
<1>1. outcome[d] = "none" /\ (Interrupted(d) \/ active = d)
  BY PhaseValue
<1>2. \E u \in Threads : cmd[u] = d /\ pc[u] \in OwnerLabels
  <2>1. CASE active = d
    BY <2>1, Typing DEF ActiveInv
  <2>2. CASE Interrupted(d)
    <3>1. ~Untouched(d)
      BY <2>2 DEF Interrupted, Untouched
    <3> QED
      BY <1>1, <3>1 DEF Accounted, Freshness, Undecided, InCall, OwnerLabels
  <2> QED
    BY <1>1, <2>1, <2>2
<1> QED
  BY <1>2 DEF Ownership

\* Accepting a cancel or a stop closes the published command, unless it is
\* closed or over already.
LEMMA HaltRefines ==
    ASSUME RefinementInv, RefinementInv', NEW t \in Threads, Halt(t)
    PROVE  [Promise!Next]_(Promise!cmdVars)
<1> USE DEF RefinementInv, SafetyInv
<1>1. writes' = writes /\ outcome' = outcome /\ active' = active
  BY DEF Halt
<1>2. \A d \in Commands : d # active => Phases'[d] = Phases[d]
  BY <1>1, PhaseValue, Typing DEF Halt, IssueStop, Interrupted
<1>3. CASE active = NoCommand \/ Phases'[active] = Phases[active]
  <2>1. Phases' = Phases
    BY <1>2, <1>3, Typing DEF Phases
  <2> QED
    BY <1>1, <2>1 DEF Promise!cmdVars, Phases
<1>4. CASE active # NoCommand /\ Phases'[active] # Phases[active]
  <2>1. active \in Commands
    BY <1>4, Typing
  <2>2. Phases[active] = "open" /\ Phases'[active] = "closed"
    BY <1>1, <1>4, <2>1, PhaseValue DEF Halt, Interrupted
  <2>3. \A d \in Commands \ {active} : Phases[d] \notin {"open", "closed"}
    BY <1>4, OwnerIsAlone DEF ActiveInv
  <2>4. Phases' = [Phases EXCEPT ![active] = "closed"]
    BY <1>2, <2>1, <2>2 DEF Phases
  <2>5. Promise!Close(active)
    BY <1>1, <2>1, <2>2, <2>3, <2>4 DEF Promise!Close, Promise!Alone, Phases
  <2> QED
    BY <2>1, <2>5 DEF Promise!Next
<1> QED
  BY <1>3, <1>4

\* A step of execute maps to one step of the command it belongs to.
LEMMA ExecuteRefines ==
    ASSUME RefinementInv, RefinementInv', NEW t \in Threads, ExecuteStep(t)
    PROVE  [Promise!Next]_(Promise!cmdVars)
<1> USE DEF RefinementInv, SafetyInv
<1> DEFINE c == cmd[t]
<1>a. /\ pc[t] \in InCall /\ c \in Commands
      /\ outcome \in [Commands -> Outcomes] /\ writes \in [Commands -> Nat]
      /\ pc[t] \in Undecided => outcome[c] = "none"
  <2>1. pc[t] \in InCall
    BY DEF ExecuteStep, Acquire, Admit, Publish, Accept, WaitPoint, WritePoint, ReadBack,
        Finalize, CancelStop, CancelCheck, CancelApply, FailStop, FailCheck, FailApply,
        Finally, InCall, OwnerLabels
  <2> QED
    BY <2>1, Typing DEF Identity
<1>b. \A d \in Commands \ {c} :
          /\ outcome'[d] = outcome[d] /\ stops'[d] = stops[d]
          /\ d \in canceled' <=> d \in canceled
          /\ active' = d <=> active = d
  <2>1. CASE Publish(t)
    BY <1>a, <2>1, Typing DEF Publish, ActiveInv, Ownership, OwnerLabels, history
  <2>2. CASE CancelStop(t) \/ FailStop(t)
    BY <1>a, <2>2, Typing DEF CancelStop, FailStop, IssueStop
  <2>3. CASE Acquire(t) \/ Admit(t) \/ Accept(t) \/ WaitPoint(t) \/ WritePoint(t) \/ ReadBack(t)
    BY <1>a, <2>3 DEF Acquire, Admit, Accept, WaitPoint, WritePoint, ReadBack, Leave, Settle,
        lanes, history
  <2>4. CASE Finalize(t) \/ Finally(t)
    BY <1>a, <2>4, Typing DEF Finalize, Finally, Leave, Settle, ActiveInv, Running, history
  <2>5. CASE CancelCheck(t) \/ CancelApply(t) \/ FailCheck(t) \/ FailApply(t)
    BY <1>a, <2>5 DEF CancelCheck, CancelApply, FailCheck, FailApply, Leave, Settle, lanes
  <2> QED
    BY <2>1, <2>2, <2>3, <2>4, <2>5 DEF ExecuteStep
<1>c. Phases' = [Phases EXCEPT ![c] = Phases'[c]]
  <2>1. \A d \in Commands \ {c} : Phases'[d] = Phases[d]
    BY <1>b, PhaseValue DEF Interrupted
  <2> QED
    BY <1>a, <2>1 DEF Phases
<1>d. ASSUME Phases'[c] = Phases[c], writes' = writes, outcome' = outcome
      PROVE  [Promise!Next]_(Promise!cmdVars)
  <2>1. Phases' = Phases
    BY <1>c, <1>d DEF Phases
  <2> QED
    BY <1>d, <2>1 DEF Promise!cmdVars, Phases
<1>e. pc[t] \in OwnerLabels => \A d \in Commands \ {c} : Phases[d] \notin {"open", "closed"}
  BY OwnerIsAlone
<1>f. ASSUME NEW how \in {"refused", "success", "canceled", "failed", "raised"},
             outcome' = [outcome EXCEPT ![c] = how], writes' = writes,
             CASE how = "refused" -> Phases[c] = "pending"
               [] how = "success" -> Phases[c] = "open" /\ writes[c] = Waypoints
               [] how \in {"canceled", "failed", "raised"} -> Phases[c] = "closed"
      PROVE  [Promise!Next]_(Promise!cmdVars)
  <2>1. Phases'[c] = "done"
    BY <1>a, <1>f, PhaseValue
  <2>2. Promise!Finish(c, how)
    BY <1>a, <1>c, <1>f, <2>1 DEF Promise!Finish, Phases
  <2> QED
    BY <1>a, <2>2 DEF Promise!Next
<1>g. ASSUME Phases[c] \in {"pending", "open"}, Phases'[c] = "closed", pc[t] \in OwnerLabels,
             writes' = writes, outcome' = outcome
      PROVE  [Promise!Next]_(Promise!cmdVars)
  <2>1. Promise!Close(c)
    BY <1>a, <1>c, <1>e, <1>g DEF Promise!Close, Promise!Alone, Phases
  <2> QED
    BY <1>a, <2>1 DEF Promise!Next
<1>p. pc[t] \in {"acquire", "admit"} => Phases[c] = "pending"
  <2>1. pc[t] \in {"acquire", "admit"} => Untouched(c) /\ active # c
    BY <1>a, Typing DEF Freshness, ActiveInv, Identity, InCall, OwnerLabels
  <2> QED
    BY <1>a, <2>1, PhaseValue DEF Untouched, Interrupted
<1>1. CASE Acquire(t)
  <2>1. CASE Settle(c, "refused")
    BY <1>1, <1>f, <1>p, <2>1 DEF Acquire, Settle
  <2>2. CASE outcome' = outcome
    BY <1>1, <1>a, <1>d, <2>2, PhaseValue DEF Acquire, Interrupted, lanes
  <2> QED
    BY <1>1, <2>1, <2>2 DEF Acquire
<1>2. CASE Admit(t)
  <2>1. CASE Settle(c, "refused")
    BY <1>2, <1>f, <1>p, <2>1 DEF Admit, Settle
  <2>2. CASE outcome' = outcome
    BY <1>2, <1>a, <1>d, <2>2, PhaseValue DEF Admit, Interrupted, lanes
  <2> QED
    BY <1>2, <2>1, <2>2 DEF Admit, Leave
<1>3. CASE Publish(t)
  <2>1. Untouched(c) /\ active # c
    BY <1>3, <1>a, Typing DEF Publish, Freshness, ActiveInv, Identity, InCall, OwnerLabels
  <2>2. Phases[c] = "pending" /\ Phases'[c] = "open"
    BY <1>3, <1>a, <2>1, PhaseValue DEF Publish, Untouched, Interrupted, history
  <2>3. Promise!Open(c)
    BY <1>3, <1>a, <1>c, <1>e, <2>2 DEF Publish, Promise!Open, Promise!Alone, Phases,
        OwnerLabels, history
  <2> QED
    BY <1>a, <2>3 DEF Promise!Next
<1>4. CASE Accept(t) \/ WaitPoint(t) \/ ReadBack(t)
  BY <1>4, <1>a, <1>d, PhaseValue DEF Accept, WaitPoint, ReadBack, Interrupted, lanes, history
<1>5. CASE WritePoint(t)
  <2>1. Phases'[c] = Phases[c] /\ outcome' = outcome
    BY <1>5, <1>a, PhaseValue DEF WritePoint, Interrupted, lanes
  <2>2. CASE writes' # writes
    <3>1. writes' = [writes EXCEPT ![c] = writes[c] + 1] /\ ~IsCanceled(t)
      BY <1>5, <1>a, <2>2 DEF WritePoint
    <3>2. pc[t] = "write" /\ writes[c] < Waypoints
      BY <1>5, <1>a DEF WritePoint, WritesInv, TypeInv, LocalsOK
    <3>3. Phases[c] = "open"
      BY <1>a, <3>1, <3>2, PhaseValue DEF GenerationInv, ActiveInv, IsCanceled, Interrupted,
          Running, Undecided, InCall, OwnerLabels
    <3>4. Phases' = Phases
      BY <1>c, <2>1 DEF Phases
    <3>5. Promise!Send(c)
      BY <2>1, <3>1, <3>2, <3>3, <3>4, <1>a DEF Promise!Send, Phases
    <3> QED
      BY <1>a, <3>5 DEF Promise!Next
  <2> QED
    BY <1>d, <2>1, <2>2
<1>6. CASE Finalize(t)
  <2>1. CASE Settle(c, "success")
    <3>1. pc[t] = "finalize" /\ ~IsCanceled(t) /\ writes' = writes
      BY <1>6, <1>a, <2>1 DEF Finalize, Settle, Undecided, InCall, OwnerLabels
    <3>2. Phases[c] = "open" /\ writes[c] = Waypoints
      BY <1>a, <3>1, PhaseValue DEF GenerationInv, ActiveInv, WritesInv, IsCanceled, Interrupted,
          Running, Undecided, InCall, OwnerLabels
    <3> QED
      BY <1>f, <2>1, <3>1, <3>2 DEF Settle
  <2>2. CASE outcome' = outcome /\ active' = active
    BY <1>6, <1>a, <1>d, <2>2, PhaseValue DEF Finalize, Interrupted
  <2> QED
    BY <1>6, <2>1, <2>2 DEF Finalize, Leave
<1>7. CASE CancelStop(t) \/ FailStop(t)
  <2>1. /\ pc[t] \in OwnerLabels \cap Undecided
        /\ UNCHANGED <<outcome, writes, active, canceled>>
    BY <1>7 DEF CancelStop, FailStop, OwnerLabels, Undecided, InCall
  <2>2. stops[c] # 0 => stops'[c] # 0
    BY <1>7, <1>a, Typing DEF CancelStop, FailStop, IssueStop
  <2>3. \/ Phases'[c] = Phases[c]
        \/ Phases[c] \in {"pending", "open"} /\ Phases'[c] = "closed"
    BY <1>a, <2>1, <2>2, PhaseValue DEF Interrupted
  <2> QED
    BY <1>d, <1>g, <2>1, <2>3
<1>8. CASE CancelCheck(t) \/ CancelApply(t)
  <2>1. /\ pc[t] \in Canceling /\ pc[t] \in Undecided
        /\ UNCHANGED <<writes, stops, canceled, active>>
    BY <1>8 DEF CancelCheck, CancelApply, Canceling, Undecided, InCall, OwnerLabels, lanes
  <2>2. Phases[c] = "closed"
    BY <1>a, <2>1, PhaseValue DEF GenerationInv, Interrupted
  <2>3. CASE Settle(c, "canceled")
    BY <1>f, <2>1, <2>2, <2>3 DEF Settle
  <2>4. CASE outcome' = outcome
    BY <1>a, <1>d, <2>1, <2>4, PhaseValue DEF Interrupted
  <2> QED
    BY <1>8, <2>3, <2>4 DEF CancelCheck, CancelApply, Leave
<1>9. CASE FailCheck(t) \/ FailApply(t)
  <2>1. /\ pc[t] \in {"ff_check", "ff_apply"}
        /\ UNCHANGED <<writes, stops, canceled, active>>
    BY <1>9 DEF FailCheck, FailApply, lanes
  <2>2. Phases[c] = "closed"
    BY <1>a, <2>1, PhaseValue DEF Reported, Interrupted, Undecided, InCall, OwnerLabels
  <2>3. CASE \E how \in {"failed", "raised"} : Settle(c, how)
    BY <1>f, <2>1, <2>2, <2>3 DEF Settle
  <2>4. CASE outcome' = outcome
    BY <1>a, <1>d, <2>1, <2>4, PhaseValue DEF Interrupted
  <2> QED
    BY <1>9, <2>3, <2>4 DEF FailCheck, FailApply, Leave
<1>10. CASE Finally(t)
  <2>1. outcome[c] # "none" /\ outcome' = outcome /\ writes' = writes
    BY <1>10 DEF Finally, Reported, history
  <2>2. Phases'[c] = Phases[c]
    BY <1>a, <2>1, PhaseValue
  <2> QED
    BY <1>d, <2>1, <2>2
<1> QED
  BY <1>1, <1>2, <1>3, <1>4, <1>5, <1>6, <1>7, <1>8, <1>9, <1>10 DEF ExecuteStep

\* The other steps change nothing TrajectoryCommand sees.
LEMMA OutsideRefines ==
    ASSUME RefinementInv, RefinementInv', NEW t \in Threads, InvokeExecute(t) \/ Outside(t)
    PROVE  UNCHANGED Promise!cmdVars
<1>1. UNCHANGED <<active, canceled, stops, writes, outcome>>
  BY DEF InvokeExecute, Outside, lanes, history
<1>2. Phases' = Phases
  BY <1>1, PhaseValue DEF Phases, Interrupted, RefinementInv, SafetyInv
<1> QED
  BY <1>1, <1>2 DEF Promise!cmdVars, Phases

\* The initial state maps to the initial state.
LEMMA InitRefines == Init => Promise!Init
<1> SUFFICES ASSUME Init PROVE Promise!Init
  OBVIOUS
<1>1. \A c \in Commands : outcome[c] = "none" /\ c \notin canceled /\ stops[c] = 0
  BY DEF Init, ExecInit
<1>2. \A c \in Commands : active # c
  BY DEF Init, ExecInit, NoCommand, Commands
<1>3. \A c \in Commands : Phase(c) = "pending"
  BY <1>1, <1>2 DEF Phase
<1> QED
  BY <1>3 DEF Init, ExecInit, Promise!Init

\* Every step maps to a step or a stutter.
LEMMA StepRefines ==
    RefinementInv /\ RefinementInv' /\ [Next]_vars => [Promise!Next]_(Promise!cmdVars)
<1> SUFFICES ASSUME RefinementInv, RefinementInv', [Next]_vars
             PROVE  [Promise!Next]_(Promise!cmdVars)
  OBVIOUS
<1>1. CASE UNCHANGED vars
  BY <1>1 DEF vars, execVars, lanes, history, Phase, Promise!cmdVars
<1>2. CASE Next
  BY <1>1, <1>2, StepKinds, ExecuteRefines, HaltRefines, OutsideRefines
      DEF RefinementInv, SafetyInv
<1> QED
  BY <1>1, <1>2

\* The core implements TrajectoryCommand: whatever calls interleave, one command
\* at a time is open, waypoints are sent only to the open one, a closed one
\* sends nothing more, and every result says what happened to its command.
THEOREM CoreKeepsPromise == Spec => KeepsPromise
<1>1. Spec => []RefinementInv
  BY RefinementInit, RefinementNext, PTL DEF Spec
<1> QED
  BY <1>1, InitRefines, StepRefines, PTL DEF Spec, KeepsPromise, Promise!Spec

=============================================================================

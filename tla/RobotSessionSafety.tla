------------------------ MODULE RobotSessionSafety ------------------------
(***************************************************************************)
(* The safety properties of RobotSession, proved from one inductive        *)
(* invariant.                                                              *)
(***************************************************************************)
EXTENDS RobotSessionProofs

\* The steps of an execute call, and those of them before its result is decided.
InCall == OwnerLabels \cup {"acquire"}
Undecided == InCall \ {"finally"}

\* The steps of a command whose waypoints are being sent, of a command being
\* canceled and of a command that failed.
Running == {"accept", "wait", "write", "read", "finalize"}
Canceling == {"fc_stop", "fc_check", "fc_apply"}
Failing == {"ff_stop", "ff_check", "ff_apply"}

\* Nothing has happened to command c yet.
Untouched(c) ==
    /\ outcome[c] = "none"
    /\ writes[c] = 0
    /\ stops[c] = 0
    /\ c \notin canceled
    /\ c \notin stopAcked

\* The execution lock is held by the thread inside its critical section.
Ownership == \A t \in Threads : execLock = t <=> pc[t] \in OwnerLabels

\* Concurrent calls have different commands, older than the next one, and the
\* result of a call is decided once, on the way to its finally clause.
Identity ==
    /\ \A t \in Threads : pc[t] \in InCall => cmd[t] < NextCommand
    /\ \A t \in Threads : pc[t] \in Undecided => outcome[cmd[t]] = "none"
    /\ \A t, u \in Threads :
          t # u /\ pc[t] \in InCall /\ pc[u] \in InCall => cmd[t] # cmd[u]

\* Nothing happens to a command before it is published.
Freshness ==
    /\ \A c \in Commands : c >= NextCommand => Untouched(c)
    /\ \A t \in Threads :
          pc[t] \in {"acquire", "admit", "publish"} => Untouched(cmd[t])

\* EXECUTING is seen only while the owner of the lock runs, cancels or fails.
ExecutingInv ==
    driver = "executing" =>
        \E t \in Threads :
            execLock = t /\ pc[t] \in (Running \ {"accept"}) \cup Canceling \cup Failing

\* The published command is the owner's, from its publication to its end, and is
\* withdrawn in the section that reports success.  A command that fails
\* unpublished (its admission raised) is in the except clause and untouched.
ActiveInv ==
    /\ active # NoCommand =>
          /\ outcome[active] # "success"
          /\ \E t \in Threads : cmd[t] = active /\ pc[t] \in OwnerLabels \ {"admit", "publish"}
    /\ \A t \in Threads : pc[t] \in Running \cup Canceling => active = cmd[t]
    /\ \A t \in Threads : pc[t] \in Failing /\ active # cmd[t] => handling[t]
    /\ \A t \in Threads : pc[t] = "ff_stop" /\ active # cmd[t] => Untouched(cmd[t])

\* A running command whose generation is current was neither canceled nor
\* stopped; one whose generation is old was canceled.
GenerationInv ==
    /\ \A t \in Threads : pc[t] \in Running => accepted[t] <= generation
    /\ \A t \in Threads : pc[t] \in Running =>
          IF accepted[t] = generation
            THEN cmd[t] \notin canceled /\ stops[cmd[t]] = 0
            ELSE cmd[t] \in canceled
    /\ \A t \in Threads : pc[t] \in Canceling => cmd[t] \in canceled
    /\ \A t \in Threads : pc[t] \in {"fc_check", "fc_apply"} => cmd[t] \in stopAcked

\* The waypoints written are those the loop has passed.
WritesInv ==
    \A t \in Threads :
        /\ pc[t] \in {"accept", "wait", "write"} => writes[cmd[t]] = point[t]
        /\ pc[t] = "read" => writes[cmd[t]] = point[t] + 1
        /\ pc[t] = "finalize" => writes[cmd[t]] = Waypoints

\* The cached outcome is that of the one stop of its command.
StopInv ==
    /\ stopOutcome.id # NoCommand => stops[stopOutcome.id] = 1
    /\ stopOutcome.id # NoCommand /\ stopOutcome.ok => stopOutcome.id \in stopAcked
    /\ active # NoCommand /\ stops[active] # 0 => stopOutcome.id = active
    /\ OneStopPerCommand

\* The results already reported stay true.
ResultInv == SuccessIsUninterrupted /\ CanceledMeansStopped

SafetyInv ==
    /\ TypeInv
    /\ Ownership
    /\ Identity
    /\ Freshness
    /\ ExecutingInv
    /\ ActiveInv
    /\ GenerationInv
    /\ WritesInv
    /\ StopInv
    /\ ResultInv

\* What the proofs use of the type invariant.
LEMMA Typing ==
    ASSUME TypeInv
    PROVE  /\ pc \in [Threads -> Labels]
           /\ cmd \in [Threads -> Commands \cup {NoCommand}]
           /\ point \in [Threads -> 0 .. Waypoints]
           /\ accepted \in [Threads -> Nat] /\ generation \in Nat
           /\ handling \in [Threads -> BOOLEAN]
           /\ writes \in [Commands -> Nat] /\ stops \in [Commands -> Nat]
           /\ outcome \in [Commands -> Outcomes]
           /\ stopOutcome \in [id : Commands \cup {NoCommand}, ok : BOOLEAN]
           /\ active \in Commands \cup {NoCommand}
           /\ \A u \in Threads : pc[u] \in InCall => cmd[u] \in Commands
           /\ NoCommand \notin Commands /\ NoThread \notin Threads
           /\ NextCommand \in Int /\ Waypoints \in Nat
<1>1. "execute" \in Calls
  BY DEF Calls
<1>2. CallBudget["execute"] \in Int /\ budget["execute"] \in Int
  BY <1>1, CallBudgetAssumption DEF TypeInv, TypeOK
<1>3. NextCommand \in Int
  BY <1>2 DEF NextCommand
<1>4. NoCommand \notin Commands
  BY DEF Commands, NoCommand
<1>5. \A u \in Threads : pc[u] \in InCall => cmd[u] \in Commands
  BY DEF TypeInv, LocalsOK, InCall
<1> QED
  BY <1>3, <1>4, <1>5, NoThreadAssumption, WaypointsAssumption DEF TypeInv, TypeOK

\* Every step of execute preserves the invariant.
LEMMA SafetyExecuteStep ==
    ASSUME SafetyInv, TypeInv', NEW t \in Threads, ExecuteStep(t), UNCHANGED sessionVars
    PROVE  SafetyInv'
<1> USE DEF SafetyInv
<1>a. pc' \in [Threads -> Labels]
  BY DEF TypeInv, TypeOK
<1>b. /\ NextCommand' = NextCommand
      /\ pc[t] \in InCall
  BY DEF ExecuteStep, Acquire, Admit, Publish, Accept, WaitPoint, WritePoint, ReadBack, Finalize,
         CancelStop, CancelCheck, CancelApply, FailStop, FailCheck, FailApply, Finally, NextCommand, InCall, OwnerLabels
<1>c. /\ cmd[t] \in Commands
      /\ \A u \in Threads : u # t /\ pc[u] \in InCall => cmd[u] # cmd[t]
      /\ \A c \in Commands : c >= NextCommand => c # cmd[t]
  <2>1. cmd[t] < NextCommand /\ cmd[t] \in Commands
    BY <1>b, Typing DEF Identity
  <2>2. \A c \in Commands : c >= NextCommand => c # cmd[t]
    BY <2>1, Typing DEF Commands
  <2> QED
    BY <1>b, <2>1, <2>2 DEF Identity
<1>1. CASE Acquire(t)
  <2>1. Ownership'
    BY <1>a, <1>b, <1>c, <1>1, Typing DEF Acquire, Settle, Ownership,
        OwnerLabels, InCall, Undecided, Running, Canceling, Failing, Goto,
        lanes, locals, history
  <2>2. Identity'
    BY <1>a, <1>b, <1>c, <1>1, Typing DEF Acquire, Settle, Identity,
        Ownership, OwnerLabels, InCall, Undecided, Running, Canceling,
        Failing, Goto, lanes, locals, history
  <2>3. Freshness'
    BY <1>a, <1>b, <1>c, <1>1, Typing DEF Acquire, Settle, Freshness,
        Identity, Ownership, ActiveInv, Untouched, OwnerLabels, InCall,
        Undecided, Running, Canceling, Failing, Goto, lanes, locals, history
  <2>4. ExecutingInv'
    BY <1>a, <1>b, <1>c, <1>1, Typing DEF Acquire, Settle, ExecutingInv,
        Ownership, OwnerLabels, InCall, Undecided, Running, Canceling,
        Failing, Goto, lanes, locals, history
  <2>5. ActiveInv'
    BY <1>a, <1>b, <1>c, <1>1, Typing DEF Acquire, Settle, ActiveInv,
        Ownership, Identity, Freshness, Untouched, OwnerLabels, InCall,
        Undecided, Running, Canceling, Failing, Goto, lanes, locals, history
  <2>6. GenerationInv'
    BY <1>a, <1>b, <1>c, <1>1, Typing DEF Acquire, Settle, GenerationInv,
        Ownership, Identity, ActiveInv, Freshness, StopInv, Untouched,
        OwnerLabels, InCall, Undecided, Running, Canceling, Failing, Goto,
        lanes, locals, history
  <2>7. WritesInv'
    BY <1>a, <1>b, <1>c, <1>1, Typing DEF Acquire, Settle, WritesInv,
        Ownership, Identity, Freshness, Untouched, LocalsOK, TypeInv,
        OwnerLabels, InCall, Undecided, Running, Canceling, Failing, Goto,
        lanes, locals, history
  <2>8. StopInv'
    BY <1>a, <1>b, <1>c, <1>1, Typing DEF Acquire, Settle, StopInv,
        OneStopPerCommand, Ownership, Identity, ActiveInv, GenerationInv,
        Freshness, Untouched, OwnerLabels, InCall, Undecided, Running,
        Canceling, Failing, Goto, lanes, locals, history
  <2>9. ResultInv'
    BY <1>a, <1>b, <1>c, <1>1, Typing DEF Acquire, Settle, ResultInv,
        SuccessIsUninterrupted, CanceledMeansStopped, Identity, Ownership,
        ActiveInv, GenerationInv, WritesInv, StopInv, OwnerLabels, InCall,
        Undecided, Running, Canceling, Failing, Goto, lanes, locals, history
  <2> QED
    BY <2>1, <2>2, <2>3, <2>4, <2>5, <2>6, <2>7, <2>8, <2>9
<1>2. CASE Admit(t)
  <2>1. Ownership'
    BY <1>a, <1>b, <1>c, <1>2, Typing DEF Admit, Raise, Leave, Settle,
        Ownership, OwnerLabels, InCall, Undecided, Running, Canceling,
        Failing, Goto, lanes, locals, history
  <2>2. Identity'
    BY <1>a, <1>b, <1>c, <1>2, Typing DEF Admit, Raise, Leave, Settle,
        Identity, Ownership, OwnerLabels, InCall, Undecided, Running,
        Canceling, Failing, Goto, lanes, locals, history
  <2>3. Freshness'
    BY <1>a, <1>b, <1>c, <1>2, Typing DEF Admit, Raise, Leave, Settle,
        Freshness, Identity, Ownership, ActiveInv, Untouched, OwnerLabels,
        InCall, Undecided, Running, Canceling, Failing, Goto, lanes, locals,
        history
  <2>4. ExecutingInv'
    BY <1>a, <1>b, <1>c, <1>2, Typing DEF Admit, Raise, Leave, Settle,
        ExecutingInv, Ownership, OwnerLabels, InCall, Undecided, Running,
        Canceling, Failing, Goto, lanes, locals, history
  <2>5. ActiveInv'
    BY <1>a, <1>b, <1>c, <1>2, Typing DEF Admit, Raise, Leave, Settle,
        ActiveInv, Ownership, Identity, Freshness, Untouched, OwnerLabels,
        InCall, Undecided, Running, Canceling, Failing, Goto, lanes, locals,
        history
  <2>6. GenerationInv'
    BY <1>a, <1>b, <1>c, <1>2, Typing DEF Admit, Raise, Leave, Settle,
        GenerationInv, Ownership, Identity, ActiveInv, Freshness, StopInv,
        Untouched, OwnerLabels, InCall, Undecided, Running, Canceling,
        Failing, Goto, lanes, locals, history
  <2>7. WritesInv'
    BY <1>a, <1>b, <1>c, <1>2, Typing DEF Admit, Raise, Leave, Settle,
        WritesInv, Ownership, Identity, Freshness, Untouched, LocalsOK,
        TypeInv, OwnerLabels, InCall, Undecided, Running, Canceling, Failing,
        Goto, lanes, locals, history
  <2>8. StopInv'
    BY <1>a, <1>b, <1>c, <1>2, Typing DEF Admit, Raise, Leave, Settle,
        StopInv, OneStopPerCommand, Ownership, Identity, ActiveInv,
        GenerationInv, Freshness, Untouched, OwnerLabels, InCall, Undecided,
        Running, Canceling, Failing, Goto, lanes, locals, history
  <2>9. ResultInv'
    BY <1>a, <1>b, <1>c, <1>2, Typing DEF Admit, Raise, Leave, Settle,
        ResultInv, SuccessIsUninterrupted, CanceledMeansStopped, Identity,
        Ownership, ActiveInv, GenerationInv, WritesInv, StopInv, OwnerLabels,
        InCall, Undecided, Running, Canceling, Failing, Goto, lanes, locals,
        history
  <2> QED
    BY <2>1, <2>2, <2>3, <2>4, <2>5, <2>6, <2>7, <2>8, <2>9
<1>3. CASE Publish(t)
  <2>1. Ownership'
    BY <1>a, <1>b, <1>c, <1>3, Typing DEF Publish, NoStop, Ownership,
        OwnerLabels, InCall, Undecided, Running, Canceling, Failing, Goto,
        lanes, locals, history
  <2>2. Identity'
    BY <1>a, <1>b, <1>c, <1>3, Typing DEF Publish, NoStop, Identity,
        Ownership, OwnerLabels, InCall, Undecided, Running, Canceling,
        Failing, Goto, lanes, locals, history
  <2>3. Freshness'
    BY <1>a, <1>b, <1>c, <1>3, Typing DEF Publish, NoStop, Freshness,
        Identity, Ownership, ActiveInv, Untouched, OwnerLabels, InCall,
        Undecided, Running, Canceling, Failing, Goto, lanes, locals, history
  <2>4. ExecutingInv'
    BY <1>a, <1>b, <1>c, <1>3, Typing DEF Publish, NoStop, ExecutingInv,
        Ownership, OwnerLabels, InCall, Undecided, Running, Canceling,
        Failing, Goto, lanes, locals, history
  <2>5. ActiveInv'
    BY <1>a, <1>b, <1>c, <1>3, Typing DEF Publish, NoStop, ActiveInv,
        Ownership, Identity, Freshness, Untouched, OwnerLabels, InCall,
        Undecided, Running, Canceling, Failing, Goto, lanes, locals, history
  <2>6. GenerationInv'
    BY <1>a, <1>b, <1>c, <1>3, Typing DEF Publish, NoStop, GenerationInv,
        Ownership, Identity, ActiveInv, Freshness, StopInv, Untouched,
        OwnerLabels, InCall, Undecided, Running, Canceling, Failing, Goto,
        lanes, locals, history
  <2>7. WritesInv'
    BY <1>a, <1>b, <1>c, <1>3, Typing DEF Publish, NoStop, WritesInv,
        Ownership, Identity, Freshness, Untouched, LocalsOK, TypeInv,
        OwnerLabels, InCall, Undecided, Running, Canceling, Failing, Goto,
        lanes, locals, history
  <2>8. StopInv'
    BY <1>a, <1>b, <1>c, <1>3, Typing DEF Publish, NoStop, StopInv,
        OneStopPerCommand, Ownership, Identity, ActiveInv, GenerationInv,
        Freshness, Untouched, OwnerLabels, InCall, Undecided, Running,
        Canceling, Failing, Goto, lanes, locals, history
  <2>9. ResultInv'
    BY <1>a, <1>b, <1>c, <1>3, Typing DEF Publish, NoStop, ResultInv,
        SuccessIsUninterrupted, CanceledMeansStopped, Identity, Ownership,
        ActiveInv, GenerationInv, WritesInv, StopInv, OwnerLabels, InCall,
        Undecided, Running, Canceling, Failing, Goto, lanes, locals, history
  <2> QED
    BY <2>1, <2>2, <2>3, <2>4, <2>5, <2>6, <2>7, <2>8, <2>9
<1>4. CASE Accept(t)
  <2>1. Ownership'
    BY <1>a, <1>b, <1>c, <1>4, Typing DEF Accept, Raise, Permits, Sources,
        Target, Ownership, OwnerLabels, InCall, Undecided, Running, Canceling,
        Failing, Goto, lanes, locals, history
  <2>2. Identity'
    BY <1>a, <1>b, <1>c, <1>4, Typing DEF Accept, Raise, Permits, Sources,
        Target, Identity, Ownership, OwnerLabels, InCall, Undecided, Running,
        Canceling, Failing, Goto, lanes, locals, history
  <2>3. Freshness'
    BY <1>a, <1>b, <1>c, <1>4, Typing DEF Accept, Raise, Permits, Sources,
        Target, Freshness, Identity, Ownership, ActiveInv, Untouched,
        OwnerLabels, InCall, Undecided, Running, Canceling, Failing, Goto,
        lanes, locals, history
  <2>4. ExecutingInv'
    BY <1>a, <1>b, <1>c, <1>4, Typing DEF Accept, Raise, Permits, Sources,
        Target, ExecutingInv, Ownership, OwnerLabels, InCall, Undecided,
        Running, Canceling, Failing, Goto, lanes, locals, history
  <2>5. ActiveInv'
    BY <1>a, <1>b, <1>c, <1>4, Typing DEF Accept, Raise, Permits, Sources,
        Target, ActiveInv, Ownership, Identity, Freshness, Untouched,
        OwnerLabels, InCall, Undecided, Running, Canceling, Failing, Goto,
        lanes, locals, history
  <2>6. GenerationInv'
    BY <1>a, <1>b, <1>c, <1>4, Typing DEF Accept, Raise, Permits, Sources,
        Target, GenerationInv, Ownership, Identity, ActiveInv, Freshness,
        StopInv, Untouched, OwnerLabels, InCall, Undecided, Running,
        Canceling, Failing, Goto, lanes, locals, history
  <2>7. WritesInv'
    BY <1>a, <1>b, <1>c, <1>4, Typing DEF Accept, Raise, Permits, Sources,
        Target, WritesInv, Ownership, Identity, Freshness, Untouched,
        LocalsOK, TypeInv, OwnerLabels, InCall, Undecided, Running, Canceling,
        Failing, Goto, lanes, locals, history
  <2>8. StopInv'
    BY <1>a, <1>b, <1>c, <1>4, Typing DEF Accept, Raise, Permits, Sources,
        Target, StopInv, OneStopPerCommand, Ownership, Identity, ActiveInv,
        GenerationInv, Freshness, Untouched, OwnerLabels, InCall, Undecided,
        Running, Canceling, Failing, Goto, lanes, locals, history
  <2>9. ResultInv'
    BY <1>a, <1>b, <1>c, <1>4, Typing DEF Accept, Raise, Permits, Sources,
        Target, ResultInv, SuccessIsUninterrupted, CanceledMeansStopped,
        Identity, Ownership, ActiveInv, GenerationInv, WritesInv, StopInv,
        OwnerLabels, InCall, Undecided, Running, Canceling, Failing, Goto,
        lanes, locals, history
  <2> QED
    BY <2>1, <2>2, <2>3, <2>4, <2>5, <2>6, <2>7, <2>8, <2>9
<1>5. CASE WaitPoint(t)
  <2>1. Ownership'
    BY <1>a, <1>b, <1>c, <1>5, Typing DEF WaitPoint, IsCanceled, Ownership,
        OwnerLabels, InCall, Undecided, Running, Canceling, Failing, Goto,
        lanes, locals, history
  <2>2. Identity'
    BY <1>a, <1>b, <1>c, <1>5, Typing DEF WaitPoint, IsCanceled, Identity,
        Ownership, OwnerLabels, InCall, Undecided, Running, Canceling,
        Failing, Goto, lanes, locals, history
  <2>3. Freshness'
    BY <1>a, <1>b, <1>c, <1>5, Typing DEF WaitPoint, IsCanceled, Freshness,
        Identity, Ownership, ActiveInv, Untouched, OwnerLabels, InCall,
        Undecided, Running, Canceling, Failing, Goto, lanes, locals, history
  <2>4. ExecutingInv'
    BY <1>a, <1>b, <1>c, <1>5, Typing DEF WaitPoint, IsCanceled, ExecutingInv,
        Ownership, OwnerLabels, InCall, Undecided, Running, Canceling,
        Failing, Goto, lanes, locals, history
  <2>5. ActiveInv'
    BY <1>a, <1>b, <1>c, <1>5, Typing DEF WaitPoint, IsCanceled, ActiveInv,
        Ownership, Identity, Freshness, Untouched, OwnerLabels, InCall,
        Undecided, Running, Canceling, Failing, Goto, lanes, locals, history
  <2>6. GenerationInv'
    BY <1>a, <1>b, <1>c, <1>5, Typing DEF WaitPoint, IsCanceled,
        GenerationInv, Ownership, Identity, ActiveInv, Freshness, StopInv,
        Untouched, OwnerLabels, InCall, Undecided, Running, Canceling,
        Failing, Goto, lanes, locals, history
  <2>7. WritesInv'
    BY <1>a, <1>b, <1>c, <1>5, Typing DEF WaitPoint, IsCanceled, WritesInv,
        Ownership, Identity, Freshness, Untouched, LocalsOK, TypeInv,
        OwnerLabels, InCall, Undecided, Running, Canceling, Failing, Goto,
        lanes, locals, history
  <2>8. StopInv'
    BY <1>a, <1>b, <1>c, <1>5, Typing DEF WaitPoint, IsCanceled, StopInv,
        OneStopPerCommand, Ownership, Identity, ActiveInv, GenerationInv,
        Freshness, Untouched, OwnerLabels, InCall, Undecided, Running,
        Canceling, Failing, Goto, lanes, locals, history
  <2>9. ResultInv'
    BY <1>a, <1>b, <1>c, <1>5, Typing DEF WaitPoint, IsCanceled, ResultInv,
        SuccessIsUninterrupted, CanceledMeansStopped, Identity, Ownership,
        ActiveInv, GenerationInv, WritesInv, StopInv, OwnerLabels, InCall,
        Undecided, Running, Canceling, Failing, Goto, lanes, locals, history
  <2> QED
    BY <2>1, <2>2, <2>3, <2>4, <2>5, <2>6, <2>7, <2>8, <2>9
<1>6. CASE WritePoint(t)
  <2>1. Ownership'
    BY <1>a, <1>b, <1>c, <1>6, Typing DEF WritePoint, Raise, IsCanceled,
        Ownership, OwnerLabels, InCall, Undecided, Running, Canceling,
        Failing, Goto, lanes, locals, history
  <2>2. Identity'
    BY <1>a, <1>b, <1>c, <1>6, Typing DEF WritePoint, Raise, IsCanceled,
        Identity, Ownership, OwnerLabels, InCall, Undecided, Running,
        Canceling, Failing, Goto, lanes, locals, history
  <2>3. Freshness'
    BY <1>a, <1>b, <1>c, <1>6, Typing DEF WritePoint, Raise, IsCanceled,
        Freshness, Identity, Ownership, ActiveInv, Untouched, OwnerLabels,
        InCall, Undecided, Running, Canceling, Failing, Goto, lanes, locals,
        history
  <2>4. ExecutingInv'
    BY <1>a, <1>b, <1>c, <1>6, Typing DEF WritePoint, Raise, IsCanceled,
        ExecutingInv, Ownership, OwnerLabels, InCall, Undecided, Running,
        Canceling, Failing, Goto, lanes, locals, history
  <2>5. ActiveInv'
    BY <1>a, <1>b, <1>c, <1>6, Typing DEF WritePoint, Raise, IsCanceled,
        ActiveInv, Ownership, Identity, Freshness, Untouched, OwnerLabels,
        InCall, Undecided, Running, Canceling, Failing, Goto, lanes, locals,
        history
  <2>6. GenerationInv'
    BY <1>a, <1>b, <1>c, <1>6, Typing DEF WritePoint, Raise, IsCanceled,
        GenerationInv, Ownership, Identity, ActiveInv, Freshness, StopInv,
        Untouched, OwnerLabels, InCall, Undecided, Running, Canceling,
        Failing, Goto, lanes, locals, history
  <2>7. WritesInv'
    BY <1>a, <1>b, <1>c, <1>6, Typing DEF WritePoint, Raise, IsCanceled,
        WritesInv, Ownership, Identity, Freshness, Untouched, LocalsOK,
        TypeInv, OwnerLabels, InCall, Undecided, Running, Canceling, Failing,
        Goto, lanes, locals, history
  <2>8. StopInv'
    BY <1>a, <1>b, <1>c, <1>6, Typing DEF WritePoint, Raise, IsCanceled,
        StopInv, OneStopPerCommand, Ownership, Identity, ActiveInv,
        GenerationInv, Freshness, Untouched, OwnerLabels, InCall, Undecided,
        Running, Canceling, Failing, Goto, lanes, locals, history
  <2>9. ResultInv'
    BY <1>a, <1>b, <1>c, <1>6, Typing DEF WritePoint, Raise, IsCanceled,
        ResultInv, SuccessIsUninterrupted, CanceledMeansStopped, Identity,
        Ownership, ActiveInv, GenerationInv, WritesInv, StopInv, OwnerLabels,
        InCall, Undecided, Running, Canceling, Failing, Goto, lanes, locals,
        history
  <2> QED
    BY <2>1, <2>2, <2>3, <2>4, <2>5, <2>6, <2>7, <2>8, <2>9
<1>7. CASE ReadBack(t)
  <2>1. Ownership'
    BY <1>a, <1>b, <1>c, <1>7, Typing DEF ReadBack, Raise, Ownership,
        OwnerLabels, InCall, Undecided, Running, Canceling, Failing, Goto,
        lanes, locals, history
  <2>2. Identity'
    BY <1>a, <1>b, <1>c, <1>7, Typing DEF ReadBack, Raise, Identity,
        Ownership, OwnerLabels, InCall, Undecided, Running, Canceling,
        Failing, Goto, lanes, locals, history
  <2>3. Freshness'
    BY <1>a, <1>b, <1>c, <1>7, Typing DEF ReadBack, Raise, Freshness,
        Identity, Ownership, ActiveInv, Untouched, OwnerLabels, InCall,
        Undecided, Running, Canceling, Failing, Goto, lanes, locals, history
  <2>4. ExecutingInv'
    BY <1>a, <1>b, <1>c, <1>7, Typing DEF ReadBack, Raise, ExecutingInv,
        Ownership, OwnerLabels, InCall, Undecided, Running, Canceling,
        Failing, Goto, lanes, locals, history
  <2>5. ActiveInv'
    BY <1>a, <1>b, <1>c, <1>7, Typing DEF ReadBack, Raise, ActiveInv,
        Ownership, Identity, Freshness, Untouched, OwnerLabels, InCall,
        Undecided, Running, Canceling, Failing, Goto, lanes, locals, history
  <2>6. GenerationInv'
    BY <1>a, <1>b, <1>c, <1>7, Typing DEF ReadBack, Raise, GenerationInv,
        Ownership, Identity, ActiveInv, Freshness, StopInv, Untouched,
        OwnerLabels, InCall, Undecided, Running, Canceling, Failing, Goto,
        lanes, locals, history
  <2>7. WritesInv'
    BY <1>a, <1>b, <1>c, <1>7, Typing DEF ReadBack, Raise, WritesInv,
        Ownership, Identity, Freshness, Untouched, LocalsOK, TypeInv,
        OwnerLabels, InCall, Undecided, Running, Canceling, Failing, Goto,
        lanes, locals, history
  <2>8. StopInv'
    BY <1>a, <1>b, <1>c, <1>7, Typing DEF ReadBack, Raise, StopInv,
        OneStopPerCommand, Ownership, Identity, ActiveInv, GenerationInv,
        Freshness, Untouched, OwnerLabels, InCall, Undecided, Running,
        Canceling, Failing, Goto, lanes, locals, history
  <2>9. ResultInv'
    BY <1>a, <1>b, <1>c, <1>7, Typing DEF ReadBack, Raise, ResultInv,
        SuccessIsUninterrupted, CanceledMeansStopped, Identity, Ownership,
        ActiveInv, GenerationInv, WritesInv, StopInv, OwnerLabels, InCall,
        Undecided, Running, Canceling, Failing, Goto, lanes, locals, history
  <2> QED
    BY <2>1, <2>2, <2>3, <2>4, <2>5, <2>6, <2>7, <2>8, <2>9
<1>8. CASE Finalize(t)
  <2>1. Ownership'
    BY <1>a, <1>b, <1>c, <1>8, Typing DEF Finalize, Raise, Leave, Settle,
        Permits, Sources, Target, IsCanceled, Ownership, OwnerLabels, InCall,
        Undecided, Running, Canceling, Failing, Goto, lanes, locals, history
  <2>2. Identity'
    BY <1>a, <1>b, <1>c, <1>8, Typing DEF Finalize, Raise, Leave, Settle,
        Permits, Sources, Target, IsCanceled, Identity, Ownership,
        OwnerLabels, InCall, Undecided, Running, Canceling, Failing, Goto,
        lanes, locals, history
  <2>3. Freshness'
    BY <1>a, <1>b, <1>c, <1>8, Typing DEF Finalize, Raise, Leave, Settle,
        Permits, Sources, Target, IsCanceled, Freshness, Identity, Ownership,
        ActiveInv, Untouched, OwnerLabels, InCall, Undecided, Running,
        Canceling, Failing, Goto, lanes, locals, history
  <2>4. ExecutingInv'
    BY <1>a, <1>b, <1>c, <1>8, Typing DEF Finalize, Raise, Leave, Settle,
        Permits, Sources, Target, IsCanceled, ExecutingInv, Ownership,
        OwnerLabels, InCall, Undecided, Running, Canceling, Failing, Goto,
        lanes, locals, history
  <2>5. ActiveInv'
    BY <1>a, <1>b, <1>c, <1>8, Typing DEF Finalize, Raise, Leave, Settle,
        Permits, Sources, Target, IsCanceled, ActiveInv, Ownership, Identity,
        Freshness, Untouched, OwnerLabels, InCall, Undecided, Running,
        Canceling, Failing, Goto, lanes, locals, history
  <2>6. GenerationInv'
    BY <1>a, <1>b, <1>c, <1>8, Typing DEF Finalize, Raise, Leave, Settle,
        Permits, Sources, Target, IsCanceled, GenerationInv, Ownership,
        Identity, ActiveInv, Freshness, StopInv, Untouched, OwnerLabels,
        InCall, Undecided, Running, Canceling, Failing, Goto, lanes, locals,
        history
  <2>7. WritesInv'
    BY <1>a, <1>b, <1>c, <1>8, Typing DEF Finalize, Raise, Leave, Settle,
        Permits, Sources, Target, IsCanceled, WritesInv, Ownership, Identity,
        Freshness, Untouched, LocalsOK, TypeInv, OwnerLabels, InCall,
        Undecided, Running, Canceling, Failing, Goto, lanes, locals, history
  <2>8. StopInv'
    BY <1>a, <1>b, <1>c, <1>8, Typing DEF Finalize, Raise, Leave, Settle,
        Permits, Sources, Target, IsCanceled, StopInv, OneStopPerCommand,
        Ownership, Identity, ActiveInv, GenerationInv, Freshness, Untouched,
        OwnerLabels, InCall, Undecided, Running, Canceling, Failing, Goto,
        lanes, locals, history
  <2>9. ResultInv'
    BY <1>a, <1>b, <1>c, <1>8, Typing DEF Finalize, Raise, Leave, Settle,
        Permits, Sources, Target, IsCanceled, ResultInv,
        SuccessIsUninterrupted, CanceledMeansStopped, Identity, Ownership,
        ActiveInv, GenerationInv, WritesInv, StopInv, OwnerLabels, InCall,
        Undecided, Running, Canceling, Failing, Goto, lanes, locals, history
  <2> QED
    BY <2>1, <2>2, <2>3, <2>4, <2>5, <2>6, <2>7, <2>8, <2>9
<1>9. CASE CancelStop(t)
  <2>1. Ownership'
    BY <1>a, <1>b, <1>c, <1>9, Typing DEF CancelStop, IssueStop, Ownership,
        OwnerLabels, InCall, Undecided, Running, Canceling, Failing, Goto,
        lanes, locals, history
  <2>2. Identity'
    BY <1>a, <1>b, <1>c, <1>9, Typing DEF CancelStop, IssueStop, Identity,
        Ownership, OwnerLabels, InCall, Undecided, Running, Canceling,
        Failing, Goto, lanes, locals, history
  <2>3. Freshness'
    BY <1>a, <1>b, <1>c, <1>9, Typing DEF CancelStop, IssueStop, Freshness,
        Identity, Ownership, ActiveInv, Untouched, OwnerLabels, InCall,
        Undecided, Running, Canceling, Failing, Goto, lanes, locals, history
  <2>4. ExecutingInv'
    BY <1>a, <1>b, <1>c, <1>9, Typing DEF CancelStop, IssueStop, ExecutingInv,
        Ownership, OwnerLabels, InCall, Undecided, Running, Canceling,
        Failing, Goto, lanes, locals, history
  <2>5. ActiveInv'
    BY <1>a, <1>b, <1>c, <1>9, Typing DEF CancelStop, IssueStop, ActiveInv,
        Ownership, Identity, Freshness, Untouched, OwnerLabels, InCall,
        Undecided, Running, Canceling, Failing, Goto, lanes, locals, history
  <2>6. GenerationInv'
    BY <1>a, <1>b, <1>c, <1>9, Typing DEF CancelStop, IssueStop,
        GenerationInv, Ownership, Identity, ActiveInv, Freshness, StopInv,
        Untouched, OwnerLabels, InCall, Undecided, Running, Canceling,
        Failing, Goto, lanes, locals, history
  <2>7. WritesInv'
    BY <1>a, <1>b, <1>c, <1>9, Typing DEF CancelStop, IssueStop, WritesInv,
        Ownership, Identity, Freshness, Untouched, LocalsOK, TypeInv,
        OwnerLabels, InCall, Undecided, Running, Canceling, Failing, Goto,
        lanes, locals, history
  <2>8. StopInv'
    BY <1>a, <1>b, <1>c, <1>9, Typing DEF CancelStop, IssueStop, StopInv,
        OneStopPerCommand, Ownership, Identity, ActiveInv, GenerationInv,
        Freshness, Untouched, OwnerLabels, InCall, Undecided, Running,
        Canceling, Failing, Goto, lanes, locals, history
  <2>9. ResultInv'
    BY <1>a, <1>b, <1>c, <1>9, Typing DEF CancelStop, IssueStop, ResultInv,
        SuccessIsUninterrupted, CanceledMeansStopped, Identity, Ownership,
        ActiveInv, GenerationInv, WritesInv, StopInv, OwnerLabels, InCall,
        Undecided, Running, Canceling, Failing, Goto, lanes, locals, history
  <2> QED
    BY <2>1, <2>2, <2>3, <2>4, <2>5, <2>6, <2>7, <2>8, <2>9
<1>10. CASE CancelCheck(t)
  <2>1. Ownership'
    BY <1>a, <1>b, <1>c, <1>10, Typing DEF CancelCheck, Leave, Settle,
        Ownership, OwnerLabels, InCall, Undecided, Running, Canceling,
        Failing, Goto, lanes, locals, history
  <2>2. Identity'
    BY <1>a, <1>b, <1>c, <1>10, Typing DEF CancelCheck, Leave, Settle,
        Identity, Ownership, OwnerLabels, InCall, Undecided, Running,
        Canceling, Failing, Goto, lanes, locals, history
  <2>3. Freshness'
    BY <1>a, <1>b, <1>c, <1>10, Typing DEF CancelCheck, Leave, Settle,
        Freshness, Identity, Ownership, ActiveInv, Untouched, OwnerLabels,
        InCall, Undecided, Running, Canceling, Failing, Goto, lanes, locals,
        history
  <2>4. ExecutingInv'
    BY <1>a, <1>b, <1>c, <1>10, Typing DEF CancelCheck, Leave, Settle,
        ExecutingInv, Ownership, OwnerLabels, InCall, Undecided, Running,
        Canceling, Failing, Goto, lanes, locals, history
  <2>5. ActiveInv'
    BY <1>a, <1>b, <1>c, <1>10, Typing DEF CancelCheck, Leave, Settle,
        ActiveInv, Ownership, Identity, Freshness, Untouched, OwnerLabels,
        InCall, Undecided, Running, Canceling, Failing, Goto, lanes, locals,
        history
  <2>6. GenerationInv'
    BY <1>a, <1>b, <1>c, <1>10, Typing DEF CancelCheck, Leave, Settle,
        GenerationInv, Ownership, Identity, ActiveInv, Freshness, StopInv,
        Untouched, OwnerLabels, InCall, Undecided, Running, Canceling,
        Failing, Goto, lanes, locals, history
  <2>7. WritesInv'
    BY <1>a, <1>b, <1>c, <1>10, Typing DEF CancelCheck, Leave, Settle,
        WritesInv, Ownership, Identity, Freshness, Untouched, LocalsOK,
        TypeInv, OwnerLabels, InCall, Undecided, Running, Canceling, Failing,
        Goto, lanes, locals, history
  <2>8. StopInv'
    BY <1>a, <1>b, <1>c, <1>10, Typing DEF CancelCheck, Leave, Settle,
        StopInv, OneStopPerCommand, Ownership, Identity, ActiveInv,
        GenerationInv, Freshness, Untouched, OwnerLabels, InCall, Undecided,
        Running, Canceling, Failing, Goto, lanes, locals, history
  <2>9. ResultInv'
    BY <1>a, <1>b, <1>c, <1>10, Typing DEF CancelCheck, Leave, Settle,
        ResultInv, SuccessIsUninterrupted, CanceledMeansStopped, Identity,
        Ownership, ActiveInv, GenerationInv, WritesInv, StopInv, OwnerLabels,
        InCall, Undecided, Running, Canceling, Failing, Goto, lanes, locals,
        history
  <2> QED
    BY <2>1, <2>2, <2>3, <2>4, <2>5, <2>6, <2>7, <2>8, <2>9
<1>11. CASE CancelApply(t)
  <2>1. Ownership'
    BY <1>a, <1>b, <1>c, <1>11, Typing DEF CancelApply, Raise, Leave, Settle,
        Permits, Sources, Target, Ownership, OwnerLabels, InCall, Undecided,
        Running, Canceling, Failing, Goto, lanes, locals, history
  <2>2. Identity'
    BY <1>a, <1>b, <1>c, <1>11, Typing DEF CancelApply, Raise, Leave, Settle,
        Permits, Sources, Target, Identity, Ownership, OwnerLabels, InCall,
        Undecided, Running, Canceling, Failing, Goto, lanes, locals, history
  <2>3. Freshness'
    BY <1>a, <1>b, <1>c, <1>11, Typing DEF CancelApply, Raise, Leave, Settle,
        Permits, Sources, Target, Freshness, Identity, Ownership, ActiveInv,
        Untouched, OwnerLabels, InCall, Undecided, Running, Canceling,
        Failing, Goto, lanes, locals, history
  <2>4. ExecutingInv'
    BY <1>a, <1>b, <1>c, <1>11, Typing DEF CancelApply, Raise, Leave, Settle,
        Permits, Sources, Target, ExecutingInv, Ownership, OwnerLabels,
        InCall, Undecided, Running, Canceling, Failing, Goto, lanes, locals,
        history
  <2>5. ActiveInv'
    BY <1>a, <1>b, <1>c, <1>11, Typing DEF CancelApply, Raise, Leave, Settle,
        Permits, Sources, Target, ActiveInv, Ownership, Identity, Freshness,
        Untouched, OwnerLabels, InCall, Undecided, Running, Canceling,
        Failing, Goto, lanes, locals, history
  <2>6. GenerationInv'
    BY <1>a, <1>b, <1>c, <1>11, Typing DEF CancelApply, Raise, Leave, Settle,
        Permits, Sources, Target, GenerationInv, Ownership, Identity,
        ActiveInv, Freshness, StopInv, Untouched, OwnerLabels, InCall,
        Undecided, Running, Canceling, Failing, Goto, lanes, locals, history
  <2>7. WritesInv'
    BY <1>a, <1>b, <1>c, <1>11, Typing DEF CancelApply, Raise, Leave, Settle,
        Permits, Sources, Target, WritesInv, Ownership, Identity, Freshness,
        Untouched, LocalsOK, TypeInv, OwnerLabels, InCall, Undecided, Running,
        Canceling, Failing, Goto, lanes, locals, history
  <2>8. StopInv'
    BY <1>a, <1>b, <1>c, <1>11, Typing DEF CancelApply, Raise, Leave, Settle,
        Permits, Sources, Target, StopInv, OneStopPerCommand, Ownership,
        Identity, ActiveInv, GenerationInv, Freshness, Untouched, OwnerLabels,
        InCall, Undecided, Running, Canceling, Failing, Goto, lanes, locals,
        history
  <2>9. ResultInv'
    BY <1>a, <1>b, <1>c, <1>11, Typing DEF CancelApply, Raise, Leave, Settle,
        Permits, Sources, Target, ResultInv, SuccessIsUninterrupted,
        CanceledMeansStopped, Identity, Ownership, ActiveInv, GenerationInv,
        WritesInv, StopInv, OwnerLabels, InCall, Undecided, Running,
        Canceling, Failing, Goto, lanes, locals, history
  <2> QED
    BY <2>1, <2>2, <2>3, <2>4, <2>5, <2>6, <2>7, <2>8, <2>9
<1>12. CASE FailStop(t)
  <2>1. Ownership'
    BY <1>a, <1>b, <1>c, <1>12, Typing DEF FailStop, IssueStop, Ownership,
        OwnerLabels, InCall, Undecided, Running, Canceling, Failing, Goto,
        lanes, locals, history
  <2>2. Identity'
    BY <1>a, <1>b, <1>c, <1>12, Typing DEF FailStop, IssueStop, Identity,
        Ownership, OwnerLabels, InCall, Undecided, Running, Canceling,
        Failing, Goto, lanes, locals, history
  <2>3. Freshness'
    BY <1>a, <1>b, <1>c, <1>12, Typing DEF FailStop, IssueStop, Freshness,
        Identity, Ownership, ActiveInv, Untouched, OwnerLabels, InCall,
        Undecided, Running, Canceling, Failing, Goto, lanes, locals, history
  <2>4. ExecutingInv'
    BY <1>a, <1>b, <1>c, <1>12, Typing DEF FailStop, IssueStop, ExecutingInv,
        Ownership, OwnerLabels, InCall, Undecided, Running, Canceling,
        Failing, Goto, lanes, locals, history
  <2>5. ActiveInv'
    BY <1>a, <1>b, <1>c, <1>12, Typing DEF FailStop, IssueStop, ActiveInv,
        Ownership, Identity, Freshness, Untouched, OwnerLabels, InCall,
        Undecided, Running, Canceling, Failing, Goto, lanes, locals, history
  <2>6. GenerationInv'
    BY <1>a, <1>b, <1>c, <1>12, Typing DEF FailStop, IssueStop, GenerationInv,
        Ownership, Identity, ActiveInv, Freshness, StopInv, Untouched,
        OwnerLabels, InCall, Undecided, Running, Canceling, Failing, Goto,
        lanes, locals, history
  <2>7. WritesInv'
    BY <1>a, <1>b, <1>c, <1>12, Typing DEF FailStop, IssueStop, WritesInv,
        Ownership, Identity, Freshness, Untouched, LocalsOK, TypeInv,
        OwnerLabels, InCall, Undecided, Running, Canceling, Failing, Goto,
        lanes, locals, history
  <2>8. StopInv'
    BY <1>a, <1>b, <1>c, <1>12, Typing DEF FailStop, IssueStop, StopInv,
        OneStopPerCommand, Ownership, Identity, ActiveInv, GenerationInv,
        Freshness, Untouched, OwnerLabels, InCall, Undecided, Running,
        Canceling, Failing, Goto, lanes, locals, history
  <2>9. ResultInv'
    BY <1>a, <1>b, <1>c, <1>12, Typing DEF FailStop, IssueStop, ResultInv,
        SuccessIsUninterrupted, CanceledMeansStopped, Identity, Ownership,
        ActiveInv, GenerationInv, WritesInv, StopInv, OwnerLabels, InCall,
        Undecided, Running, Canceling, Failing, Goto, lanes, locals, history
  <2> QED
    BY <2>1, <2>2, <2>3, <2>4, <2>5, <2>6, <2>7, <2>8, <2>9
<1>13. CASE FailCheck(t)
  <2>1. Ownership'
    BY <1>a, <1>b, <1>c, <1>13, Typing DEF FailCheck, Leave, Settle,
        Ownership, OwnerLabels, InCall, Undecided, Running, Canceling,
        Failing, Goto, lanes, locals, history
  <2>2. Identity'
    BY <1>a, <1>b, <1>c, <1>13, Typing DEF FailCheck, Leave, Settle, Identity,
        Ownership, OwnerLabels, InCall, Undecided, Running, Canceling,
        Failing, Goto, lanes, locals, history
  <2>3. Freshness'
    BY <1>a, <1>b, <1>c, <1>13, Typing DEF FailCheck, Leave, Settle,
        Freshness, Identity, Ownership, ActiveInv, Untouched, OwnerLabels,
        InCall, Undecided, Running, Canceling, Failing, Goto, lanes, locals,
        history
  <2>4. ExecutingInv'
    BY <1>a, <1>b, <1>c, <1>13, Typing DEF FailCheck, Leave, Settle,
        ExecutingInv, Ownership, OwnerLabels, InCall, Undecided, Running,
        Canceling, Failing, Goto, lanes, locals, history
  <2>5. ActiveInv'
    BY <1>a, <1>b, <1>c, <1>13, Typing DEF FailCheck, Leave, Settle,
        ActiveInv, Ownership, Identity, Freshness, Untouched, OwnerLabels,
        InCall, Undecided, Running, Canceling, Failing, Goto, lanes, locals,
        history
  <2>6. GenerationInv'
    BY <1>a, <1>b, <1>c, <1>13, Typing DEF FailCheck, Leave, Settle,
        GenerationInv, Ownership, Identity, ActiveInv, Freshness, StopInv,
        Untouched, OwnerLabels, InCall, Undecided, Running, Canceling,
        Failing, Goto, lanes, locals, history
  <2>7. WritesInv'
    BY <1>a, <1>b, <1>c, <1>13, Typing DEF FailCheck, Leave, Settle,
        WritesInv, Ownership, Identity, Freshness, Untouched, LocalsOK,
        TypeInv, OwnerLabels, InCall, Undecided, Running, Canceling, Failing,
        Goto, lanes, locals, history
  <2>8. StopInv'
    BY <1>a, <1>b, <1>c, <1>13, Typing DEF FailCheck, Leave, Settle, StopInv,
        OneStopPerCommand, Ownership, Identity, ActiveInv, GenerationInv,
        Freshness, Untouched, OwnerLabels, InCall, Undecided, Running,
        Canceling, Failing, Goto, lanes, locals, history
  <2>9. ResultInv'
    BY <1>a, <1>b, <1>c, <1>13, Typing DEF FailCheck, Leave, Settle,
        ResultInv, SuccessIsUninterrupted, CanceledMeansStopped, Identity,
        Ownership, ActiveInv, GenerationInv, WritesInv, StopInv, OwnerLabels,
        InCall, Undecided, Running, Canceling, Failing, Goto, lanes, locals,
        history
  <2> QED
    BY <2>1, <2>2, <2>3, <2>4, <2>5, <2>6, <2>7, <2>8, <2>9
<1>14. CASE FailApply(t)
  <2>1. Ownership'
    BY <1>a, <1>b, <1>c, <1>14, Typing DEF FailApply, Raise, Leave, Settle,
        Permits, Sources, Target, Ownership, OwnerLabels, InCall, Undecided,
        Running, Canceling, Failing, Goto, lanes, locals, history
  <2>2. Identity'
    BY <1>a, <1>b, <1>c, <1>14, Typing DEF FailApply, Raise, Leave, Settle,
        Permits, Sources, Target, Identity, Ownership, OwnerLabels, InCall,
        Undecided, Running, Canceling, Failing, Goto, lanes, locals, history
  <2>3. Freshness'
    BY <1>a, <1>b, <1>c, <1>14, Typing DEF FailApply, Raise, Leave, Settle,
        Permits, Sources, Target, Freshness, Identity, Ownership, ActiveInv,
        Untouched, OwnerLabels, InCall, Undecided, Running, Canceling,
        Failing, Goto, lanes, locals, history
  <2>4. ExecutingInv'
    BY <1>a, <1>b, <1>c, <1>14, Typing DEF FailApply, Raise, Leave, Settle,
        Permits, Sources, Target, ExecutingInv, Ownership, OwnerLabels,
        InCall, Undecided, Running, Canceling, Failing, Goto, lanes, locals,
        history
  <2>5. ActiveInv'
    BY <1>a, <1>b, <1>c, <1>14, Typing DEF FailApply, Raise, Leave, Settle,
        Permits, Sources, Target, ActiveInv, Ownership, Identity, Freshness,
        Untouched, OwnerLabels, InCall, Undecided, Running, Canceling,
        Failing, Goto, lanes, locals, history
  <2>6. GenerationInv'
    BY <1>a, <1>b, <1>c, <1>14, Typing DEF FailApply, Raise, Leave, Settle,
        Permits, Sources, Target, GenerationInv, Ownership, Identity,
        ActiveInv, Freshness, StopInv, Untouched, OwnerLabels, InCall,
        Undecided, Running, Canceling, Failing, Goto, lanes, locals, history
  <2>7. WritesInv'
    BY <1>a, <1>b, <1>c, <1>14, Typing DEF FailApply, Raise, Leave, Settle,
        Permits, Sources, Target, WritesInv, Ownership, Identity, Freshness,
        Untouched, LocalsOK, TypeInv, OwnerLabels, InCall, Undecided, Running,
        Canceling, Failing, Goto, lanes, locals, history
  <2>8. StopInv'
    BY <1>a, <1>b, <1>c, <1>14, Typing DEF FailApply, Raise, Leave, Settle,
        Permits, Sources, Target, StopInv, OneStopPerCommand, Ownership,
        Identity, ActiveInv, GenerationInv, Freshness, Untouched, OwnerLabels,
        InCall, Undecided, Running, Canceling, Failing, Goto, lanes, locals,
        history
  <2>9. ResultInv'
    BY <1>a, <1>b, <1>c, <1>14, Typing DEF FailApply, Raise, Leave, Settle,
        Permits, Sources, Target, ResultInv, SuccessIsUninterrupted,
        CanceledMeansStopped, Identity, Ownership, ActiveInv, GenerationInv,
        WritesInv, StopInv, OwnerLabels, InCall, Undecided, Running,
        Canceling, Failing, Goto, lanes, locals, history
  <2> QED
    BY <2>1, <2>2, <2>3, <2>4, <2>5, <2>6, <2>7, <2>8, <2>9
<1>15. CASE Finally(t)
  <2>1. Ownership'
    BY <1>a, <1>b, <1>c, <1>15, Typing DEF Finally, Ownership, OwnerLabels,
        InCall, Undecided, Running, Canceling, Failing, Goto, lanes, locals,
        history
  <2>2. Identity'
    BY <1>a, <1>b, <1>c, <1>15, Typing DEF Finally, Identity, Ownership,
        OwnerLabels, InCall, Undecided, Running, Canceling, Failing, Goto,
        lanes, locals, history
  <2>3. Freshness'
    BY <1>a, <1>b, <1>c, <1>15, Typing DEF Finally, Freshness, Identity,
        Ownership, ActiveInv, Untouched, OwnerLabels, InCall, Undecided,
        Running, Canceling, Failing, Goto, lanes, locals, history
  <2>4. ExecutingInv'
    BY <1>a, <1>b, <1>c, <1>15, Typing DEF Finally, ExecutingInv, Ownership,
        OwnerLabels, InCall, Undecided, Running, Canceling, Failing, Goto,
        lanes, locals, history
  <2>5. ActiveInv'
    BY <1>a, <1>b, <1>c, <1>15, Typing DEF Finally, ActiveInv, Ownership,
        Identity, Freshness, Untouched, OwnerLabels, InCall, Undecided,
        Running, Canceling, Failing, Goto, lanes, locals, history
  <2>6. GenerationInv'
    BY <1>a, <1>b, <1>c, <1>15, Typing DEF Finally, GenerationInv, Ownership,
        Identity, ActiveInv, Freshness, StopInv, Untouched, OwnerLabels,
        InCall, Undecided, Running, Canceling, Failing, Goto, lanes, locals,
        history
  <2>7. WritesInv'
    BY <1>a, <1>b, <1>c, <1>15, Typing DEF Finally, WritesInv, Ownership,
        Identity, Freshness, Untouched, LocalsOK, TypeInv, OwnerLabels,
        InCall, Undecided, Running, Canceling, Failing, Goto, lanes, locals,
        history
  <2>8. StopInv'
    BY <1>a, <1>b, <1>c, <1>15, Typing DEF Finally, StopInv,
        OneStopPerCommand, Ownership, Identity, ActiveInv, GenerationInv,
        Freshness, Untouched, OwnerLabels, InCall, Undecided, Running,
        Canceling, Failing, Goto, lanes, locals, history
  <2>9. ResultInv'
    BY <1>a, <1>b, <1>c, <1>15, Typing DEF Finally, ResultInv,
        SuccessIsUninterrupted, CanceledMeansStopped, Identity, Ownership,
        ActiveInv, GenerationInv, WritesInv, StopInv, OwnerLabels, InCall,
        Undecided, Running, Canceling, Failing, Goto, lanes, locals, history
  <2> QED
    BY <2>1, <2>2, <2>3, <2>4, <2>5, <2>6, <2>7, <2>8, <2>9
<1> QED
  BY <1>1, <1>2, <1>3, <1>4, <1>5, <1>6, <1>7, <1>8, <1>9, <1>10, <1>11,
      <1>12, <1>13, <1>14, <1>15 DEF ExecuteStep

\* What the steps of connect, close and recover, the checks and faults after a
\* failed stop, and the beginning of every call but execute have in common.
Outside(t) ==
    /\ pc[t] \in ControlLabels
    /\ pc' \in {pc} \cup {[pc EXCEPT ![t] = label] : label \in ControlLabels}
    /\ NextCommand' = NextCommand
    /\ driver' # "executing" \/ driver' = driver
    /\ UNCHANGED <<execLock, lanes, locals, history>>

\* Steps outside execute that leave the lane alone preserve the invariant.
LEMMA SafetyOutside ==
    ASSUME SafetyInv, TypeInv', NEW t \in Threads, Outside(t)
    PROVE  SafetyInv'
<1> USE DEF SafetyInv
<1>1. Ownership'
  BY Typing DEF Outside, Ownership, OwnerLabels, InCall, Undecided, Running,
      Canceling, Failing, ControlLabels, Goto, lanes, locals, history
<1>2. Identity'
  BY Typing DEF Outside, Identity, Ownership, OwnerLabels, InCall, Undecided,
      Running, Canceling, Failing, ControlLabels, Goto, lanes, locals, history
<1>3. Freshness'
  BY Typing DEF Outside, Freshness, Identity, Ownership, ActiveInv, Untouched,
      OwnerLabels, InCall, Undecided, Running, Canceling, Failing,
      ControlLabels, Goto, lanes, locals, history
<1>4. ExecutingInv'
  BY Typing DEF Outside, ExecutingInv, Ownership, OwnerLabels, InCall,
      Undecided, Running, Canceling, Failing, ControlLabels, Goto, lanes,
      locals, history
<1>5. ActiveInv'
  BY Typing DEF Outside, ActiveInv, Ownership, Identity, Freshness, Untouched,
      OwnerLabels, InCall, Undecided, Running, Canceling, Failing,
      ControlLabels, Goto, lanes, locals, history
<1>6. GenerationInv'
  BY Typing DEF Outside, GenerationInv, Ownership, Identity, ActiveInv,
      Freshness, StopInv, Untouched, OwnerLabels, InCall, Undecided, Running,
      Canceling, Failing, ControlLabels, Goto, lanes, locals, history
<1>7. WritesInv'
  BY Typing DEF Outside, WritesInv, Ownership, Identity, Freshness, Untouched,
      LocalsOK, TypeInv, OwnerLabels, InCall, Undecided, Running, Canceling,
      Failing, ControlLabels, Goto, lanes, locals, history
<1>8. StopInv'
  BY Typing DEF Outside, StopInv, OneStopPerCommand, Ownership, Identity,
      ActiveInv, GenerationInv, Freshness, Untouched, OwnerLabels, InCall,
      Undecided, Running, Canceling, Failing, ControlLabels, Goto, lanes,
      locals, history
<1>9. ResultInv'
  BY Typing DEF Outside, ResultInv, SuccessIsUninterrupted,
      CanceledMeansStopped, Identity, Ownership, ActiveInv, GenerationInv,
      WritesInv, StopInv, OwnerLabels, InCall, Undecided, Running, Canceling,
      Failing, ControlLabels, Goto, lanes, locals, history
<1> QED
  BY <1>1, <1>2, <1>3, <1>4, <1>5, <1>6, <1>7, <1>8, <1>9

\* A new execute call preserves the invariant.
LEMMA SafetyInvokeExecute ==
    ASSUME SafetyInv, TypeInv', NEW t \in Threads, InvokeExecute(t)
    PROVE  SafetyInv'
<1> USE DEF SafetyInv
<1>a. /\ pc[t] = "idle"
      /\ \/ pc' = pc /\ cmd' = cmd
         \/ /\ pc' = [pc EXCEPT ![t] = "acquire"]
            /\ cmd' = [cmd EXCEPT ![t] = NextCommand]
      /\ UNCHANGED <<driver, execLock, lanes, point, accepted, handling, history>>
  BY DEF InvokeExecute, Goto
<1>b. NextCommand \in Commands
  BY NextCommandFresh DEF InvokeExecute, TypeInv
<1>c. NextCommand' = NextCommand + 1
  <2>1. "execute" \in Calls
    BY DEF Calls
  <2>2. budget["execute"] \in Nat /\ CallBudget["execute"] \in Nat
    BY <2>1, CallBudgetAssumption DEF TypeInv, TypeOK
  <2>3. budget'["execute"] = budget["execute"] - 1
    BY <2>1 DEF InvokeExecute, Spend, TypeInv, TypeOK
  <2> QED
    BY <2>2, <2>3 DEF NextCommand
<1>d. /\ \A c \in Commands : c >= NextCommand' => c >= NextCommand /\ c # NextCommand
      /\ \A c \in Commands : c < NextCommand => c < NextCommand' /\ c # NextCommand
      /\ NextCommand < NextCommand' /\ NextCommand >= NextCommand
  BY <1>c, Typing DEF Commands
<1>1. Ownership'
  BY <1>a, <1>b, <1>d, Typing DEF Ownership, OwnerLabels, InCall,
      Undecided, Running, Canceling, Failing, ControlLabels, Goto, lanes,
      locals, history
<1>2. Identity'
  <2>a. /\ pc \in [Threads -> Labels] /\ cmd \in [Threads -> Commands \cup {NoCommand}]
        /\ NextCommand \in Int /\ NextCommand' = NextCommand + 1
        /\ Commands \subseteq Int
    BY <1>c, Typing DEF Commands
  <2>b. \A u \in Threads : u # t => pc'[u] = pc[u] /\ cmd'[u] = cmd[u]
    BY <1>a, <2>a
  <2>c. CASE pc' = pc /\ cmd' = cmd
    <3>1. \A u \in Threads : pc[u] \in InCall => cmd[u] < NextCommand'
      <4>1. \A u \in Threads : pc[u] \in InCall => cmd[u] \in Int /\ cmd[u] < NextCommand
        BY <2>a, Typing DEF Identity
      <4> QED
        BY <2>a, <4>1
    <3> QED
      BY <1>a, <2>c, <3>1 DEF Identity, history
  <2>d. CASE pc' = [pc EXCEPT ![t] = "acquire"] /\ cmd' = [cmd EXCEPT ![t] = NextCommand]
    <3>1. pc'[t] = "acquire" /\ cmd'[t] = NextCommand
      BY <2>a, <2>d
    <3>2. \A u \in Threads : u # t /\ pc'[u] \in InCall => cmd'[u] < NextCommand
      BY <2>b DEF Identity
    <3>3. \A u \in Threads : pc'[u] \in InCall => cmd'[u] < NextCommand'
      <4>1. \A u \in Threads : u # t /\ pc'[u] \in InCall => cmd'[u] \in Int
        BY <2>a, <2>b, Typing
      <4> QED
        BY <2>a, <3>1, <3>2, <4>1
    <3>4. \A u \in Threads : u # t /\ pc'[u] \in InCall => cmd'[u] # NextCommand
      BY <2>a, <2>b, <3>2, Typing
    <3>5. \A u, v \in Threads :
              u # v /\ pc'[u] \in InCall /\ pc'[v] \in InCall => cmd'[u] # cmd'[v]
      BY <2>b, <3>1, <3>4 DEF Identity
    <3>6. outcome[NextCommand] = "none"
      BY <1>b, <1>d DEF Freshness, Untouched
    <3>7. \A u \in Threads : pc'[u] \in Undecided => outcome'[cmd'[u]] = "none"
      BY <1>a, <2>b, <3>1, <3>6 DEF Identity, history
    <3> QED
      BY <3>3, <3>5, <3>7 DEF Identity
  <2> QED
    BY <1>a, <2>c, <2>d
<1>3. Freshness'
  BY <1>a, <1>b, <1>d, Typing DEF Freshness, Identity, Ownership,
      ActiveInv, Untouched, OwnerLabels, InCall, Undecided, Running,
      Canceling, Failing, ControlLabels, Goto, lanes, locals, history
<1>4. ExecutingInv'
  BY <1>a, <1>b, <1>d, Typing DEF ExecutingInv, Ownership, OwnerLabels,
      InCall, Undecided, Running, Canceling, Failing, ControlLabels, Goto,
      lanes, locals, history
<1>5. ActiveInv'
  BY <1>a, <1>b, <1>d, Typing DEF ActiveInv, Ownership, Identity,
      Freshness, Untouched, OwnerLabels, InCall, Undecided, Running,
      Canceling, Failing, ControlLabels, Goto, lanes, locals, history
<1>6. GenerationInv'
  BY <1>a, <1>b, <1>d, Typing DEF GenerationInv, Ownership, Identity,
      ActiveInv, Freshness, StopInv, Untouched, OwnerLabels, InCall,
      Undecided, Running, Canceling, Failing, ControlLabels, Goto, lanes,
      locals, history
<1>7. WritesInv'
  BY <1>a, <1>b, <1>d, Typing DEF WritesInv, Ownership, Identity,
      Freshness, Untouched, LocalsOK, TypeInv, OwnerLabels, InCall, Undecided,
      Running, Canceling, Failing, ControlLabels, Goto, lanes, locals, history
<1>8. StopInv'
  BY <1>a, <1>b, <1>d, Typing DEF StopInv, OneStopPerCommand, Ownership,
      Identity, ActiveInv, GenerationInv, Freshness, Untouched, OwnerLabels,
      InCall, Undecided, Running, Canceling, Failing, ControlLabels, Goto,
      lanes, locals, history
<1>9. ResultInv'
  BY <1>a, <1>b, <1>d, Typing DEF ResultInv, SuccessIsUninterrupted,
      CanceledMeansStopped, Identity, Ownership, ActiveInv, GenerationInv,
      WritesInv, StopInv, OwnerLabels, InCall, Undecided, Running, Canceling,
      Failing, ControlLabels, Goto, lanes, locals, history
<1> QED
  BY <1>1, <1>2, <1>3, <1>4, <1>5, <1>6, <1>7, <1>8, <1>9

\* An accepted cancel or stop of the active command: what the two have in common.
Halt(t) ==
    /\ pc[t] \in ControlLabels
    /\ \E label \in ControlLabels : pc' = [pc EXCEPT ![t] = label]
    /\ NextCommand' = NextCommand
    /\ generation' = generation + 1
    /\ IF active = NoCommand
         THEN /\ stopOutcome' = NoStop
              /\ UNCHANGED <<canceled, stops, stopAcked>>
         ELSE /\ canceled' = canceled \cup {active}
              /\ \E ok \in BOOLEAN : IssueStop(active, ok)
    /\ UNCHANGED <<driver, execLock, active, locals, writes, outcome>>

\* It preserves the invariant: the command is the owner's and its result is not
\* success, so no report becomes wrong, and no other command is touched.
LEMMA SafetyHalt ==
    ASSUME SafetyInv, TypeInv', NEW t \in Threads, Halt(t)
    PROVE  SafetyInv'
<1> USE DEF SafetyInv
<1>a. ASSUME active # NoCommand
      PROVE  /\ active \in Commands /\ active < NextCommand /\ ~(active >= NextCommand)
             /\ \A u \in Threads : pc[u] \in {"acquire", "admit", "publish"} => cmd[u] # active
             /\ outcome[active] # "success"
  <2>1. PICK u \in Threads : cmd[u] = active /\ pc[u] \in OwnerLabels \ {"admit", "publish"}
    BY <1>a DEF ActiveInv
  <2>2. active \in Commands /\ active < NextCommand
    BY <1>a, <2>1, Typing DEF Identity, InCall
  <2>3. ~(active >= NextCommand)
    BY <2>2, Typing DEF Commands
  <2> QED
    BY <1>a, <2>1, <2>2, <2>3 DEF ActiveInv, Identity, InCall, OwnerLabels
<1>b. \A u \in Threads : accepted[u] <= generation => accepted[u] # generation + 1
                                                    /\ accepted[u] <= generation + 1
  BY Typing
<1>1. Ownership'
  BY <1>a, <1>b, Typing DEF Halt, IssueStop, NoStop, Ownership, OwnerLabels,
      InCall, Undecided, Running, Canceling, Failing, ControlLabels, locals
<1>2. Identity'
  BY <1>a, <1>b, Typing DEF Halt, IssueStop, NoStop, Identity, Ownership,
      OwnerLabels, InCall, Undecided, Running, Canceling, Failing,
      ControlLabels, locals
<1>3. Freshness'
  BY <1>a, <1>b, Typing DEF Halt, IssueStop, NoStop, Freshness, Identity,
      Ownership, ActiveInv, Untouched, OwnerLabels, InCall, Undecided,
      Running, Canceling, Failing, ControlLabels, locals
<1>4. ExecutingInv'
  BY <1>a, <1>b, Typing DEF Halt, IssueStop, NoStop, ExecutingInv, Ownership,
      OwnerLabels, InCall, Undecided, Running, Canceling, Failing,
      ControlLabels, locals
<1>5. ActiveInv'
  BY <1>a, <1>b, Typing DEF Halt, IssueStop, NoStop, ActiveInv, Ownership,
      Identity, Freshness, Untouched, OwnerLabels, InCall, Undecided, Running,
      Canceling, Failing, ControlLabels, locals
<1>6. GenerationInv'
  BY <1>a, <1>b, Typing DEF Halt, IssueStop, NoStop, GenerationInv, Ownership,
      Identity, ActiveInv, Freshness, StopInv, Untouched, OwnerLabels, InCall,
      Undecided, Running, Canceling, Failing, ControlLabels, locals
<1>7. WritesInv'
  BY <1>a, <1>b, Typing DEF Halt, IssueStop, NoStop, WritesInv, Ownership,
      Identity, Freshness, Untouched, LocalsOK, TypeInv, OwnerLabels, InCall,
      Undecided, Running, Canceling, Failing, ControlLabels, locals
<1>8. StopInv'
  BY <1>a, <1>b, Typing DEF Halt, IssueStop, NoStop, StopInv,
      OneStopPerCommand, Ownership, Identity, ActiveInv, GenerationInv,
      Freshness, Untouched, OwnerLabels, InCall, Undecided, Running,
      Canceling, Failing, ControlLabels, locals
<1>9. ResultInv'
  BY <1>a, <1>b, Typing DEF Halt, IssueStop, NoStop, ResultInv,
      SuccessIsUninterrupted, CanceledMeansStopped, Identity, Ownership,
      ActiveInv, GenerationInv, WritesInv, StopInv, OwnerLabels, InCall,
      Undecided, Running, Canceling, Failing, ControlLabels, locals
<1> QED
  BY <1>1, <1>2, <1>3, <1>4, <1>5, <1>6, <1>7, <1>8, <1>9

\* Every step that is not one of execute's is Outside, or halts a command.
LEMMA InvokeIsOutside ==
    ASSUME TypeInv, NEW t \in Threads, Invoke(t), ~InvokeExecute(t)
    PROVE  Outside(t)
<1>1. NextCommand' = NextCommand
  BY DEF Invoke, InvokeCancel, InvokeStop, InvokeRecover, InvokeConnect, InvokeClose,
         Spend, NextCommand, TypeInv, TypeOK, Calls
<1>2. {"idle", "cancel", "stop", "rec_check", "conn_open", "dis_check"} \subseteq ControlLabels
  BY DEF ControlLabels, Labels, OwnerLabels
<1>3. driver' = driver \/ driver' # "executing"
  BY DEF Invoke, InvokeCancel, InvokeStop, InvokeRecover, InvokeConnect, InvokeClose, Target
<1>4. UNCHANGED <<execLock, lanes, locals, history>>
  BY DEF Invoke, InvokeCancel, InvokeStop, InvokeRecover, InvokeConnect, InvokeClose
<1>5. /\ pc[t] \in ControlLabels
      /\ pc' \in {pc} \cup {[pc EXCEPT ![t] = label] : label \in ControlLabels}
  BY <1>2 DEF Invoke, InvokeCancel, InvokeStop, InvokeRecover, InvokeConnect, InvokeClose, Goto
<1> QED
  BY <1>1, <1>3, <1>4, <1>5 DEF Outside

\* The checks and faults that follow a failed stop.
LEMMA FaultIsOutside ==
    ASSUME TypeInv, NEW t \in Threads,
           NEW check \in ControlLabels, NEW fault \in ControlLabels, NEW next \in ControlLabels,
           StopFaultCheck(t, check, fault, next) \/ StopFault(t, fault, next)
    PROVE  Outside(t)
<1>1. NextCommand' = NextCommand
  BY DEF StopFaultCheck, StopFault, NextCommand
<1>2. driver' = driver \/ driver' # "executing"
  BY DEF StopFaultCheck, StopFault, Target
<1> QED
  BY <1>1, <1>2 DEF Outside, StopFaultCheck, StopFault, Goto

\* stop_now halts the published command, if there is one.
LEMMA StopIsHalt ==
    ASSUME TypeInv, NEW t \in Threads,
           NEW here \in ControlLabels, NEW check \in ControlLabels, NEW next \in ControlLabels,
           StopNow(t, here, check, next)
    PROVE  Halt(t)
<1>1. NextCommand' = NextCommand
  BY DEF StopNow, NextCommand
<1>2. \E label \in ControlLabels : pc' = [pc EXCEPT ![t] = label]
  BY DEF StopNow, Goto
<1>3. IF active = NoCommand
        THEN /\ stopOutcome' = NoStop
             /\ UNCHANGED <<canceled, stops, stopAcked>>
        ELSE /\ canceled' = canceled \cup {active}
             /\ \E ok \in BOOLEAN : IssueStop(active, ok)
  BY DEF StopNow, IssueAdHocStop
<1> QED
  BY <1>1, <1>2, <1>3 DEF Halt, StopNow

\* cancel_current_command halts the published command or does nothing.
LEMMA CancelIsHalt ==
    ASSUME TypeInv, NEW t \in Threads, CancelNow(t)
    PROVE  Halt(t) \/ Outside(t)
<1>1. NextCommand' = NextCommand
  BY DEF CancelNow, NextCommand
<1>2. {"idle", "cancel", "cancel_check"} \subseteq ControlLabels
  BY DEF ControlLabels, Labels, OwnerLabels
<1>3. CASE active = NoCommand
  BY <1>1, <1>2, <1>3 DEF CancelNow, Outside, Goto, lanes
<1>4. CASE active # NoCommand
  BY <1>1, <1>2, <1>4 DEF CancelNow, Halt, Goto
<1> QED
  BY <1>3, <1>4

\* The session's own steps.
LEMMA SessionIsOutside ==
    ASSUME TypeInv, NEW t \in Threads, SessionStep(t)
    PROVE  Halt(t) \/ Outside(t)
<1>1. {"idle", "conn_open", "conn_done", "conn_cleanup", "conn_reset", "probe", "dis_check",
       "dis_stop", "dis_stop_check", "dis_stop_fault", "dis_hw", "dis_apply", "rec_check",
       "rec_request", "rec_read"} \subseteq ControlLabels
  BY DEF ControlLabels, Labels, OwnerLabels
<1>2. CASE DisconnectStop(t)
  BY <1>1, <1>2, StopIsHalt, FaultIsOutside DEF DisconnectStop
<1>3. CASE ConnectOpen(t) \/ ConnectDone(t) \/ ConnectCleanup(t) \/ ConnectReset(t) \/ Probe(t)
  BY <1>1, <1>3 DEF ConnectOpen, ConnectDone, ConnectCleanup, ConnectReset, Probe, Outside,
      Goto, NextCommand, Target
<1>4. CASE DisconnectCheck(t) \/ DisconnectHardware(t) \/ DisconnectApply(t)
  BY <1>1, <1>4 DEF DisconnectCheck, DisconnectHardware, DisconnectApply, Outside, Goto,
      NextCommand, Target
<1>5. CASE RecoverCheck(t) \/ RecoverRequest(t) \/ RecoverRead(t)
  BY <1>1, <1>5 DEF RecoverCheck, RecoverRequest, RecoverRead, Outside, Goto, NextCommand,
      Target
<1> QED
  BY <1>2, <1>3, <1>4, <1>5 DEF SessionStep

\* The first state satisfies the invariant: no call has begun.
LEMMA SafetyInit == Init => SafetyInv
<1> SUFFICES ASSUME Init PROVE SafetyInv
  OBVIOUS
<1>1. TypeInv
  BY TypeInit
<1>2. \A c \in Commands : Untouched(c)
  BY DEF Init, ExecInit, Untouched
<1>3. /\ \A u \in Threads : pc[u] = "idle" /\ execLock # u
      /\ driver = "disconnected" /\ active = NoCommand /\ stopOutcome.id = NoCommand
  BY NoThreadAssumption DEF Init, ExecInit, NoStop
<1>4. Ownership /\ Identity /\ ExecutingInv
  BY <1>3 DEF Ownership, Identity, ExecutingInv, InCall, Undecided, OwnerLabels
<1>5. Freshness /\ ActiveInv
  BY <1>2, <1>3 DEF Freshness, ActiveInv, Running, Canceling, Failing
<1>6. GenerationInv /\ WritesInv
  BY <1>3 DEF GenerationInv, WritesInv, Running, Canceling
<1>7. StopInv
  BY <1>2, <1>3 DEF StopInv, OneStopPerCommand, Untouched
<1>8. ResultInv
  BY <1>2 DEF ResultInv, SuccessIsUninterrupted, CanceledMeansStopped, Untouched
<1> QED
  BY <1>1, <1>4, <1>5, <1>6, <1>7, <1>8 DEF SafetyInv

\* The invariant is preserved by every step.
LEMMA SafetyNext == SafetyInv /\ [Next]_vars => SafetyInv'
<1> SUFFICES ASSUME SafetyInv, [Next]_vars PROVE SafetyInv'
  OBVIOUS
<1>1. TypeInv /\ TypeInv'
  BY TypeNext DEF SafetyInv
<1>2. ASSUME NEW t \in Threads, Invoke(t) PROVE SafetyInv'
  BY <1>1, <1>2, InvokeIsOutside, SafetyOutside, SafetyInvokeExecute
<1>3. ASSUME NEW t \in Threads, Step(t) PROVE SafetyInv'
  <2>1. CASE ExecuteStep(t) /\ UNCHANGED sessionVars
    BY <1>1, <2>1, SafetyExecuteStep
  <2>2. CASE ControlStep(t)
    <3>1. {"idle", "cancel_check", "cancel_fault", "stop", "stop_check", "stop_fault"}
            \subseteq ControlLabels
      BY DEF ControlLabels, Labels, OwnerLabels
    <3>2. Halt(t) \/ Outside(t)
      BY <1>1, <2>2, <3>1, CancelIsHalt, StopIsHalt, FaultIsOutside DEF ControlStep
    <3> QED
      BY <1>1, <3>2, SafetyHalt, SafetyOutside
  <2>3. CASE SessionStep(t)
    BY <1>1, <2>3, SessionIsOutside, SafetyHalt, SafetyOutside
  <2> QED
    BY <1>3, <2>1, <2>2, <2>3 DEF Step
<1>4. CASE UNCHANGED vars
  <2>1. UNCHANGED <<execVars, locals, lanes, history>> /\ NextCommand' = NextCommand
    BY <1>4 DEF vars, execVars, NextCommand
  <2> QED
    BY <1>1, <2>1 DEF execVars, lanes, locals, history, SafetyInv, Ownership, Identity,
        Freshness, Untouched, ExecutingInv, ActiveInv, GenerationInv, WritesInv, StopInv,
        OneStopPerCommand, ResultInv, SuccessIsUninterrupted, CanceledMeansStopped
<1> QED
  BY <1>2, <1>3, <1>4 DEF Next, Quiet

(***************************************************************************)
(* The theorems                                                            *)
(***************************************************************************)

\* The invariant holds in every reachable state.
LEMMA SafetyHolds == Spec => []SafetyInv
BY SafetyInit, SafetyNext, PTL DEF Spec

\* The driver is EXECUTING only while a command that is not over owns the
\* execution lock, whoever cancels, stops, closes or recovers meanwhile.
THEOREM ExecutingIsOwned == Spec => []ExecutingHasOwner
<1>1. SafetyInv => ExecutingHasOwner
  BY DEF SafetyInv, ExecutingInv, Identity, ExecutingHasOwner, Running, Canceling, Failing,
      Undecided, InCall, OwnerLabels
<1> QED
  BY <1>1, SafetyHolds, PTL

\* A success is never reported for a command that was canceled or stopped, nor
\* before every waypoint was written.
THEOREM SuccessIsTrue == Spec => []SuccessIsUninterrupted
<1>1. SafetyInv => SuccessIsUninterrupted
  BY DEF SafetyInv, ResultInv
<1> QED
  BY <1>1, SafetyHolds, PTL

\* A command is reported canceled only after its cancellation was accepted and
\* a stop of it acknowledged.
THEOREM CancelIsTrue == Spec => []CanceledMeansStopped
<1>1. SafetyInv => CanceledMeansStopped
  BY DEF SafetyInv, ResultInv
<1> QED
  BY <1>1, SafetyHolds, PTL

\* However many calls stop a command, the hardware gets one stop.
THEOREM StopIsSentOnce == Spec => []OneStopPerCommand
<1>1. SafetyInv => OneStopPerCommand
  BY DEF SafetyInv, StopInv
<1> QED
  BY <1>1, SafetyHolds, PTL

\* Waypoints are written by the step that holds the lane, and by no other.
LEMMA OnlyWritePointWrites ==
    ASSUME TypeInv, [Next]_vars, writes' # writes
    PROVE  \E t \in Threads : WritePoint(t)
<1>1. ASSUME NEW t \in Threads, Invoke(t) PROVE writes' = writes
  BY <1>1 DEF Invoke, InvokeExecute, InvokeCancel, InvokeStop, InvokeRecover,
      InvokeConnect, InvokeClose, history
<1>2. ASSUME NEW t \in Threads, ExecuteStep(t), ~WritePoint(t) PROVE writes' = writes
  BY <1>2 DEF ExecuteStep, Acquire, Admit, Publish, Accept, WaitPoint, ReadBack, Finalize,
      CancelStop, CancelCheck, CancelApply, FailStop, FailCheck, FailApply, Finally, history
<1>3. ASSUME NEW t \in Threads, ControlStep(t) PROVE writes' = writes
  BY <1>3 DEF ControlStep, CancelNow, StopNow, StopFaultCheck, StopFault, history
<1>4. ASSUME NEW t \in Threads, SessionStep(t) PROVE writes' = writes
  BY <1>4, SessionIsOutside DEF Halt, Outside, history
<1>5. CASE UNCHANGED vars
  BY <1>5 DEF vars, execVars, history
<1> QED
  BY <1>1, <1>2, <1>3, <1>4, <1>5 DEF Next, Quiet, Step

\* A write is one of the published command, by the owner of the lock, and the
\* command was neither canceled nor stopped when the lane was taken.
LEMMA WriteIsSafe ==
    ASSUME SafetyInv, NEW t \in Threads, WritePoint(t), NEW c \in Commands,
           writes'[c] # writes[c]
    PROVE  c \notin canceled /\ stops[c] = 0 /\ active = c /\ execLock = t /\ cmd[t] = c
<1>1. pc[t] = "write" /\ cmd[t] = c /\ accepted[t] = generation
  <2>1. writes \in [Commands -> Nat]
    BY Typing DEF SafetyInv
  <2> QED
    BY <2>1 DEF WritePoint, IsCanceled
<1> QED
  BY <1>1 DEF SafetyInv, GenerationInv, ActiveInv, Ownership, Running, Canceling, OwnerLabels

\* No waypoint is written after the cancellation or the stop of its command.
THEOREM NothingAfterStop == Spec => NoWriteAfterStop
<1>1. ASSUME SafetyInv, [Next]_vars
      PROVE  \A c \in Commands :
                 writes'[c] # writes[c] => c \notin canceled /\ stops[c] = 0
  BY <1>1, OnlyWritePointWrites, WriteIsSafe DEF SafetyInv
<1> QED
  BY <1>1, SafetyHolds, PTL DEF Spec, NoWriteAfterStop

\* Only the published command moves the robot, by the owner of the lock.
THEOREM OneWriter == Spec => WritesAreExclusive
<1>1. ASSUME SafetyInv, [Next]_vars
      PROVE  \A c \in Commands :
                 writes'[c] # writes[c] =>
                     active = c /\ \E t \in Threads : execLock = t /\ cmd[t] = c
  BY <1>1, OnlyWritePointWrites, WriteIsSafe DEF SafetyInv
<1> QED
  BY <1>1, SafetyHolds, PTL DEF Spec, WritesAreExclusive

\* Only the failing steps of execute report a failure, and they leave the
\* driver outside IDLE and EXECUTING.
LEMMA FailureStep ==
    ASSUME TypeInv, [Next]_vars, NEW c \in Commands,
           outcome[c] = "none", outcome'[c] \in {"failed", "raised"}
    PROVE  driver' \notin {"idle", "executing"}
<1>1. ASSUME NEW t \in Threads, Invoke(t) PROVE outcome' = outcome
  BY <1>1 DEF Invoke, InvokeExecute, InvokeCancel, InvokeStop, InvokeRecover,
      InvokeConnect, InvokeClose, history
<1>2. ASSUME NEW t \in Threads, ControlStep(t) PROVE outcome' = outcome
  BY <1>2 DEF ControlStep, CancelNow, StopNow, StopFaultCheck, StopFault, history
<1>3. ASSUME NEW t \in Threads, SessionStep(t) PROVE outcome' = outcome
  BY <1>3, SessionIsOutside DEF Halt, Outside, history
<1>4. ASSUME NEW t \in Threads, ExecuteStep(t), ~FailCheck(t), ~FailApply(t)
      PROVE  outcome'[c] \notin {"failed", "raised"}
  <2>1. outcome \in [Commands -> Outcomes]
    BY Typing
  <2> QED
    BY <1>4, <2>1 DEF ExecuteStep, Acquire, Admit, Publish, Accept, WaitPoint, WritePoint,
        ReadBack, Finalize, CancelStop, CancelCheck, CancelApply, FailStop, Finally, Leave,
        Settle, history
<1>5. ASSUME NEW t \in Threads, FailCheck(t) PROVE driver' \notin {"idle", "executing"}
  BY <1>5 DEF FailCheck
<1>6. ASSUME NEW t \in Threads, FailApply(t) PROVE driver' \notin {"idle", "executing"}
  BY <1>6 DEF FailApply, Permits, Sources, Target
<1>7. CASE UNCHANGED vars
  BY <1>7 DEF vars, execVars, history
<1> QED
  BY <1>1, <1>2, <1>3, <1>4, <1>5, <1>6, <1>7 DEF Next, Quiet, Step

\* A command that fails does not leave the driver ready for the next one.
THEOREM FailureIsLatched == Spec => FailureLatches
<1>1. ASSUME SafetyInv, [Next]_vars
      PROVE  \A c \in Commands :
                 outcome[c] = "none" /\ outcome'[c] \in {"failed", "raised"} =>
                     driver' \notin {"idle", "executing"}
  BY <1>1, FailureStep DEF SafetyInv
<1> QED
  BY <1>1, SafetyHolds, PTL DEF Spec, FailureLatches

=============================================================================

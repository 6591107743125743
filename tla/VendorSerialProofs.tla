------------------------- MODULE VendorSerialProofs -------------------------
(***************************************************************************)
(* Proof that the serial adapter keeps its promises for every number of    *)
(* threads and calls and every choice of times: the lock, the deadlines,   *)
(* the port under a retried operation, the capability claims, and what a   *)
(* status shows although it takes no lock.                                 *)
(***************************************************************************)
EXTENDS VendorSerial, TLAPS

\* The steps that only one kind of call makes.
RightCall ==
    \A t \in Threads :
        /\ pc[t] \in {"open", "reset"} => call[t] = "connect"
        /\ pc[t] \in {"forget", "downgrade", "close"} => call[t] = "disconnect"
        /\ pc[t] \in {"look_state", "look_identity"} => call[t] = "status"

\* The port is the last one opened or none, and so is the identity.
PortsCounted == vendor \in {0, opened} /\ identity \in {0, opened}

\* A port is opened only when there is none.
PortOpening == \A t \in Threads : pc[t] = "open" => vendor = 0

\* Without a port there is neither an identity nor a promise, except between the
\* two steps of disconnect.
NothingStale ==
    vendor = 0 => \/ \E t \in Threads : pc[t] = "downgrade"
                  \/ identity = 0 /\ observed # "supported"

\* A stop is promised on the port that was probed, except between the two steps
\* of a probe and of disconnect.
Promise ==
    observed = "supported" =>
        /\ declared = "supported" /\ hasStop
        /\ \/ identity = vendor
           \/ \E t \in Threads : pc[t] \in {"identify", "downgrade"}

\* What a probe knows when it publishes.
Verified ==
    \A t \in Threads :
        pc[t] \in {"claims", "identify"} =>
            /\ declared = "supported" => hasStop
            /\ reply[t] >= 0

\* A status has seen ports that were opened, and no identity of an older one.
StatusKnown ==
    \A t \in Threads :
        /\ seen[t][1] <= opened
        /\ seen[t][3] # 0 => seen[t][3] >= seen[t][1]

VendorInv ==
    /\ TypeOK /\ LockReleased /\ RightCall
    /\ LockHeldBriefly /\ Verified /\ LateIsFailure
    /\ PortsCounted /\ PortOpening /\ NothingStale /\ Promise
    /\ PortKept /\ StatusKnown

\* The type invariant is inductive: retries are counted up to their limit, and a
\* sleep is the shorter of the delay and of a time that is left.
LEMMA TypeStep ==
    ASSUME TypeOK, NEW t \in Threads,
           Work(t) \/ \E c \in Calls : Invoke(t, c)
    PROVE  TypeOK'
<1>1. CASE \E c \in Calls : Invoke(t, c)
  BY <1>1, ThreadsAssumption, TimeAssumption, DeploymentAssumption DEF Invoke, Goto, FirstStep, TypeOK, Steps, Answers, Claims, Calls, adapter, world, locals
<1>2. CASE Return(t)
  BY <1>2, ThreadsAssumption, TimeAssumption, DeploymentAssumption DEF Return, Goto, TypeOK, Steps, Answers, Claims, Calls, adapter, world, locals
<1>3. CASE ReadClaim(t)
  BY <1>3, ThreadsAssumption, TimeAssumption, DeploymentAssumption, ZenonT(30) DEF ReadClaim, Finish, Goto, TypeOK, Steps, Answers, Claims, Calls, adapter, world, locals
<1>4. CASE Acquire(t)
  <2>1. pc' \in [Threads -> Steps]
    BY <1>4 DEF Acquire, Finish, Goto, TypeOK, Steps
  <2>2. lock' \in Threads \cup {NoThread}
    BY <1>4 DEF Acquire, Finish, Goto, TypeOK
  <2>3. answer' \in [Threads -> Answers]
    BY <1>4 DEF Acquire, Finish, Goto, TypeOK, Answers
  <2>4. tries' \in [Threads -> 0..MaxRetries]
    BY <1>4, TimeAssumption DEF Acquire, Finish, Goto, TypeOK
  <2>5. port' \in [Threads -> Nat]
    BY <1>4 DEF Acquire, Finish, Goto, TypeOK
  <2>6. probed' \in [Threads -> BOOLEAN]
    BY <1>4 DEF Acquire, Finish, Goto, TypeOK
  <2> QED
    BY <1>4, <2>1, <2>2, <2>3, <2>4, <2>5, <2>6 DEF Acquire, TypeOK, adapter, world, locals
<1>5. CASE Attempt(t)
  <2>1. pc' \in [Threads -> Steps]
    <3>1. \E step \in Steps : pc' = [pc EXCEPT ![t] = step]
      BY <1>5, SMTT(30) DEF Attempt, Finish, Goto, Steps
    <3> QED
      BY <3>1 DEF TypeOK
  <2>2. lock' \in Threads \cup {NoThread}
    BY <1>5 DEF Attempt, Finish, Goto, TypeOK
  <2>3. answer' \in [Threads -> Answers]
    BY <1>5 DEF Attempt, Finish, Goto, TypeOK, Answers
  <2>4. wait' \in [Threads -> Nat]
    BY <1>5, TimeAssumption DEF Attempt, Finish, Goto, TypeOK
  <2> QED
    BY <1>5, <2>1, <2>2, <2>3, <2>4 DEF Attempt, TypeOK, adapter, world, locals
<1>6. CASE Reply(t)
  <2>1. pc' \in [Threads -> Steps]
    BY <1>6 DEF Reply, Accepted, Finish, Goto, TypeOK, Steps
  <2>2. lock' \in Threads \cup {NoThread}
    BY <1>6 DEF Reply, Accepted, Finish, Goto, TypeOK
  <2>3. answer' \in [Threads -> Answers]
    BY <1>6 DEF Reply, Accepted, Finish, Goto, TypeOK, Answers
  <2>4. tries' \in [Threads -> 0..MaxRetries]
    BY <1>6, TimeAssumption DEF Reply, Accepted, Finish, Goto, TypeOK
  <2>5. probed' \in [Threads -> BOOLEAN]
    BY <1>6 DEF Reply, Accepted, Finish, Goto, TypeOK
  <2>6. reply' \in [Threads -> Int]
    BY <1>6 DEF Reply, Accepted, Finish, Goto, TypeOK
  <2> QED
    BY <1>6, <2>1, <2>2, <2>3, <2>4, <2>5, <2>6 DEF Reply, TypeOK, adapter, world, locals
<1>7. CASE Fail(t)
  <2>1. pc' \in [Threads -> Steps]
    BY <1>7 DEF Fail, Retry, Finish, Goto, TypeOK, Steps
  <2>2. lock' \in Threads \cup {NoThread}
    BY <1>7 DEF Fail, Retry, Finish, Goto, TypeOK
  <2>3. answer' \in [Threads -> Answers]
    BY <1>7 DEF Fail, Retry, Finish, Goto, TypeOK, Answers
  <2>4. tries' \in [Threads -> 0..MaxRetries]
    <3>1. tries \in [Threads -> 0..MaxRetries] /\ tries[t] \in 0..MaxRetries
      BY DEF TypeOK
    <3>2. CASE tries[t] = MaxRetries
      BY <1>7, <3>1, <3>2 DEF Fail, Retry
    <3>3. CASE tries[t] # MaxRetries
      <4>1. tries[t] + 1 \in 0..MaxRetries
        BY <3>1, <3>3, TimeAssumption
      <4> QED
        BY <1>7, <3>1, <3>3, <4>1 DEF Fail, Retry
    <3> QED
      BY <3>2, <3>3
  <2>5. wait' \in [Threads -> Nat]
    BY <1>7, TimeAssumption DEF Fail, Retry, Finish, Goto, TypeOK
  <2> QED
    BY <1>7, <2>1, <2>2, <2>3, <2>4, <2>5 DEF Fail, TypeOK, adapter, world, locals
<1>8. CASE Wake(t)
  BY <1>8, ThreadsAssumption, TimeAssumption, DeploymentAssumption DEF Wake, Goto, TypeOK, Steps, Answers, Claims, Calls, adapter, world, locals
<1>9. CASE Open(t)
  <2>1. pc' \in [Threads -> Steps]
    BY <1>9 DEF Open, Finish, Goto, TypeOK, Steps
  <2>2. lock' \in Threads \cup {NoThread}
    BY <1>9 DEF Open, Finish, Goto, TypeOK
  <2>3. answer' \in [Threads -> Answers]
    BY <1>9 DEF Open, Finish, Goto, TypeOK, Answers
  <2>4. vendor' \in Nat /\ opened' \in Nat
    BY <1>9 DEF Open, Finish, Goto, TypeOK
  <2> QED
    BY <1>9, <2>1, <2>2, <2>3, <2>4 DEF Open, TypeOK, adapter, world, locals
<1>10. CASE Reset(t)
  BY <1>10, ThreadsAssumption, TimeAssumption, DeploymentAssumption DEF Reset, Finish, PreProbe, Goto, TypeOK, Steps, Answers, Claims, Calls, adapter, world, locals
<1>11. CASE PublishClaims(t)
  BY <1>11, ThreadsAssumption, TimeAssumption, DeploymentAssumption DEF PublishClaims, Goto, TypeOK, Steps, Answers, Claims, Calls, adapter, world, locals
<1>12. CASE PublishIdentity(t)
  BY <1>12, ThreadsAssumption, TimeAssumption, DeploymentAssumption DEF PublishIdentity, Finish, Goto, TypeOK, Steps, Answers, Claims, Calls, adapter, world, locals
<1>13. CASE ForgetPort(t)
  BY <1>13, ThreadsAssumption, TimeAssumption, DeploymentAssumption DEF ForgetPort, Goto, TypeOK, Steps, Answers, Claims, Calls, adapter, world, locals
<1>14. CASE Downgrade(t)
  BY <1>14, ThreadsAssumption, TimeAssumption, DeploymentAssumption DEF Downgrade, PreProbe, Goto, TypeOK, Steps, Answers, Claims, Calls, adapter, world, locals
<1>15. CASE Close(t)
  BY <1>15, ThreadsAssumption, TimeAssumption, DeploymentAssumption DEF Close, Finish, Goto, TypeOK, Steps, Answers, Claims, Calls, adapter, world, locals
<1>16. CASE LookState(t)
  BY <1>16, ThreadsAssumption, TimeAssumption, DeploymentAssumption DEF LookState, Goto, TypeOK, Steps, Answers, Claims, Calls, adapter, world, locals
<1>17. CASE LookIdentity(t)
  BY <1>17, ThreadsAssumption, TimeAssumption, DeploymentAssumption DEF LookIdentity, Finish, Goto, TypeOK, Steps, Answers, Claims, Calls, adapter, world, locals
<1> QED
  BY <1>1, <1>2, <1>3, <1>4, <1>5, <1>6, <1>7, <1>8, <1>9, <1>10, <1>11, <1>12, <1>13, <1>14, <1>15, <1>16, <1>17 DEF Work

\* The lock is taken in Acquire and given back in Finish, nowhere else.
LEMMA LockStep ==
    ASSUME TypeOK, LockReleased, NEW t \in Threads,
           Work(t) \/ \E c \in Calls : Invoke(t, c)
    PROVE  LockReleased'
<1>1. CASE \E c \in Calls : Invoke(t, c)
  BY <1>1, ThreadsAssumption DEF Invoke, Goto, FirstStep, TypeOK, LockReleased, Holding, adapter, world, locals
<1>2. CASE Return(t)
  BY <1>2, ThreadsAssumption DEF Return, Goto, TypeOK, LockReleased, Holding, adapter, world, locals
<1>3. CASE ReadClaim(t)
  BY <1>3, ThreadsAssumption, SMTT(30) DEF ReadClaim, Finish, Goto, TypeOK, LockReleased, Holding, adapter, world, locals
<1>4. CASE Acquire(t)
  BY <1>4, ThreadsAssumption, SMTT(30) DEF Acquire, Finish, Goto, TypeOK, LockReleased, Holding, adapter, world, locals
<1>5. CASE Attempt(t)
  BY <1>5, ThreadsAssumption DEF Attempt, Finish, Goto, TypeOK, LockReleased, Holding, adapter, world, locals
<1>6. CASE Reply(t)
  BY <1>6, ThreadsAssumption DEF Reply, Finish, Accepted, Goto, TypeOK, LockReleased, Holding, adapter, world, locals
<1>7. CASE Fail(t)
  BY <1>7, ThreadsAssumption DEF Fail, Finish, Retry, Goto, TypeOK, LockReleased, Holding, adapter, world, locals
<1>8. CASE Wake(t)
  BY <1>8, ThreadsAssumption DEF Wake, Goto, TypeOK, LockReleased, Holding, adapter, world, locals
<1>9. CASE Open(t)
  BY <1>9, ThreadsAssumption DEF Open, Finish, Goto, TypeOK, LockReleased, Holding, adapter, world, locals
<1>10. CASE Reset(t)
  BY <1>10, ThreadsAssumption DEF Reset, Finish, PreProbe, Goto, TypeOK, LockReleased, Holding, adapter, world, locals
<1>11. CASE PublishClaims(t)
  BY <1>11, ThreadsAssumption DEF PublishClaims, Goto, TypeOK, LockReleased, Holding, adapter, world, locals
<1>12. CASE PublishIdentity(t)
  BY <1>12, ThreadsAssumption DEF PublishIdentity, Finish, Goto, TypeOK, LockReleased, Holding, adapter, world, locals
<1>13. CASE ForgetPort(t)
  BY <1>13, ThreadsAssumption DEF ForgetPort, Goto, TypeOK, LockReleased, Holding, adapter, world, locals
<1>14. CASE Downgrade(t)
  BY <1>14, ThreadsAssumption DEF Downgrade, PreProbe, Goto, TypeOK, LockReleased, Holding, adapter, world, locals
<1>15. CASE Close(t)
  BY <1>15, ThreadsAssumption DEF Close, Finish, Goto, TypeOK, LockReleased, Holding, adapter, world, locals
<1>16. CASE LookState(t)
  BY <1>16, ThreadsAssumption DEF LookState, Goto, TypeOK, LockReleased, Holding, adapter, world, locals
<1>17. CASE LookIdentity(t)
  BY <1>17, ThreadsAssumption DEF LookIdentity, Finish, Goto, TypeOK, LockReleased, Holding, adapter, world, locals
<1> QED
  BY <1>1, <1>2, <1>3, <1>4, <1>5, <1>6, <1>7, <1>8, <1>9, <1>10, <1>11, <1>12, <1>13, <1>14, <1>15, <1>16, <1>17 DEF Work

\* The steps of one kind of call lead to steps of the same kind.
LEMMA CallStep ==
    ASSUME TypeOK, RightCall, NEW t \in Threads,
           Work(t) \/ \E c \in Calls : Invoke(t, c)
    PROVE  RightCall'
<1>1. CASE \E c \in Calls : Invoke(t, c)
  BY <1>1 DEF Invoke, Goto, FirstStep, TypeOK, RightCall, adapter, world, locals
<1>2. CASE Return(t)
  BY <1>2 DEF Return, Goto, TypeOK, RightCall, adapter, world, locals
<1>3. CASE ReadClaim(t)
  BY <1>3 DEF ReadClaim, Finish, Goto, TypeOK, RightCall, adapter, world, locals
<1>4. CASE Acquire(t)
  BY <1>4 DEF Acquire, Finish, Goto, TypeOK, RightCall, adapter, world, locals
<1>5. CASE Attempt(t)
  BY <1>5 DEF Attempt, Finish, Goto, TypeOK, RightCall, adapter, world, locals
<1>6. CASE Reply(t)
  BY <1>6 DEF Reply, Finish, Accepted, Goto, TypeOK, RightCall, adapter, world, locals
<1>7. CASE Fail(t)
  BY <1>7 DEF Fail, Finish, Retry, Goto, TypeOK, RightCall, adapter, world, locals
<1>8. CASE Wake(t)
  BY <1>8 DEF Wake, Goto, TypeOK, RightCall, adapter, world, locals
<1>9. CASE Open(t)
  BY <1>9 DEF Open, Finish, Goto, TypeOK, RightCall, adapter, world, locals
<1>10. CASE Reset(t)
  BY <1>10 DEF Reset, Finish, PreProbe, Goto, TypeOK, RightCall, adapter, world, locals
<1>11. CASE PublishClaims(t)
  BY <1>11 DEF PublishClaims, Goto, TypeOK, RightCall, adapter, world, locals
<1>12. CASE PublishIdentity(t)
  BY <1>12 DEF PublishIdentity, Finish, Goto, TypeOK, RightCall, adapter, world, locals
<1>13. CASE ForgetPort(t)
  BY <1>13 DEF ForgetPort, Goto, TypeOK, RightCall, adapter, world, locals
<1>14. CASE Downgrade(t)
  BY <1>14 DEF Downgrade, PreProbe, Goto, TypeOK, RightCall, adapter, world, locals
<1>15. CASE Close(t)
  BY <1>15 DEF Close, Finish, Goto, TypeOK, RightCall, adapter, world, locals
<1>16. CASE LookState(t)
  BY <1>16 DEF LookState, Goto, TypeOK, RightCall, adapter, world, locals
<1>17. CASE LookIdentity(t)
  BY <1>17 DEF LookIdentity, Finish, Goto, TypeOK, RightCall, adapter, world, locals
<1> QED
  BY <1>1, <1>2, <1>3, <1>4, <1>5, <1>6, <1>7, <1>8, <1>9, <1>10, <1>11, <1>12, <1>13, <1>14, <1>15, <1>16, <1>17 DEF Work

\* No attempt begins after the deadline, and no sleep outlasts it.
LEMMA BrieflyStep ==
    ASSUME TypeOK, LockHeldBriefly, NEW t \in Threads,
           Work(t) \/ \E c \in Calls : Invoke(t, c)
    PROVE  LockHeldBriefly'
<1>1. CASE \E c \in Calls : Invoke(t, c)
  BY <1>1, TimeAssumption DEF Invoke, Goto, FirstStep, TypeOK, LockHeldBriefly, adapter, world, locals
<1>2. CASE Return(t)
  BY <1>2, TimeAssumption DEF Return, Goto, TypeOK, LockHeldBriefly, adapter, world, locals
<1>3. CASE ReadClaim(t)
  BY <1>3, TimeAssumption DEF ReadClaim, Finish, Goto, TypeOK, LockHeldBriefly, adapter, world, locals
<1>4. CASE Acquire(t)
  BY <1>4, TimeAssumption DEF Acquire, Finish, Goto, TypeOK, LockHeldBriefly, adapter, world, locals
<1>5. CASE Attempt(t)
  BY <1>5, TimeAssumption DEF Attempt, Finish, Goto, TypeOK, LockHeldBriefly, adapter, world, locals
<1>6. CASE Reply(t)
  BY <1>6, TimeAssumption DEF Reply, Finish, Accepted, Goto, TypeOK, LockHeldBriefly, adapter, world, locals
<1>7. CASE Fail(t)
  BY <1>7, TimeAssumption DEF Fail, Finish, Retry, Goto, TypeOK, LockHeldBriefly, adapter, world, locals
<1>8. CASE Wake(t)
  BY <1>8, TimeAssumption DEF Wake, Goto, TypeOK, LockHeldBriefly, adapter, world, locals
<1>9. CASE Open(t)
  BY <1>9, TimeAssumption DEF Open, Finish, Goto, TypeOK, LockHeldBriefly, adapter, world, locals
<1>10. CASE Reset(t)
  BY <1>10, TimeAssumption DEF Reset, Finish, PreProbe, Goto, TypeOK, LockHeldBriefly, adapter, world, locals
<1>11. CASE PublishClaims(t)
  BY <1>11, TimeAssumption DEF PublishClaims, Goto, TypeOK, LockHeldBriefly, adapter, world, locals
<1>12. CASE PublishIdentity(t)
  BY <1>12, TimeAssumption DEF PublishIdentity, Finish, Goto, TypeOK, LockHeldBriefly, adapter, world, locals
<1>13. CASE ForgetPort(t)
  BY <1>13, TimeAssumption DEF ForgetPort, Goto, TypeOK, LockHeldBriefly, adapter, world, locals
<1>14. CASE Downgrade(t)
  BY <1>14, TimeAssumption DEF Downgrade, PreProbe, Goto, TypeOK, LockHeldBriefly, adapter, world, locals
<1>15. CASE Close(t)
  BY <1>15, TimeAssumption DEF Close, Finish, Goto, TypeOK, LockHeldBriefly, adapter, world, locals
<1>16. CASE LookState(t)
  BY <1>16, TimeAssumption DEF LookState, Goto, TypeOK, LockHeldBriefly, adapter, world, locals
<1>17. CASE LookIdentity(t)
  BY <1>17, TimeAssumption DEF LookIdentity, Finish, Goto, TypeOK, LockHeldBriefly, adapter, world, locals
<1> QED
  BY <1>1, <1>2, <1>3, <1>4, <1>5, <1>6, <1>7, <1>8, <1>9, <1>10, <1>11, <1>12, <1>13, <1>14, <1>15, <1>16, <1>17 DEF Work

\* A probe gets to its end only by replies in time and with the method it claims.
LEMMA VerifiedStep ==
    ASSUME TypeOK, Verified, NEW t \in Threads,
           Work(t) \/ \E c \in Calls : Invoke(t, c)
    PROVE  Verified'
<1>1. CASE \E c \in Calls : Invoke(t, c)
  BY <1>1 DEF Invoke, Goto, FirstStep, TypeOK, Verified, adapter, world, locals
<1>2. CASE Return(t)
  BY <1>2 DEF Return, Goto, TypeOK, Verified, adapter, world, locals
<1>3. CASE ReadClaim(t)
  BY <1>3 DEF ReadClaim, Finish, Goto, TypeOK, Verified, adapter, world, locals
<1>4. CASE Acquire(t)
  BY <1>4 DEF Acquire, Finish, Goto, TypeOK, Verified, adapter, world, locals
<1>5. CASE Attempt(t)
  BY <1>5 DEF Attempt, Finish, Goto, TypeOK, Verified, adapter, world, locals
<1>6. CASE Reply(t)
  BY <1>6 DEF Reply, Finish, Accepted, Goto, TypeOK, Verified, adapter, world, locals
<1>7. CASE Fail(t)
  BY <1>7 DEF Fail, Finish, Retry, Goto, TypeOK, Verified, adapter, world, locals
<1>8. CASE Wake(t)
  BY <1>8 DEF Wake, Goto, TypeOK, Verified, adapter, world, locals
<1>9. CASE Open(t)
  BY <1>9 DEF Open, Finish, Goto, TypeOK, Verified, adapter, world, locals
<1>10. CASE Reset(t)
  BY <1>10 DEF Reset, Finish, PreProbe, Goto, TypeOK, Verified, adapter, world, locals
<1>11. CASE PublishClaims(t)
  BY <1>11 DEF PublishClaims, Goto, TypeOK, Verified, adapter, world, locals
<1>12. CASE PublishIdentity(t)
  BY <1>12 DEF PublishIdentity, Finish, Goto, TypeOK, Verified, adapter, world, locals
<1>13. CASE ForgetPort(t)
  BY <1>13 DEF ForgetPort, Goto, TypeOK, Verified, adapter, world, locals
<1>14. CASE Downgrade(t)
  BY <1>14 DEF Downgrade, PreProbe, Goto, TypeOK, Verified, adapter, world, locals
<1>15. CASE Close(t)
  BY <1>15 DEF Close, Finish, Goto, TypeOK, Verified, adapter, world, locals
<1>16. CASE LookState(t)
  BY <1>16 DEF LookState, Goto, TypeOK, Verified, adapter, world, locals
<1>17. CASE LookIdentity(t)
  BY <1>17 DEF LookIdentity, Finish, Goto, TypeOK, Verified, adapter, world, locals
<1> QED
  BY <1>1, <1>2, <1>3, <1>4, <1>5, <1>6, <1>7, <1>8, <1>9, <1>10, <1>11, <1>12, <1>13, <1>14, <1>15, <1>16, <1>17 DEF Work

\* A success of an operation comes from a reply in time.
LEMMA LateStep ==
    ASSUME TypeOK, RightCall, Verified, LateIsFailure, NEW t \in Threads,
           Work(t) \/ \E c \in Calls : Invoke(t, c)
    PROVE  LateIsFailure'
<1>1. CASE \E c \in Calls : Invoke(t, c)
  BY <1>1 DEF Invoke, Goto, FirstStep, TypeOK, RightCall, Verified, LateIsFailure, Operations, adapter, world, locals
<1>2. CASE Return(t)
  BY <1>2 DEF Return, Goto, TypeOK, RightCall, Verified, LateIsFailure, Operations, adapter, world, locals
<1>3. CASE ReadClaim(t)
  BY <1>3 DEF ReadClaim, Finish, Goto, TypeOK, RightCall, Verified, LateIsFailure, Operations, adapter, world, locals
<1>4. CASE Acquire(t)
  BY <1>4 DEF Acquire, Finish, Goto, TypeOK, RightCall, Verified, LateIsFailure, Operations, adapter, world, locals
<1>5. CASE Attempt(t)
  BY <1>5 DEF Attempt, Finish, Goto, TypeOK, RightCall, Verified, LateIsFailure, Operations, adapter, world, locals
<1>6. CASE Reply(t)
  BY <1>6 DEF Reply, Finish, Accepted, Goto, TypeOK, RightCall, Verified, LateIsFailure, Operations, adapter, world, locals
<1>7. CASE Fail(t)
  BY <1>7 DEF Fail, Finish, Retry, Goto, TypeOK, RightCall, Verified, LateIsFailure, Operations, adapter, world, locals
<1>8. CASE Wake(t)
  BY <1>8 DEF Wake, Goto, TypeOK, RightCall, Verified, LateIsFailure, Operations, adapter, world, locals
<1>9. CASE Open(t)
  BY <1>9 DEF Open, Finish, Goto, TypeOK, RightCall, Verified, LateIsFailure, Operations, adapter, world, locals
<1>10. CASE Reset(t)
  BY <1>10 DEF Reset, Finish, PreProbe, Goto, TypeOK, RightCall, Verified, LateIsFailure, Operations, adapter, world, locals
<1>11. CASE PublishClaims(t)
  BY <1>11 DEF PublishClaims, Goto, TypeOK, RightCall, Verified, LateIsFailure, Operations, adapter, world, locals
<1>12. CASE PublishIdentity(t)
  BY <1>12 DEF PublishIdentity, Finish, Goto, TypeOK, RightCall, Verified, LateIsFailure, Operations, adapter, world, locals
<1>13. CASE ForgetPort(t)
  BY <1>13 DEF ForgetPort, Goto, TypeOK, RightCall, Verified, LateIsFailure, Operations, adapter, world, locals
<1>14. CASE Downgrade(t)
  BY <1>14 DEF Downgrade, PreProbe, Goto, TypeOK, RightCall, Verified, LateIsFailure, Operations, adapter, world, locals
<1>15. CASE Close(t)
  BY <1>15 DEF Close, Finish, Goto, TypeOK, RightCall, Verified, LateIsFailure, Operations, adapter, world, locals
<1>16. CASE LookState(t)
  BY <1>16 DEF LookState, Goto, TypeOK, RightCall, Verified, LateIsFailure, Operations, adapter, world, locals
<1>17. CASE LookIdentity(t)
  BY <1>17 DEF LookIdentity, Finish, Goto, TypeOK, RightCall, Verified, LateIsFailure, Operations, adapter, world, locals
<1> QED
  BY <1>1, <1>2, <1>3, <1>4, <1>5, <1>6, <1>7, <1>8, <1>9, <1>10, <1>11, <1>12, <1>13, <1>14, <1>15, <1>16, <1>17 DEF Work

\* The vendor changes under the lock only.
LEMMA OpeningStep ==
    ASSUME TypeOK, LockReleased, PortOpening, NEW t \in Threads,
           Work(t) \/ \E c \in Calls : Invoke(t, c)
    PROVE  PortOpening'
<1>1. CASE \E c \in Calls : Invoke(t, c)
  BY <1>1 DEF Invoke, Goto, FirstStep, TypeOK, LockReleased, Holding, PortOpening, adapter, world, locals
<1>2. CASE Return(t)
  BY <1>2 DEF Return, Goto, TypeOK, LockReleased, Holding, PortOpening, adapter, world, locals
<1>3. CASE ReadClaim(t)
  BY <1>3 DEF ReadClaim, Finish, Goto, TypeOK, LockReleased, Holding, PortOpening, adapter, world, locals
<1>4. CASE Acquire(t)
  BY <1>4 DEF Acquire, Finish, Goto, TypeOK, LockReleased, Holding, PortOpening, adapter, world, locals
<1>5. CASE Attempt(t)
  BY <1>5 DEF Attempt, Finish, Goto, TypeOK, LockReleased, Holding, PortOpening, adapter, world, locals
<1>6. CASE Reply(t)
  BY <1>6 DEF Reply, Finish, Accepted, Goto, TypeOK, LockReleased, Holding, PortOpening, adapter, world, locals
<1>7. CASE Fail(t)
  BY <1>7 DEF Fail, Finish, Retry, Goto, TypeOK, LockReleased, Holding, PortOpening, adapter, world, locals
<1>8. CASE Wake(t)
  BY <1>8 DEF Wake, Goto, TypeOK, LockReleased, Holding, PortOpening, adapter, world, locals
<1>9. CASE Open(t)
  BY <1>9 DEF Open, Finish, Goto, TypeOK, LockReleased, Holding, PortOpening, adapter, world, locals
<1>10. CASE Reset(t)
  BY <1>10 DEF Reset, Finish, PreProbe, Goto, TypeOK, LockReleased, Holding, PortOpening, adapter, world, locals
<1>11. CASE PublishClaims(t)
  BY <1>11 DEF PublishClaims, Goto, TypeOK, LockReleased, Holding, PortOpening, adapter, world, locals
<1>12. CASE PublishIdentity(t)
  BY <1>12 DEF PublishIdentity, Finish, Goto, TypeOK, LockReleased, Holding, PortOpening, adapter, world, locals
<1>13. CASE ForgetPort(t)
  BY <1>13 DEF ForgetPort, Goto, TypeOK, LockReleased, Holding, PortOpening, adapter, world, locals
<1>14. CASE Downgrade(t)
  BY <1>14 DEF Downgrade, PreProbe, Goto, TypeOK, LockReleased, Holding, PortOpening, adapter, world, locals
<1>15. CASE Close(t)
  BY <1>15 DEF Close, Finish, Goto, TypeOK, LockReleased, Holding, PortOpening, adapter, world, locals
<1>16. CASE LookState(t)
  BY <1>16 DEF LookState, Goto, TypeOK, LockReleased, Holding, PortOpening, adapter, world, locals
<1>17. CASE LookIdentity(t)
  BY <1>17 DEF LookIdentity, Finish, Goto, TypeOK, LockReleased, Holding, PortOpening, adapter, world, locals
<1> QED
  BY <1>1, <1>2, <1>3, <1>4, <1>5, <1>6, <1>7, <1>8, <1>9, <1>10, <1>11, <1>12, <1>13, <1>14, <1>15, <1>16, <1>17 DEF Work

\* Disconnect forgets what it no longer has a port for.
LEMMA StaleStep ==
    ASSUME TypeOK, LockReleased, PortKept, NothingStale, NEW t \in Threads,
           Work(t) \/ \E c \in Calls : Invoke(t, c)
    PROVE  NothingStale'
<1>1. CASE \E c \in Calls : Invoke(t, c)
  BY <1>1 DEF Invoke, Goto, FirstStep, TypeOK, LockReleased, Holding, NothingStale, adapter, world, locals
<1>2. CASE Return(t)
  BY <1>2 DEF Return, Goto, TypeOK, LockReleased, Holding, NothingStale, adapter, world, locals
<1>3. CASE ReadClaim(t)
  BY <1>3 DEF ReadClaim, Finish, Goto, TypeOK, LockReleased, Holding, NothingStale, adapter, world, locals
<1>4. CASE Acquire(t)
  BY <1>4 DEF Acquire, Finish, Goto, TypeOK, LockReleased, Holding, NothingStale, adapter, world, locals
<1>5. CASE Attempt(t)
  BY <1>5 DEF Attempt, Finish, Goto, TypeOK, LockReleased, Holding, NothingStale, adapter, world, locals
<1>6. CASE Reply(t)
  BY <1>6 DEF Reply, Finish, Accepted, Goto, TypeOK, LockReleased, Holding, NothingStale, adapter, world, locals
<1>7. CASE Fail(t)
  BY <1>7 DEF Fail, Finish, Retry, Goto, TypeOK, LockReleased, Holding, NothingStale, adapter, world, locals
<1>8. CASE Wake(t)
  BY <1>8 DEF Wake, Goto, TypeOK, LockReleased, Holding, NothingStale, adapter, world, locals
<1>9. CASE Open(t)
  BY <1>9 DEF Open, Finish, Goto, TypeOK, LockReleased, Holding, NothingStale, adapter, world, locals
<1>10. CASE Reset(t)
  BY <1>10 DEF Reset, Finish, PreProbe, Goto, TypeOK, LockReleased, Holding, NothingStale, adapter, world, locals
<1>11. CASE PublishClaims(t)
  BY <1>11 DEF PublishClaims, PortKept, Talking, NothingStale, Goto, TypeOK, adapter, world, locals
<1>12. CASE PublishIdentity(t)
  BY <1>12 DEF PublishIdentity, Finish, Goto, TypeOK, LockReleased, Holding, NothingStale, adapter, world, locals
<1>13. CASE ForgetPort(t)
  BY <1>13 DEF ForgetPort, Goto, TypeOK, LockReleased, Holding, NothingStale, adapter, world, locals
<1>14. CASE Downgrade(t)
  BY <1>14 DEF Downgrade, PreProbe, Goto, TypeOK, LockReleased, Holding, NothingStale, adapter, world, locals
<1>15. CASE Close(t)
  BY <1>15 DEF Close, Finish, Goto, TypeOK, LockReleased, Holding, NothingStale, adapter, world, locals
<1>16. CASE LookState(t)
  BY <1>16 DEF LookState, Goto, TypeOK, LockReleased, Holding, NothingStale, adapter, world, locals
<1>17. CASE LookIdentity(t)
  BY <1>17 DEF LookIdentity, Finish, Goto, TypeOK, LockReleased, Holding, NothingStale, adapter, world, locals
<1> QED
  BY <1>1, <1>2, <1>3, <1>4, <1>5, <1>6, <1>7, <1>8, <1>9, <1>10, <1>11, <1>12, <1>13, <1>14, <1>15, <1>16, <1>17 DEF Work

\* A new port is numbered when neither port nor identity is left of the last.
LEMMA CountStep ==
    ASSUME TypeOK, LockReleased, PortsCounted, PortOpening, NothingStale, NEW t \in Threads,
           Work(t) \/ \E c \in Calls : Invoke(t, c)
    PROVE  PortsCounted'
<1>1. CASE \E c \in Calls : Invoke(t, c)
  BY <1>1 DEF Invoke, Goto, FirstStep, TypeOK, LockReleased, Holding, PortsCounted, PortOpening, NothingStale, adapter, world, locals
<1>2. CASE Return(t)
  BY <1>2 DEF Return, Goto, TypeOK, LockReleased, Holding, PortsCounted, PortOpening, NothingStale, adapter, world, locals
<1>3. CASE ReadClaim(t)
  BY <1>3 DEF ReadClaim, Finish, Goto, TypeOK, LockReleased, Holding, PortsCounted, PortOpening, NothingStale, adapter, world, locals
<1>4. CASE Acquire(t)
  BY <1>4 DEF Acquire, Finish, Goto, TypeOK, LockReleased, Holding, PortsCounted, PortOpening, NothingStale, adapter, world, locals
<1>5. CASE Attempt(t)
  BY <1>5 DEF Attempt, Finish, Goto, TypeOK, LockReleased, Holding, PortsCounted, PortOpening, NothingStale, adapter, world, locals
<1>6. CASE Reply(t)
  BY <1>6 DEF Reply, Finish, Accepted, Goto, TypeOK, LockReleased, Holding, PortsCounted, PortOpening, NothingStale, adapter, world, locals
<1>7. CASE Fail(t)
  BY <1>7 DEF Fail, Finish, Retry, Goto, TypeOK, LockReleased, Holding, PortsCounted, PortOpening, NothingStale, adapter, world, locals
<1>8. CASE Wake(t)
  BY <1>8 DEF Wake, Goto, TypeOK, LockReleased, Holding, PortsCounted, PortOpening, NothingStale, adapter, world, locals
<1>9. CASE Open(t)
  BY <1>9 DEF Open, Finish, Goto, TypeOK, LockReleased, Holding, PortsCounted, PortOpening, NothingStale, adapter, world, locals
<1>10. CASE Reset(t)
  BY <1>10 DEF Reset, Finish, PreProbe, Goto, TypeOK, LockReleased, Holding, PortsCounted, PortOpening, NothingStale, adapter, world, locals
<1>11. CASE PublishClaims(t)
  BY <1>11 DEF PublishClaims, Goto, TypeOK, LockReleased, Holding, PortsCounted, PortOpening, NothingStale, adapter, world, locals
<1>12. CASE PublishIdentity(t)
  BY <1>12 DEF PublishIdentity, Finish, Goto, TypeOK, LockReleased, Holding, PortsCounted, PortOpening, NothingStale, adapter, world, locals
<1>13. CASE ForgetPort(t)
  BY <1>13 DEF ForgetPort, Goto, TypeOK, LockReleased, Holding, PortsCounted, PortOpening, NothingStale, adapter, world, locals
<1>14. CASE Downgrade(t)
  BY <1>14 DEF Downgrade, PreProbe, Goto, TypeOK, LockReleased, Holding, PortsCounted, PortOpening, NothingStale, adapter, world, locals
<1>15. CASE Close(t)
  BY <1>15 DEF Close, Finish, Goto, TypeOK, LockReleased, Holding, PortsCounted, PortOpening, NothingStale, adapter, world, locals
<1>16. CASE LookState(t)
  BY <1>16 DEF LookState, Goto, TypeOK, LockReleased, Holding, PortsCounted, PortOpening, NothingStale, adapter, world, locals
<1>17. CASE LookIdentity(t)
  BY <1>17 DEF LookIdentity, Finish, Goto, TypeOK, LockReleased, Holding, PortsCounted, PortOpening, NothingStale, adapter, world, locals
<1> QED
  BY <1>1, <1>2, <1>3, <1>4, <1>5, <1>6, <1>7, <1>8, <1>9, <1>10, <1>11, <1>12, <1>13, <1>14, <1>15, <1>16, <1>17 DEF Work

\* A promise is published by a probe and ends with the port.
LEMMA PromiseStep ==
    ASSUME TypeOK, LockReleased, PortOpening, NothingStale, Verified, Promise, NEW t \in Threads,
           Work(t) \/ \E c \in Calls : Invoke(t, c)
    PROVE  Promise'
<1>1. CASE \E c \in Calls : Invoke(t, c)
  BY <1>1 DEF Invoke, Goto, FirstStep, TypeOK, LockReleased, Holding, PortOpening, NothingStale, Verified, Promise, adapter, world, locals
<1>2. CASE Return(t)
  BY <1>2 DEF Return, Goto, TypeOK, LockReleased, Holding, PortOpening, NothingStale, Verified, Promise, adapter, world, locals
<1>3. CASE ReadClaim(t)
  BY <1>3 DEF ReadClaim, Finish, Goto, TypeOK, LockReleased, Holding, PortOpening, NothingStale, Verified, Promise, adapter, world, locals
<1>4. CASE Acquire(t)
  BY <1>4 DEF Acquire, Finish, Goto, TypeOK, LockReleased, Holding, PortOpening, NothingStale, Verified, Promise, adapter, world, locals
<1>5. CASE Attempt(t)
  BY <1>5 DEF Attempt, Finish, Goto, TypeOK, LockReleased, Holding, PortOpening, NothingStale, Verified, Promise, adapter, world, locals
<1>6. CASE Reply(t)
  BY <1>6 DEF Reply, Finish, Accepted, Goto, TypeOK, LockReleased, Holding, PortOpening, NothingStale, Verified, Promise, adapter, world, locals
<1>7. CASE Fail(t)
  BY <1>7 DEF Fail, Finish, Retry, Goto, TypeOK, LockReleased, Holding, PortOpening, NothingStale, Verified, Promise, adapter, world, locals
<1>8. CASE Wake(t)
  BY <1>8 DEF Wake, Goto, TypeOK, LockReleased, Holding, PortOpening, NothingStale, Verified, Promise, adapter, world, locals
<1>9. CASE Open(t)
  BY <1>9 DEF Open, Finish, Goto, TypeOK, LockReleased, Holding, PortOpening, NothingStale, Verified, Promise, adapter, world, locals
<1>10. CASE Reset(t)
  BY <1>10 DEF Reset, Finish, PreProbe, Goto, TypeOK, LockReleased, Holding, PortOpening, NothingStale, Verified, Promise, adapter, world, locals
<1>11. CASE PublishClaims(t)
  BY <1>11 DEF PublishClaims, Goto, TypeOK, LockReleased, Holding, PortOpening, NothingStale, Verified, Promise, adapter, world, locals
<1>12. CASE PublishIdentity(t)
  BY <1>12 DEF PublishIdentity, Finish, Goto, TypeOK, LockReleased, Holding, PortOpening, NothingStale, Verified, Promise, adapter, world, locals
<1>13. CASE ForgetPort(t)
  BY <1>13 DEF ForgetPort, Goto, TypeOK, LockReleased, Holding, PortOpening, NothingStale, Verified, Promise, adapter, world, locals
<1>14. CASE Downgrade(t)
  BY <1>14 DEF Downgrade, PreProbe, Goto, TypeOK, LockReleased, Holding, PortOpening, NothingStale, Verified, Promise, adapter, world, locals
<1>15. CASE Close(t)
  BY <1>15 DEF Close, Finish, Goto, TypeOK, LockReleased, Holding, PortOpening, NothingStale, Verified, Promise, adapter, world, locals
<1>16. CASE LookState(t)
  BY <1>16 DEF LookState, Goto, TypeOK, LockReleased, Holding, PortOpening, NothingStale, Verified, Promise, adapter, world, locals
<1>17. CASE LookIdentity(t)
  BY <1>17 DEF LookIdentity, Finish, Goto, TypeOK, LockReleased, Holding, PortOpening, NothingStale, Verified, Promise, adapter, world, locals
<1> QED
  BY <1>1, <1>2, <1>3, <1>4, <1>5, <1>6, <1>7, <1>8, <1>9, <1>10, <1>11, <1>12, <1>13, <1>14, <1>15, <1>16, <1>17 DEF Work

\* The port of an operation is neither closed nor replaced under it.
LEMMA KeptStep ==
    ASSUME TypeOK, LockReleased, PortKept, NEW t \in Threads,
           Work(t) \/ \E c \in Calls : Invoke(t, c)
    PROVE  PortKept'
<1>1. CASE \E c \in Calls : Invoke(t, c)
  BY <1>1 DEF Invoke, Goto, FirstStep, TypeOK, LockReleased, Holding, PortKept, Talking, adapter, world, locals
<1>2. CASE Return(t)
  BY <1>2 DEF Return, Goto, TypeOK, LockReleased, Holding, PortKept, Talking, adapter, world, locals
<1>3. CASE ReadClaim(t)
  BY <1>3 DEF ReadClaim, Finish, Goto, TypeOK, LockReleased, Holding, PortKept, Talking, adapter, world, locals
<1>4. CASE Acquire(t)
  BY <1>4 DEF Acquire, Finish, Goto, TypeOK, LockReleased, Holding, PortKept, Talking, adapter, world, locals
<1>5. CASE Attempt(t)
  BY <1>5 DEF Attempt, Finish, Goto, TypeOK, LockReleased, Holding, PortKept, Talking, adapter, world, locals
<1>6. CASE Reply(t)
  BY <1>6 DEF Reply, Finish, Accepted, Goto, TypeOK, LockReleased, Holding, PortKept, Talking, adapter, world, locals
<1>7. CASE Fail(t)
  BY <1>7 DEF Fail, Finish, Retry, Goto, TypeOK, LockReleased, Holding, PortKept, Talking, adapter, world, locals
<1>8. CASE Wake(t)
  BY <1>8 DEF Wake, Goto, TypeOK, LockReleased, Holding, PortKept, Talking, adapter, world, locals
<1>9. CASE Open(t)
  BY <1>9 DEF Open, Finish, Goto, TypeOK, LockReleased, Holding, PortKept, Talking, adapter, world, locals
<1>10. CASE Reset(t)
  BY <1>10 DEF Reset, Finish, PreProbe, Goto, TypeOK, LockReleased, Holding, PortKept, Talking, adapter, world, locals
<1>11. CASE PublishClaims(t)
  BY <1>11 DEF PublishClaims, Goto, TypeOK, LockReleased, Holding, PortKept, Talking, adapter, world, locals
<1>12. CASE PublishIdentity(t)
  BY <1>12 DEF PublishIdentity, Finish, Goto, TypeOK, LockReleased, Holding, PortKept, Talking, adapter, world, locals
<1>13. CASE ForgetPort(t)
  BY <1>13 DEF ForgetPort, Goto, TypeOK, LockReleased, Holding, PortKept, Talking, adapter, world, locals
<1>14. CASE Downgrade(t)
  BY <1>14 DEF Downgrade, PreProbe, Goto, TypeOK, LockReleased, Holding, PortKept, Talking, adapter, world, locals
<1>15. CASE Close(t)
  BY <1>15 DEF Close, Finish, Goto, TypeOK, LockReleased, Holding, PortKept, Talking, adapter, world, locals
<1>16. CASE LookState(t)
  BY <1>16 DEF LookState, Goto, TypeOK, LockReleased, Holding, PortKept, Talking, adapter, world, locals
<1>17. CASE LookIdentity(t)
  BY <1>17 DEF LookIdentity, Finish, Goto, TypeOK, LockReleased, Holding, PortKept, Talking, adapter, world, locals
<1> QED
  BY <1>1, <1>2, <1>3, <1>4, <1>5, <1>6, <1>7, <1>8, <1>9, <1>10, <1>11, <1>12, <1>13, <1>14, <1>15, <1>16, <1>17 DEF Work

\* The three looks of a status follow the numbering of the ports.
LEMMA StatusStep ==
    ASSUME TypeOK, PortsCounted, StatusKnown, NEW t \in Threads,
           Work(t) \/ \E c \in Calls : Invoke(t, c)
    PROVE  StatusKnown'
<1>1. CASE \E c \in Calls : Invoke(t, c)
  BY <1>1 DEF Invoke, Goto, FirstStep, TypeOK, PortsCounted, StatusKnown, adapter, world, locals
<1>2. CASE Return(t)
  BY <1>2 DEF Return, Goto, TypeOK, PortsCounted, StatusKnown, adapter, world, locals
<1>3. CASE ReadClaim(t)
  BY <1>3 DEF ReadClaim, Finish, Goto, TypeOK, PortsCounted, StatusKnown, adapter, world, locals
<1>4. CASE Acquire(t)
  BY <1>4 DEF Acquire, Finish, Goto, TypeOK, PortsCounted, StatusKnown, adapter, world, locals
<1>5. CASE Attempt(t)
  BY <1>5 DEF Attempt, Finish, Goto, TypeOK, PortsCounted, StatusKnown, adapter, world, locals
<1>6. CASE Reply(t)
  BY <1>6 DEF Reply, Finish, Accepted, Goto, TypeOK, PortsCounted, StatusKnown, adapter, world, locals
<1>7. CASE Fail(t)
  BY <1>7 DEF Fail, Finish, Retry, Goto, TypeOK, PortsCounted, StatusKnown, adapter, world, locals
<1>8. CASE Wake(t)
  BY <1>8 DEF Wake, Goto, TypeOK, PortsCounted, StatusKnown, adapter, world, locals
<1>9. CASE Open(t)
  BY <1>9 DEF Open, Finish, Goto, TypeOK, PortsCounted, StatusKnown, adapter, world, locals
<1>10. CASE Reset(t)
  BY <1>10 DEF Reset, Finish, PreProbe, Goto, TypeOK, PortsCounted, StatusKnown, adapter, world, locals
<1>11. CASE PublishClaims(t)
  BY <1>11 DEF PublishClaims, Goto, TypeOK, PortsCounted, StatusKnown, adapter, world, locals
<1>12. CASE PublishIdentity(t)
  BY <1>12 DEF PublishIdentity, Finish, Goto, TypeOK, PortsCounted, StatusKnown, adapter, world, locals
<1>13. CASE ForgetPort(t)
  BY <1>13 DEF ForgetPort, Goto, TypeOK, PortsCounted, StatusKnown, adapter, world, locals
<1>14. CASE Downgrade(t)
  BY <1>14 DEF Downgrade, PreProbe, Goto, TypeOK, PortsCounted, StatusKnown, adapter, world, locals
<1>15. CASE Close(t)
  BY <1>15 DEF Close, Finish, Goto, TypeOK, PortsCounted, StatusKnown, adapter, world, locals
<1>16. CASE LookState(t)
  BY <1>16 DEF LookState, Goto, TypeOK, PortsCounted, StatusKnown, adapter, world, locals
<1>17. CASE LookIdentity(t)
  BY <1>17 DEF LookIdentity, Finish, Goto, TypeOK, PortsCounted, StatusKnown, adapter, world, locals
<1> QED
  BY <1>1, <1>2, <1>3, <1>4, <1>5, <1>6, <1>7, <1>8, <1>9, <1>10, <1>11, <1>12, <1>13, <1>14, <1>15, <1>16, <1>17 DEF Work

\* Time passes for everybody, and for the operation or the sleep under way.
LEMMA TickStep ==
    ASSUME VendorInv, Tick
    PROVE  VendorInv'
<1> USE DEF VendorInv
<1>1. lock # NoThread => lock \in Threads /\ pc[lock] \in {"calling", "sleeping"} /\ wait[lock] > 0
  BY DEF Tick, TypeOK
<1>2. /\ UNCHANGED <<lock, adapter, world, pc, call, tries, port, probed, answer, seen, reply, made>>
      /\ left' \in [Threads -> Int]
  BY DEF Tick, TypeOK
<1>3. wait' \in [Threads -> Nat]
  <2>1. wait' = [t \in Threads |-> IF t = lock THEN wait[t] - 1 ELSE wait[t]]
    BY DEF Tick
  <2>2. ASSUME NEW t \in Threads, t = lock
        PROVE  wait[t] \in Nat /\ wait[t] > 0
    BY <1>1, <2>2, ThreadsAssumption DEF TypeOK
  <2>3. ASSUME NEW t \in Threads
        PROVE  wait[t] \in Nat
    BY <2>3 DEF TypeOK
  <2> QED
    BY <2>1, <2>2, <2>3
<1>4. TypeOK'
  BY <1>2, <1>3 DEF TypeOK, adapter, world
<1>5. LockHeldBriefly'
  <2> SUFFICES ASSUME NEW t \in Threads, pc[t] \in {"calling", "sleeping"}
               PROVE  /\ pc[t] = "calling" => wait'[t] <= left'[t] + OpTime
                      /\ pc[t] = "sleeping" => wait'[t] <= left'[t]
    BY <1>2 DEF LockHeldBriefly
  <2>1. lock = t /\ wait[t] > 0
    BY <1>1, ThreadsAssumption DEF LockReleased, Holding
  <2>2. wait[t] \in Nat /\ left[t] \in Int
    BY DEF TypeOK
  <2>3. wait'[t] = wait[t] - 1
    BY <2>1 DEF Tick
  <2>4. left[t] > -OpTime - 1 /\ left'[t] = left[t] - 1
    BY <2>1, <2>2, TimeAssumption DEF Tick, LockHeldBriefly
  <2> QED
    BY <2>1, <2>2, <2>3, <2>4, TimeAssumption DEF LockHeldBriefly
<1>6. LockReleased' /\ RightCall' /\ Verified' /\ LateIsFailure'
  BY <1>2 DEF LockReleased, RightCall, Verified, LateIsFailure, world
<1>7. PortsCounted' /\ PortOpening' /\ NothingStale' /\ Promise'
  BY <1>2 DEF PortsCounted, PortOpening, NothingStale, Promise, adapter, world
<1>8. PortKept' /\ StatusKnown'
  BY <1>2 DEF PortKept, StatusKnown, adapter
<1> QED
  BY <1>4, <1>5, <1>6, <1>7, <1>8

\* Nothing is open at first and nothing is promised.
LEMMA VendorInitially == Init => VendorInv
<1> SUFFICES ASSUME Init PROVE VendorInv
  OBVIOUS
<1> USE DEF Init, VendorInv
<1>1. TypeOK
  BY ThreadsAssumption, TimeAssumption, DeploymentAssumption
     DEF TypeOK, PreProbe, Claims, Steps, Answers, Calls
<1>2. LockReleased /\ RightCall /\ LockHeldBriefly /\ Verified /\ LateIsFailure
  BY ThreadsAssumption DEF LockReleased, Holding, RightCall, LockHeldBriefly, Verified, LateIsFailure
<1>3. PortsCounted /\ PortOpening /\ NothingStale /\ Promise
  BY DEF PortsCounted, PortOpening, NothingStale, Promise, PreProbe
<1>4. PortKept /\ StatusKnown
  BY DEF PortKept, Talking, StatusKnown
<1> QED
  BY <1>1, <1>2, <1>3, <1>4

\* Every step keeps the invariant.
LEMMA VendorSteps == VendorInv /\ [Next]_vars => VendorInv'
<1> SUFFICES ASSUME VendorInv, [Next]_vars PROVE VendorInv'
  OBVIOUS
<1>1. CASE Tick
  BY <1>1, TickStep
<1>2. CASE UNCHANGED vars
  BY <1>2 DEF VendorInv, vars, adapter, world, locals, TypeOK, LockReleased, RightCall,
      LockHeldBriefly, Verified, LateIsFailure, PortsCounted, PortOpening, NothingStale,
      Promise, PortKept, StatusKnown
<1>3. CASE \E t \in Threads : Work(t) \/ \E c \in Calls : Invoke(t, c)
  <2> PICK t \in Threads : Work(t) \/ \E c \in Calls : Invoke(t, c)
    BY <1>3
  <2>1. TypeOK' /\ LockReleased' /\ RightCall'
    BY TypeStep, LockStep, CallStep DEF VendorInv
  <2>2. LockHeldBriefly' /\ Verified' /\ LateIsFailure'
    BY BrieflyStep, VerifiedStep, LateStep DEF VendorInv
  <2>3. PortsCounted' /\ PortOpening' /\ NothingStale' /\ Promise'
    BY CountStep, OpeningStep, StaleStep, PromiseStep DEF VendorInv
  <2>4. PortKept' /\ StatusKnown'
    BY KeptStep, StatusStep DEF VendorInv
  <2> QED
    BY <2>1, <2>2, <2>3, <2>4 DEF VendorInv
<1> QED
  BY <1>1, <1>2, <1>3 DEF Next, Quiet

\* The invariant holds in every reachable state, and with it what follows.
THEOREM AdapterInvariant == Spec => []VendorInv
  BY VendorInitially, VendorSteps, PTL DEF Spec

\* The state is well typed (_call_with_retry never counts beyond its retries).
THEOREM AdapterTyped == Spec => []TypeOK
<1>1. VendorInv => TypeOK
  BY DEF VendorInv
<1> QED
  BY <1>1, AdapterInvariant, PTL

\* Every call that ends gives the lock back, and nobody takes it from a call in
\* progress (connect, disconnect, read, write, stop and probe_identity).
THEOREM LockIsReleased == Spec => []LockReleased
<1>1. VendorInv => LockReleased
  BY DEF VendorInv
<1> QED
  BY <1>1, AdapterInvariant, PTL

\* A call overruns its deadline by one operation of the vendor library at the
\* most, however many retries and whatever delay are configured (_call_with_retry).
THEOREM LockIsHeldBriefly == Spec => []LockHeldBriefly
<1>1. VendorInv => LockHeldBriefly
  BY DEF VendorInv
<1> QED
  BY <1>1, AdapterInvariant, PTL

\* A reply after the deadline is a failure (_call_with_retry).
THEOREM LateReplyFails == Spec => []LateIsFailure
<1>1. VendorInv => LateIsFailure
  BY DEF VendorInv
<1> QED
  BY <1>1, AdapterInvariant, PTL

\* A retried operation stays on the open port it began on (_require_vendor).
THEOREM PortStays == Spec => []PortKept
<1>1. VendorInv => PortKept
  BY DEF VendorInv
<1> QED
  BY <1>1, AdapterInvariant, PTL

\* The promise of a stop is kept on the port that is open now, whatever probes,
\* reconnections and failures came before (_verify_declared_capabilities).
THEOREM ClaimsAreHonest == Spec => []ClaimsHonest
<1>1. VendorInv => ClaimsHonest
  <2> SUFFICES ASSUME VendorInv, lock = NoThread, observed = "supported"
               PROVE  /\ declared = "supported" /\ hasStop
                      /\ vendor # 0 /\ identity = vendor
    BY DEF ClaimsHonest
  <2>1. \A t \in Threads : pc[t] \notin {"identify", "downgrade"}
    BY ThreadsAssumption DEF VendorInv, LockReleased, Holding
  <2> QED
    BY <2>1 DEF VendorInv, Promise, NothingStale
<1> QED
  BY <1>1, AdapterInvariant, PTL

\* A status never shows an identity older than the port it saw
\* (read_hardware_status).
THEOREM StatusIsCurrent == Spec => []StatusIdentityCurrent
<1>1. VendorInv => StatusIdentityCurrent
  BY DEF VendorInv, StatusKnown, StatusIdentityCurrent
<1> QED
  BY <1>1, AdapterInvariant, PTL
=============================================================================

---------------------------- MODULE VendorSerial ----------------------------
(***************************************************************************)
(* VendorSerialRobotAdapter (adapters/vendor_serial.py): one serial port,  *)
(* one lock, operations that are retried until a deadline, and capability  *)
(* claims that hold only after an identity probe.                          *)
(*                                                                         *)
(* Time is the time left to a call's deadline.  The thread that holds the  *)
(* lock runs in no time except while the vendor library works (at most     *)
(* OpTime) and while it sleeps between attempts; the other threads may be  *)
(* scheduled at any later time.  stop and read_hardware_status look at the *)
(* adapter without the lock, each look being a step.  The sample number    *)
(* and the diagnostic counters, which no guard reads, are left out.        *)
(***************************************************************************)
EXTENDS Integers, FiniteSets

CONSTANTS
    Threads, NoThread,
    MaxCalls,        \* bound: the calls made
    MaxRetries, RetryDelay,
    OpTime,          \* external: the longest vendor operation
    Timeout,         \* time from a call to its deadline
    Declarations     \* what a deployment may declare of stop

ASSUME ThreadsAssumption == NoThread \notin Threads
ASSUME TimeAssumption ==
    /\ MaxRetries \in Nat /\ RetryDelay \in Nat
    /\ OpTime \in Nat /\ Timeout \in Nat

Calls == {"connect", "disconnect", "read", "write", "stop", "probe", "status"}

Claims == {"supported", "unverified", "unsupported"}
ASSUME DeploymentAssumption == MaxCalls \in Nat /\ Declarations \subseteq Claims
Answers == {"none", "success", "rejected", "refused", "timed_out", "failed"}
Steps == {"idle", "answered", "claim", "acquire", "open", "reset", "attempt", "calling",
          "sleeping", "claims", "identify", "forget", "downgrade", "close",
          "look_state", "look_identity"}

VARIABLES
    \* the adapter; connections are numbered, 0 is None
    lock, vendor, identity, observed,
    opened,          \* connections opened so far
    \* what the deployment declares of stop, and whether the vendor class has it
    declared, hasStop,
    \* the call of a thread
    pc, call,
    left,            \* time left to the deadline, counted to just below -OpTime
    tries,
    wait,            \* time left of the operation or of the sleep
    port, probed, answer,
    seen,            \* a status: the port at its two looks, the identity at the third
    reply,           \* history: the time that was left when the last reply came
    made             \* calls made

adapter == <<vendor, identity, observed, opened>>
world == <<declared, hasStop>>
locals == <<call, left, tries, wait, port, probed, answer, seen, reply>>
vars == <<lock, adapter, world, pc, locals, made>>

\* _pre_probe_capabilities
PreProbe(claim) == IF claim = "unsupported" THEN claim ELSE "unverified"

Init ==
    /\ lock = NoThread
    /\ vendor = 0 /\ identity = 0 /\ opened = 0
    /\ declared \in Declarations
    /\ hasStop \in BOOLEAN
    /\ observed = PreProbe(declared)
    /\ pc = [t \in Threads |-> "idle"]
    /\ call = [t \in Threads |-> "status"]
    /\ left = [t \in Threads |-> 0]
    /\ tries = [t \in Threads |-> 0]
    /\ wait = [t \in Threads |-> 0]
    /\ port = [t \in Threads |-> 0]
    /\ probed = [t \in Threads |-> FALSE]
    /\ answer = [t \in Threads |-> "none"]
    /\ seen = [t \in Threads |-> <<0, 0, 0>>]
    /\ reply = [t \in Threads |-> 0]
    /\ made = 0

Goto(t, step) == pc' = [pc EXCEPT ![t] = step]

\* The call of t ends and, with it, its hold on the lock.
Finish(t, how) ==
    /\ Goto(t, "answered")
    /\ answer' = [answer EXCEPT ![t] = how]
    /\ lock' = IF lock = t THEN NoThread ELSE lock

-----------------------------------------------------------------------------
(* Calls and the lock                                                      *)

FirstStep(c) ==
    CASE c = "stop" -> "claim" [] c = "status" -> "look_state" [] OTHER -> "acquire"

\* The context of a call is made when the call is; a status has looked at the
\* port once when it begins.
Invoke(t, c) ==
    /\ pc[t] = "idle"
    /\ made < MaxCalls
    /\ made' = made + 1
    /\ Goto(t, FirstStep(c))
    /\ call' = [call EXCEPT ![t] = c]
    /\ left' = [left EXCEPT ![t] = Timeout]
    /\ answer' = [answer EXCEPT ![t] = "none"]
    /\ seen' = [seen EXCEPT ![t] = <<vendor, 0, 0>>]
    /\ UNCHANGED <<lock, adapter, world, tries, wait, port, probed, reply>>

\* The caller has its answer; nothing of the call is left.
Return(t) ==
    /\ pc[t] = "answered"
    /\ Goto(t, "idle")
    /\ call' = [call EXCEPT ![t] = "status"]
    /\ left' = [left EXCEPT ![t] = 0]
    /\ tries' = [tries EXCEPT ![t] = 0]
    /\ wait' = [wait EXCEPT ![t] = 0]
    /\ port' = [port EXCEPT ![t] = 0]
    /\ probed' = [probed EXCEPT ![t] = FALSE]
    /\ answer' = [answer EXCEPT ![t] = "none"]
    /\ seen' = [seen EXCEPT ![t] = <<0, 0, 0>>]
    /\ reply' = [reply EXCEPT ![t] = 0]
    /\ UNCHANGED <<lock, adapter, world, made>>

\* stop reads the capability before it takes the lock.
ReadClaim(t) ==
    /\ pc[t] = "claim"
    /\ IF observed = "supported"
         THEN Goto(t, "acquire") /\ UNCHANGED <<answer, lock>>
         ELSE Finish(t, "rejected")
    /\ UNCHANGED <<adapter, world, call, left, tries, wait, port,
                   probed, seen, reply, made>>

\* Mutant of Acquire: a disconnect does not wait for the lock.
AcquireUnlocked(t) ==
    /\ pc[t] = "acquire"
    /\ IF call[t] = "disconnect"
         THEN Goto(t, "forget") /\ UNCHANGED <<lock, answer>>
         ELSE /\ lock = NoThread
              /\ IF call[t] # "connect" /\ vendor # 0
                   THEN Goto(t, "attempt") /\ lock' = t /\ UNCHANGED answer
                   ELSE IF vendor # 0 THEN Finish(t, "success")
                        ELSE Goto(t, "open") /\ lock' = t /\ UNCHANGED answer
    /\ tries' = [tries EXCEPT ![t] = 0]
    /\ port' = [port EXCEPT ![t] = vendor]
    /\ probed' = [probed EXCEPT ![t] = FALSE]
    /\ UNCHANGED <<adapter, world, call, left, wait, seen, reply, made>>

\* The beginning of every call under the lock: what it needs of the port, and
\* for stop of the vendor class, is there or the call ends.
Acquire(t) ==
    /\ pc[t] = "acquire"
    /\ lock = NoThread
    /\ tries' = [tries EXCEPT ![t] = 0]
    /\ port' = [port EXCEPT ![t] = vendor]
    /\ probed' = [probed EXCEPT ![t] = FALSE]
    /\ LET Proceed(step) == Goto(t, step) /\ lock' = t /\ UNCHANGED answer
           c == call[t] IN
       CASE c = "connect" /\ vendor # 0 -> Finish(t, "success")
         [] c = "connect" /\ vendor = 0 -> Proceed("open")
         [] c = "disconnect" -> Proceed("forget")
         [] c \notin {"connect", "disconnect"} /\ vendor = 0 -> Finish(t, "refused")
         [] c = "stop" /\ vendor # 0 /\ ~hasStop -> Finish(t, "rejected")
         [] OTHER -> Proceed("attempt")
    /\ UNCHANGED <<adapter, world, call, left, wait, seen, reply, made>>

-----------------------------------------------------------------------------
(* _call_with_retry                                                        *)

\* Mutant of Attempt: the deadline is looked at only after the operation.
AttemptUnchecked(t) ==
    /\ pc[t] = "attempt"
    /\ \E d \in 0..OpTime : wait' = [wait EXCEPT ![t] = d]
    /\ Goto(t, "calling")
    /\ UNCHANGED <<lock, adapter, world, call, left, tries, port,
                   probed, answer, seen, reply, made>>

\* One attempt: the deadline is looked at, then the operation is sent.
Attempt(t) ==
    /\ pc[t] = "attempt"
    /\ IF left[t] <= 0
         THEN Finish(t, "timed_out") /\ UNCHANGED wait
         ELSE /\ \E d \in 0..OpTime : wait' = [wait EXCEPT ![t] = d]
              /\ Goto(t, "calling")
              /\ UNCHANGED <<answer, lock>>
    /\ UNCHANGED <<adapter, world, call, left, tries, port, probed,
                   seen, reply, made>>

\* The operation failed: the next attempt follows a sleep that ends at the
\* deadline at the latest; after the last attempt the call raises.
Retry(t) ==
    IF tries[t] = MaxRetries
      THEN Finish(t, "failed") /\ UNCHANGED <<tries, wait>>
      ELSE /\ tries' = [tries EXCEPT ![t] = @ + 1]
           /\ IF left[t] <= 0
                THEN Goto(t, "attempt") /\ UNCHANGED wait
                ELSE /\ Goto(t, "sleeping")
                     /\ wait' = [wait EXCEPT ![t] =
                          IF RetryDelay < left[t] THEN RetryDelay ELSE left[t]]
           /\ UNCHANGED <<answer, lock>>

\* The reply of the vendor library, in time or late.  What was accepted is used
\* under the same lock: a sample that is malformed raises; a version that is not
\* the expected one raises, and so does a vendor class without a way to ask for
\* the model.
Accepted(t) ==
    CASE call[t] = "read" ->
           /\ \E how \in {"success", "failed"} : Finish(t, how)
           /\ UNCHANGED <<probed, tries>>
      [] call[t] \in {"write", "stop"} ->
           Finish(t, "success") /\ UNCHANGED <<probed, tries>>
      [] OTHER ->
           \/ Finish(t, "failed") /\ UNCHANGED <<probed, tries>>
           \/ /\ ~probed[t]
              /\ probed' = [probed EXCEPT ![t] = TRUE]
              /\ tries' = [tries EXCEPT ![t] = 0]
              /\ Goto(t, "attempt")
              /\ UNCHANGED <<answer, lock>>
           \/ /\ probed[t]
              /\ declared = "supported" => hasStop
              /\ Goto(t, "claims")
              /\ UNCHANGED <<probed, tries, answer, lock>>

\* Mutant of Reply: an answer is an answer, whenever it comes.
ReplyWhenever(t) ==
    /\ pc[t] = "calling"
    /\ wait[t] = 0
    /\ reply' = [reply EXCEPT ![t] = left[t]]
    /\ Accepted(t)
    /\ UNCHANGED <<vendor, identity, observed, opened, world, call, left,
                   wait, port, seen, made>>

Reply(t) ==
    /\ pc[t] = "calling"
    /\ wait[t] = 0
    /\ reply' = [reply EXCEPT ![t] = left[t]]
    /\ IF left[t] < 0
         THEN Finish(t, "timed_out") /\ UNCHANGED <<probed, tries>>
         ELSE Accepted(t)
    /\ UNCHANGED <<vendor, identity, observed, opened, world, call, left,
                   wait, port, seen, made>>

\* The reply is -1 or None, in time; or the operation raised, whenever it did.
Fail(t) ==
    /\ pc[t] = "calling"
    /\ wait[t] = 0
    /\ Retry(t)
    /\ UNCHANGED <<adapter, world, call, left, port, probed, seen,
                   reply, made>>

Wake(t) ==
    /\ pc[t] = "sleeping"
    /\ wait[t] = 0
    /\ Goto(t, "attempt")
    /\ UNCHANGED <<lock, adapter, world, locals, made>>

-----------------------------------------------------------------------------
(* connect, disconnect and the end of probe_identity                       *)

Open(t) ==
    /\ pc[t] = "open"
    /\ \/ /\ opened' = opened + 1
          /\ vendor' = opened'
          /\ Goto(t, "reset")
          /\ UNCHANGED <<answer, lock>>
       \/ Finish(t, "failed") /\ UNCHANGED <<opened, vendor>>
    /\ UNCHANGED <<identity, observed, world, call, left,
                   tries, wait, port, probed, seen, reply, made>>

Reset(t) ==
    /\ pc[t] = "reset"
    /\ identity' = 0
    /\ observed' = PreProbe(declared)
    /\ Finish(t, "success")
    /\ UNCHANGED <<vendor, opened, world, call, left, tries,
                   wait, port, probed, seen, reply, made>>

\* The capabilities are published before the identity.
PublishClaims(t) ==
    /\ pc[t] = "claims"
    /\ observed' = declared
    /\ Goto(t, "identify")
    /\ UNCHANGED <<lock, vendor, identity, opened, world, locals, made>>

PublishIdentity(t) ==
    /\ pc[t] = "identify"
    /\ identity' = vendor
    /\ Finish(t, "success")
    /\ UNCHANGED <<vendor, observed, opened, world, call,
                   left, tries, wait, port, probed, seen, reply, made>>

ForgetPort(t) ==
    /\ pc[t] = "forget"
    /\ vendor' = 0
    /\ Goto(t, "downgrade")
    /\ UNCHANGED <<lock, identity, observed, opened, world, locals, made>>

\* Mutant of Downgrade: the identity is left for connect to forget.
DowngradeKeepsIdentity(t) ==
    /\ pc[t] = "downgrade"
    /\ observed' = PreProbe(declared)
    /\ Goto(t, "close")
    /\ UNCHANGED <<lock, vendor, identity, opened, world, locals, made>>

\* Mutant of Downgrade: the claims are left for connect to downgrade.
DowngradeKeepsClaims(t) ==
    /\ pc[t] = "downgrade"
    /\ identity' = 0
    /\ Goto(t, "close")
    /\ UNCHANGED <<lock, vendor, observed, opened, world, locals, made>>

\* The identity and then the capabilities; stop looks at the capabilities only
\* and the status at the identity only, so that the two assignments are one step.
Downgrade(t) ==
    /\ pc[t] = "downgrade"
    /\ identity' = 0
    /\ observed' = PreProbe(declared)
    /\ Goto(t, "close")
    /\ UNCHANGED <<lock, vendor, opened, world, locals, made>>

\* Mutant of Close: a close that raises leaves the lock taken.
CloseKeepsLock(t) ==
    /\ pc[t] = "close"
    /\ \/ Finish(t, "success")
       \/ /\ port[t] # 0
          /\ Goto(t, "answered")
          /\ answer' = [answer EXCEPT ![t] = "failed"]
          /\ UNCHANGED lock
    /\ UNCHANGED <<adapter, world, call, left, tries, wait, port, probed,
                   seen, reply, made>>

\* There was no port, or it is closed, or closing it raises.
Close(t) ==
    /\ pc[t] = "close"
    /\ \/ Finish(t, "success")
       \/ port[t] # 0 /\ Finish(t, "failed")
    /\ UNCHANGED <<adapter, world, call, left, tries, wait, port, probed,
                   seen, reply, made>>

-----------------------------------------------------------------------------
(* read_hardware_status, which takes no lock                               *)

LookState(t) ==
    /\ pc[t] = "look_state"
    /\ seen' = [seen EXCEPT ![t] = <<@[1], vendor, 0>>]
    /\ Goto(t, "look_identity")
    /\ UNCHANGED <<lock, adapter, world, call, left, tries, wait, port,
                   probed, answer, reply, made>>

LookIdentity(t) ==
    /\ pc[t] = "look_identity"
    /\ seen' = [seen EXCEPT ![t] = <<@[1], @[2], identity>>]
    /\ Finish(t, "success")
    /\ UNCHANGED <<adapter, world, call, left, tries, wait, port, probed,
                   reply, made>>

-----------------------------------------------------------------------------
\* Time passes unless the holder of the lock has something to do at once.
Tick ==
    /\ \E t \in Threads : pc[t] \notin {"idle", "answered"} /\ left[t] > -OpTime - 1
    /\ lock # NoThread => pc[lock] \in {"calling", "sleeping"} /\ wait[lock] > 0
    /\ left' = [t \in Threads |->
                  IF pc[t] \notin {"idle", "answered"} /\ left[t] > -OpTime - 1
                    THEN left[t] - 1 ELSE left[t]]
    /\ wait' = [t \in Threads |-> IF t = lock THEN wait[t] - 1 ELSE wait[t]]
    /\ UNCHANGED <<lock, adapter, world, pc, call, tries, port, probed, answer,
                   seen, reply, made>>

Work(t) ==
    \/ Return(t) \/ ReadClaim(t) \/ Acquire(t) \/ Attempt(t) \/ Reply(t) \/ Fail(t) \/ Wake(t)
    \/ Open(t) \/ Reset(t) \/ PublishClaims(t) \/ PublishIdentity(t)
    \/ ForgetPort(t) \/ Downgrade(t) \/ Close(t)
    \/ LookState(t) \/ LookIdentity(t)

\* The end of the bounded instance: anything else that stands still is a deadlock.
Quiet ==
    /\ made = MaxCalls
    /\ \A t \in Threads : pc[t] = "idle"
    /\ UNCHANGED vars

Next ==
    \/ Tick
    \/ Quiet
    \/ \E t \in Threads : Work(t) \/ \E c \in Calls : Invoke(t, c)

Spec == Init /\ [][Next]_vars
-----------------------------------------------------------------------------
(* Properties                                                              *)

\* The state is well typed; retries stay within their number and a wait is never
\* negative (_call_with_retry).
TypeOK ==
    /\ lock \in Threads \cup {NoThread}
    /\ vendor \in Nat /\ identity \in Nat /\ opened \in Nat
    /\ observed \in Claims /\ declared \in Claims /\ hasStop \in BOOLEAN
    /\ pc \in [Threads -> Steps]
    /\ call \in [Threads -> Calls]
    /\ left \in [Threads -> Int]
    /\ tries \in [Threads -> 0..MaxRetries]
    /\ wait \in [Threads -> Nat]
    /\ port \in [Threads -> Nat]
    /\ probed \in [Threads -> BOOLEAN]
    /\ answer \in [Threads -> Answers]
    /\ seen \in [Threads -> Nat \X Nat \X Nat]
    /\ reply \in [Threads -> Int]
    /\ made \in Nat

Holding == {"open", "reset", "attempt", "calling", "sleeping", "claims",
            "identify", "forget", "downgrade", "close"}
Talking == {"attempt", "calling", "sleeping", "claims", "identify"}
Operations == {"read", "write", "stop", "probe"}

\* A call never keeps the lock, and with it a waiting stop, beyond its own
\* deadline by more than one operation of the vendor library: no attempt begins
\* after the deadline, and the sleep between two attempts ends by then
\* (_call_with_retry).
LockHeldBriefly ==
    \A t \in Threads :
        /\ pc[t] = "calling" => wait[t] <= left[t] + OpTime
        /\ pc[t] = "sleeping" => wait[t] <= left[t]

\* An operation whose reply came after the deadline is never answered as a
\* success, although the robot has acted (_call_with_retry).
LateIsFailure ==
    \A t \in Threads :
        pc[t] = "answered" /\ answer[t] = "success" /\ call[t] \in Operations
            => reply[t] >= 0

\* The port a retried operation was begun on is open, and the same, until the
\* call ends, whatever connect and disconnect the other threads make.
PortKept ==
    \A t \in Threads : pc[t] \in Talking => port[t] = vendor /\ vendor # 0

\* Whenever the lock is free, the capabilities promise a stop only on an open
\* port whose identity was probed since it was opened, and only if the vendor
\* class has the method (_pre_probe_capabilities, _verify_declared_capabilities).
ClaimsHonest ==
    lock = NoThread /\ observed = "supported"
        => /\ declared = "supported" /\ hasStop
           /\ vendor # 0 /\ identity = vendor

\* A status is put together from three looks without the lock.  It may be torn,
\* but it never shows the identity of an earlier connection as that of the one
\* it says is open (read_hardware_status).
StatusIdentityCurrent ==
    \A t \in Threads : seen[t][1] # 0 /\ seen[t][3] # 0 => seen[t][3] >= seen[t][1]

\* The lock belongs to a call that is in progress, and to no call that was
\* answered, whichever way it ended: a waiting call is never shut out for good.
LockReleased == \A t \in Threads : lock = t <=> pc[t] \in Holding

\* What _pre_probe_capabilities says (vendor_serial.py:447, "Downgrade claims
\* until identity and method presence are observed"): stop is sent only on a
\* connection whose identity was probed.
StopOnProbedPort ==
    [][\A t \in Threads :
         pc[t] = "attempt" /\ pc'[t] = "calling" /\ call[t] = "stop"
             => identity = vendor]_vars
=============================================================================

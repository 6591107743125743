--------------------------- MODULE DriverLifecycle ---------------------------
(***************************************************************************)
(* DriverLifecycleManager of lifecycle_manager.py.  A transition holds the *)
(* manager's lock from beginning to end, `transition' names its next call  *)
(* of the facade; whoever reads the state or the facade, or records a      *)
(* fault, waits for "none".                                                *)
(***************************************************************************)
EXTENDS CoreFacade

CONSTANT MaxCalls    \* bound: lifecycle transitions requested

ASSUME MaxCallsAssumption == MaxCalls \in Nat

VARIABLES
    lifecycle,     \* _state
    transition,    \* the next call of the transition that holds _lock, or none
    calls,         \* transitions requested so far
    outlived       \* history: goals with an unfinished command when a deactivate ended

lifeVars == <<lifecycle, transition, calls, outlived>>

Lifecycles == {"unconfigured", "inactive", "active", "fault"}
Transitions == {"none", "connect", "probe", "abandon", "cancel", "release",
                "dispose", "reopen"}

LifeInit ==
    /\ lifecycle = "unconfigured"
    /\ transition = "none"
    /\ calls = 0
    /\ outlived = {}

Unlocked == transition = "none"

\* The end of a transition.
Settle(state) == lifecycle' = state /\ transition' = "none"

\* The next call of a transition.
Call(next) == transition' = next /\ UNCHANGED lifecycle

Request(states) ==
    /\ Unlocked
    /\ lifecycle \in states
    /\ calls < MaxCalls
    /\ calls' = calls + 1
    /\ UNCHANGED outlived

-----------------------------------------------------------------------------
\* Building the session opens no hardware.  It may fail: then no facade is kept.
Configure ==
    /\ Request({"unconfigured"})
    /\ \/ Settle("inactive") /\ built' = built + 1 /\ facade' = built + 1
       \/ Settle("fault") /\ UNCHANGED <<built, facade>>
    /\ UNCHANGED <<link, fac, work, pool, shut>>

Activate == Request({"inactive"}) /\ Call("connect") /\ UNCHANGED coreVars

Deactivate == Request({"active"}) /\ Call("cancel") /\ UNCHANGED coreVars

\* Without a facade there is nothing to close.
Cleanup ==
    /\ Request({"inactive", "fault"})
    /\ IF facade = 0 THEN Settle("unconfigured") ELSE Call("dispose")
    /\ UNCHANGED coreVars

\* Without a facade recover is refused.
Recover ==
    /\ Request({"fault"})
    /\ facade # 0
    /\ Call("reopen")
    /\ UNCHANGED coreVars

Service == Configure \/ Activate \/ Deactivate \/ Cleanup \/ Recover

-----------------------------------------------------------------------------
(* The calls of activate and recover                                       *)

\* recover closes first, whatever state the session is in.
Reopen ==
    /\ transition = "reopen"
    /\ \E outcome \in {"ok", "failed"} :
          /\ Close(outcome)
          /\ Call(IF outcome = "ok" THEN "connect" ELSE "abandon")
    /\ UNCHANGED <<calls, outlived>>

Open ==
    /\ transition = "connect"
    /\ \E outcome \in {"ok", "failed"} :
          /\ Connect(outcome)
          /\ Call(IF outcome = "ok" THEN "probe" ELSE "abandon")
    /\ UNCHANGED <<calls, outlived>>

\* probe_hardware and the check that stop is verified.
Probe ==
    /\ transition = "probe"
    /\ Settle("active") \/ Call("abandon")
    /\ UNCHANGED <<calls, outlived, coreVars>>

\* The cleanup of a failed activation or recovery; it may fail itself.
Abandon ==
    /\ transition = "abandon"
    /\ \E outcome \in {"ok", "failed"} : Close(outcome)
    /\ Settle("fault")
    /\ UNCHANGED <<calls, outlived>>

-----------------------------------------------------------------------------
(* The calls of deactivate and cleanup                                     *)

\* A confirmed stop and the absence of a command are both safe; after any other
\* answer the hardware stays open.
CancelMotion ==
    /\ transition = "cancel"
    /\ \E outcome \in {"ok", "no_active", "failed"} :
          /\ Cancel(facade, outcome)
          /\ IF outcome = "failed" THEN Settle("fault") ELSE Call("release")
    /\ UNCHANGED <<calls, outlived>>

\* Mutant of Release: a close that raises still ends INACTIVE.
ReleaseAnyway ==
    /\ transition = "release"
    /\ \E outcome \in {"ok", "failed"} : Close(outcome)
    /\ Settle("inactive")
    /\ UNCHANGED <<calls, outlived>>

Release ==
    /\ transition = "release"
    /\ \/ /\ Close("ok")
          /\ Settle("inactive")
          /\ outlived' = outlived \cup {g \in Goals : work[g] \in Unfinished}
       \/ Close("failed") /\ Settle("fault") /\ UNCHANGED outlived
    /\ UNCHANGED calls

Dispose ==
    /\ transition = "dispose"
    /\ \/ /\ CloseSession("ok")
          /\ Settle("unconfigured")
          /\ facade' = 0
          /\ UNCHANGED <<built, fac, pool, shut>>
       \/ Close("failed") /\ Settle("fault")
    /\ UNCHANGED <<calls, outlived>>

Transition == Reopen \/ Open \/ Probe \/ Abandon \/ CancelMotion \/ Release \/ Dispose

\* record_runtime_fault, from the state poll or from the execution of a goal:
\* whatever the state is by then.
RecordFault ==
    /\ Unlocked
    /\ lifecycle' = "fault"
    /\ UNCHANGED <<transition, calls, outlived>>
=============================================================================

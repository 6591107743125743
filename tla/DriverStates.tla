---------------------------- MODULE DriverStates ----------------------------
(***************************************************************************)
(* The transition table of the core driver state machine                   *)
(* (runtime/state_machine.py).  Every event of the table has one target    *)
(* state whatever its source, so the table is two functions of the event:  *)
(* the states it is accepted in and the state it leads to.                 *)
(***************************************************************************)

DriverState ==
    {"disconnected", "connecting", "idle", "executing", "recovering", "fault"}

DriverEvent ==
    {"connect_requested", "connect_succeeded", "connect_failed",
     "disconnect_requested", "execution_accepted", "execution_succeeded",
     "execution_canceled", "fault_detected", "recovery_requested",
     "recovery_succeeded", "recovery_failed"}

\* The keys of _TRANSITIONS, grouped by event.
Sources(event) ==
    CASE event = "connect_requested"    -> {"disconnected"}
      [] event = "connect_succeeded"    -> {"connecting"}
      [] event = "connect_failed"       -> {"connecting"}
      [] event = "disconnect_requested" -> DriverState \ {"disconnected"}
      [] event = "execution_accepted"   -> {"idle"}
      [] event = "execution_succeeded"  -> {"executing"}
      [] event = "execution_canceled"   -> {"executing"}
      [] event = "fault_detected"       -> {"idle", "executing"}
      [] event = "recovery_requested"   -> {"fault"}
      [] event = "recovery_succeeded"   -> {"recovering"}
      [] event = "recovery_failed"      -> {"recovering"}

\* The values of _TRANSITIONS.
Target(event) ==
    CASE event = "connect_requested"    -> "connecting"
      [] event = "connect_succeeded"    -> "idle"
      [] event = "connect_failed"       -> "fault"
      [] event = "disconnect_requested" -> "disconnected"
      [] event = "execution_accepted"   -> "executing"
      [] event = "execution_succeeded"  -> "idle"
      [] event = "execution_canceled"   -> "idle"
      [] event = "fault_detected"       -> "fault"
      [] event = "recovery_requested"   -> "recovering"
      [] event = "recovery_succeeded"   -> "idle"
      [] event = "recovery_failed"      -> "fault"

\* DriverStateMachine.apply accepts the event; otherwise it raises
\* InvalidDriverStateError and changes nothing.
Permits(state, event) == state \in Sources(event)
=============================================================================

-------------------------- MODULE TrajectoryCommand --------------------------
(***************************************************************************)
(* What the core promises about trajectory commands, without threads,      *)
(* locks, generations or a driver state: one command at a time is open;    *)
(* waypoints are sent while it is open; it is closed once by a             *)
(* cancellation or a failure and sends nothing afterwards; it succeeds     *)
(* only when every waypoint was sent and nothing closed it.                *)
(***************************************************************************)
EXTENDS Integers

CONSTANTS Commands, Waypoints

VARIABLES
    phase,     \* "pending", "open", "closed" or "done"
    sent,      \* waypoints sent
    result     \* "none" until the command is done

cmdVars == <<phase, sent, result>>

Init ==
    /\ phase = [c \in Commands |-> "pending"]
    /\ sent = [c \in Commands |-> 0]
    /\ result = [c \in Commands |-> "none"]

Alone(c) == \A d \in Commands \ {c} : phase[d] \notin {"open", "closed"}

Open(c) ==
    /\ phase[c] = "pending"
    /\ Alone(c)
    /\ phase' = [phase EXCEPT ![c] = "open"]
    /\ UNCHANGED <<sent, result>>

Send(c) ==
    /\ phase[c] = "open"
    /\ sent[c] < Waypoints
    /\ sent' = [sent EXCEPT ![c] = @ + 1]
    /\ UNCHANGED <<phase, result>>

Close(c) ==
    /\ phase[c] \in {"pending", "open"}
    /\ Alone(c)
    /\ phase' = [phase EXCEPT ![c] = "closed"]
    /\ UNCHANGED <<sent, result>>

Finish(c, how) ==
    /\ CASE how = "refused" -> phase[c] = "pending"
         [] how = "success" -> phase[c] = "open" /\ sent[c] = Waypoints
         [] how \in {"canceled", "failed", "raised"} -> phase[c] = "closed"
    /\ phase' = [phase EXCEPT ![c] = "done"]
    /\ result' = [result EXCEPT ![c] = how]
    /\ UNCHANGED sent

Next ==
    \E c \in Commands :
        \/ Open(c) \/ Send(c) \/ Close(c)
        \/ \E how \in {"refused", "success", "canceled", "failed", "raised"} :
               Finish(c, how)

Spec == Init /\ [][Next]_cmdVars
=============================================================================

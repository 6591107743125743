--------------------------- MODULE MCRobotSession ---------------------------
(* Small instances of RobotSession for TLC. *)
EXTENDS RobotSession, TLC

ThreadSymmetry == Permutations(Threads)

\* Two commands meeting one cancel, one stop, one close and one recovery.
CommandBudget ==
    [execute |-> 2, cancel |-> 1, stop |-> 1, connect |-> 1, close |-> 1, recover |-> 1]

\* A session closed and opened again around one of each other call.
ReconnectBudget ==
    [execute |-> 1, cancel |-> 1, stop |-> 1, connect |-> 2, close |-> 1, recover |-> 1]
=============================================================================

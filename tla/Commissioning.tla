--------------------------- MODULE Commissioning ---------------------------
(***************************************************************************)
(* A session is first built from its configuration (Startup) and then      *)
(* given a motion (MotionPath).  The limits, tolerances and joint names    *)
(* of the motion are those of the configuration that was built, so that    *)
(* nothing of a motion happens in a process whose build was refused.       *)
(***************************************************************************)
EXTENDS MotionPath, Startup

commissioning == <<startup, vars>>

CommissioningInit == StartupInit /\ Init

\* RobotSessionBuilder.build runs to its end before anyone has its session.
Build == StartupNext /\ UNCHANGED vars

\* A request goes to a session that was built.
Operate == outcome = "built" /\ Next /\ UNCHANGED startup

CommissioningNext == Build \/ Operate

CommissioningSpec == CommissioningInit /\ [][CommissioningNext]_commissioning
=============================================================================

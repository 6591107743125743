--------------------------- MODULE MCRuntimeGates ---------------------------
(* The instance of RuntimeGates TLC checks. *)
EXTENDS RuntimeGates, TLC
=============================================================================

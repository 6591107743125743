--------------------------- MODULE MCVendorSerial ---------------------------
(* Instances of VendorSerial for TLC. *)
EXTENDS VendorSerial, TLC

ThreadSymmetry == Permutations(Threads)
=============================================================================

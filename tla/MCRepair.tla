------------------------------- MODULE MCRepair -------------------------------
(* Instances of Repair for TLC.                                              *)
EXTENDS Repair
=============================================================================

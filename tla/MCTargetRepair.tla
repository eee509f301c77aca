---------------------------- MODULE MCTargetRepair ----------------------------
(* Instances of TargetRepair for TLC; the bounds are in the configurations.  *)
EXTENDS TargetRepair, TLC
=============================================================================

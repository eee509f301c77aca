------------------------------- MODULE MCRefresh -------------------------------
(* Instances of Refresh for TLC; the bounds are in the configurations.       *)
EXTENDS Refresh, TLC
=============================================================================

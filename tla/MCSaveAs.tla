------------------------------- MODULE MCSaveAs -------------------------------
(* Instances of SaveAs for TLC; the bounds are in the configurations.        *)
EXTENDS SaveAs, TLC
=============================================================================

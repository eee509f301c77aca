----------------------------- MODULE MCFileLock -----------------------------
(* Instances of FileLock for TLC: three processes, each of which may end at  *)
(* any point.                                                                *)
EXTENDS FileLock
=============================================================================

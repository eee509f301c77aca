------------------------------ MODULE MCPipeline ------------------------------
(* A case that can be converted and one whose V4 format is not supported.     *)
EXTENDS Pipeline, TLC

Unversioned == [ver |-> Absent, ntype |-> 1, editors |-> {}]
MCSources ==
  {[metadata |-> Unversioned, work |-> {{"v4EventTree"}, {"formulaObjects"}}],
   [metadata |-> Unversioned, work |-> {{"v4EventTree"}, {"legacyEventOn"}}]}

Interchangeable == Permutations(Commands) \cup Permutations(Jobs)
=============================================================================

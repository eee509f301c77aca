------------------------------ MODULE MCReleases ------------------------------
(***************************************************************************)
(* Two versions of every runtime, the newer ones fitting each other and     *)
(* only some of the older ones, so that single updates, in some orders, are *)
(* refused.  The launcher brings a newer Workflow, which the older Converter *)
(* does not fit; the Knowledge channel can be left out of the configuration. *)
(***************************************************************************)
EXTENDS Releases, TLC

CONSTANTS p1, p2, none

MCCommands == {p1, p2}
Interchangeable == Permutations(MCCommands)
MCVersions == {1, 2}
NoKnowledgeChannel == Kinds \ {"knowledge"}

MCAccepts ==
  [release \in Kinds \X MCVersions |->
     [kind \in Kinds |->
        CASE release = <<"workflow", 2>> /\ kind = "converter" -> {2}
          [] release = <<"converter", 1>> /\ kind = "workflow" -> {1}
          [] release = <<"knowledge", 1>> /\ kind = "workflow" -> {1}
          [] release = <<"knowledge", 2>> /\ kind = "converter" -> {2}
          [] OTHER -> {1, 2}]]

First == [latest |-> 1, minimum |-> 1, revoked |-> {}, retained |-> {1}]
Second == [latest |-> 2, minimum |-> 1, revoked |-> {}, retained |-> {1, 2}]
Revoking == [latest |-> 2, minimum |-> 1, revoked |-> {1}, retained |-> {1, 2}]
MCChannel ==
  [kind \in Kinds |-> IF kind = "knowledge" THEN <<First, Second, Revoking>> ELSE <<First, Second>>]
=============================================================================

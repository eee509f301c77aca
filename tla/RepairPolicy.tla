------------------------------ MODULE RepairPolicy ------------------------------
(***************************************************************************)
(* What a diagnosis decides about the automatic repair of an Issue Cluster, *)
(* the contract this decision has to satisfy to be written down, and the    *)
(* rule by which a repair proposal is accepted, which looks at the budget   *)
(* itself and not at the decision.  Sources:                                *)
(* src/src/diagnosis/diagnosis-engine.js, src/src/contracts/schema-v2.js,   *)
(* src/src/repair/repair-engine.js and src/src/reviews/review-store.js.     *)
(*                                                                          *)
(* A budget record is [status, initial, extension]: its status and the      *)
(* attempts used.  The contract ties the repair target to the cause, so a   *)
(* cluster is its cause and whether its least confidence reaches 0.85.      *)
(***************************************************************************)
EXTENDS Integers

(* createBudget: attempts.automaticLimit and attempts.extensionLimit.        *)
AutomaticLimit == 3
ExtensionLimit == 2

Causes ==
  {"CONVERTER", "SOURCE_DATA", "TARGET_CASE", "TEST_HARNESS", "ENVIRONMENT_CONFIGURATION",
   "PLATFORM_RUNTIME", "KNOWLEDGE_GAP", "AUTHORIZATION", "FLAKY_RUNTIME", "UNKNOWN"}
Repairable == {"SOURCE_DATA", "TARGET_CASE"}     \* their repair target is V5_ARTIFACT
Elsewhere == {"TEST_HARNESS", "ENVIRONMENT_CONFIGURATION"}

NewBudget == [status |-> "ACTIVE", initial |-> 0, extension |-> 0]
Budget ==
  [status : {"ACTIVE", "PAUSED", "EXHAUSTED", "FROZEN"},
   initial : 0 .. AutomaticLimit, extension : 0 .. ExtensionLimit]

-----------------------------------------------------------------------------
(* createAutomaticDecision                                                   *)
Exhausted(b) ==
  b.status = "EXHAUSTED" \/ (b.initial = AutomaticLimit /\ b.extension = ExtensionLimit)
Frozen(b) == b.status = "FROZEN"
ExtensionRequired(b) ==
  b.status = "PAUSED" \/ (b.initial = AutomaticLimit /\ b.extension < ExtensionLimit)

Decision(cause, confident, b) ==
  IF Exhausted(b) \/ Frozen(b) THEN "AUTO_REPAIR_STOPPED"
  ELSE IF cause \in Repairable
    THEN IF confident /\ ~ExtensionRequired(b) THEN "AUTO_REPAIR_ALLOWED"
                                               ELSE "AUTO_REPAIR_PAUSED"
  ELSE IF cause \in Elsewhere THEN "AUTO_REPAIR_PAUSED" ELSE "AUTO_REPAIR_STOPPED"

BudgetState(cause, confident, b) ==
  IF Exhausted(b) THEN "EXHAUSTED"
  ELSE IF Frozen(b) THEN "FROZEN"
  ELSE IF ExtensionRequired(b) THEN "PAUSED"
  ELSE IF Decision(cause, confident, b) = "AUTO_REPAIR_ALLOWED" THEN "AVAILABLE"
  ELSE "FROZEN"

RemainingAttempts(cause, confident, b) ==
  IF Decision(cause, confident, b) = "AUTO_REPAIR_ALLOWED" THEN AutomaticLimit - b.initial
  ELSE IF ExtensionRequired(b) THEN ExtensionLimit - b.extension
  ELSE 0

(* validateAutomaticRepairDecision does not throw.                           *)
DecisionIsValid(cause, confident, b) ==
  /\ Decision(cause, confident, b) = "AUTO_REPAIR_ALLOWED" =>
       /\ cause \in Repairable
       /\ BudgetState(cause, confident, b) = "AVAILABLE"
       /\ RemainingAttempts(cause, confident, b) >= 1
  /\ Decision(cause, confident, b) = "AUTO_REPAIR_STOPPED" =>
       BudgetState(cause, confident, b) \in {"FROZEN", "EXHAUSTED"}
  /\ BudgetState(cause, confident, b) = "EXHAUSTED" =>
       RemainingAttempts(cause, confident, b) = 0

-----------------------------------------------------------------------------
(* assertRepairableCluster, and what submitRepairProposal asks of a budget   *)
(* under an authorization of this scope.                                     *)
ProposalAccepted(scope, cause, confident, b) ==
  /\ cause \in Repairable /\ confident
  /\ IF scope = "INITIAL" THEN b.initial < AutomaticLimit
                          ELSE b.initial >= AutomaticLimit /\ b.extension < ExtensionLimit

(* submitRepairProposal: the budget after an attempt; `stopped` if the       *)
(* candidate had a stop reason.                                              *)
AfterAttempt(scope, stopped, b) ==
  LET initial == IF scope = "INITIAL" THEN b.initial + 1 ELSE b.initial
      extension == IF scope = "INITIAL" THEN b.extension ELSE b.extension + 1
  IN [initial |-> initial, extension |-> extension,
      status |->
        IF stopped THEN "FROZEN"
        ELSE IF extension >= ExtensionLimit THEN "EXHAUSTED"
        ELSE IF initial >= AutomaticLimit /\ scope = "INITIAL" THEN "PAUSED"
        ELSE "ACTIVE"]

(* authorizeTargetRepair of an extension                                     *)
ExtensionAccepted(b) ==
  ~Frozen(b) /\ b.initial >= AutomaticLimit /\ b.extension < ExtensionLimit
AfterExtension(b) == [b EXCEPT !.status = "ACTIVE"]

-----------------------------------------------------------------------------
(* What the budget of a cluster always is: the extension is used after the   *)
(* initial attempts, and the status says no more than the attempts do.       *)
Consistent(b) ==
  /\ b \in Budget
  /\ b.extension > 0 => b.initial = AutomaticLimit
  /\ b.status = "PAUSED" => b.initial = AutomaticLimit /\ b.extension < ExtensionLimit
  /\ b.status = "EXHAUSTED" => b.extension = ExtensionLimit

(* The diagnosis that cannot be written down: the initial attempts are used  *)
(* up and the cause turns out to be none the workflow can do anything about. *)
Unrecordable(cause, b) ==
  /\ cause \notin Repairable \cup Elsewhere
  /\ ~Frozen(b) /\ b.initial = AutomaticLimit /\ b.extension < ExtensionLimit
=================================================================================

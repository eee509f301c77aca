-------------------------- MODULE IssueClassification --------------------------
(***************************************************************************)
(* The two formats in which an agent classifies the issues of a Job, the    *)
(* migration from the first to the second, and what the command line reads  *)
(* from either when it decides whether a Job is repaired:                   *)
(* src/src/contracts/compatibility.js, the classification part of           *)
(* src/src/contracts/schema-v2.js and `job classify` of src/src/cli.js.     *)
(*                                                                          *)
(* A classification is a list of issues (a function from indices) and a     *)
(* report a set of their ids.  Confidences, reasons and evidence are        *)
(* well-formed.                                                             *)
(***************************************************************************)
EXTENDS RepairPolicy

CONSTANTS
  Ids,         \* issue ids, not all of them
  WellFormed,  \*   of which are short enough, and plain enough, for the second format
  Inherited,   \* names that any JavaScript object answers to, like `toString`
  NoBucket     \* diagnosticOwnerBucket: null

(* LEGACY_OWNER_MAP: cause, responsible party and repair target of an owner; *)
(* and the owners whose look-up in it finds something.                       *)
LegacyMap ==
  [CONVERTER |-> <<"CONVERTER", "CONVERTER_MAINTAINER", "NONE">>,
   SOURCE |-> <<"SOURCE_DATA", "WORKFLOW_AI", "V5_ARTIFACT">>,
   PLATFORM |-> <<"PLATFORM_RUNTIME", "PLATFORM_MAINTAINER", "NONE">>,
   AUTHORIZATION |-> <<"AUTHORIZATION", "USER", "AUTHORIZATION_PREREQUISITE">>,
   UNKNOWN |-> <<"UNKNOWN", "UNKNOWN", "NONE">>]
Owners == {"CONVERTER", "SOURCE", "PLATFORM", "AUTHORIZATION", "UNKNOWN"}
OwnerAccepted(owner) == owner \in Owners \cup Inherited

(* CAUSE_DEFAULTS: who is responsible for a cause, and what is repaired.     *)
Responsible ==
  [CONVERTER |-> "CONVERTER_MAINTAINER", SOURCE_DATA |-> "WORKFLOW_AI",
   TARGET_CASE |-> "WORKFLOW_AI", TEST_HARNESS |-> "WORKFLOW_AI",
   ENVIRONMENT_CONFIGURATION |-> "USER", PLATFORM_RUNTIME |-> "PLATFORM_MAINTAINER",
   KNOWLEDGE_GAP |-> "KNOWLEDGE_MAINTAINER", AUTHORIZATION |-> "USER",
   FLAKY_RUNTIME |-> "UNKNOWN", UNKNOWN |-> "UNKNOWN"]
Repaired ==
  [cause \in Causes |->
     CASE cause \in Repairable -> "V5_ARTIFACT"
       [] cause = "TEST_HARNESS" -> "RUNTIME_SCENARIO"
       [] cause = "ENVIRONMENT_CONFIGURATION" -> "ENVIRONMENT_BINDING"
       [] cause = "KNOWLEDGE_GAP" -> "KNOWLEDGE_RULE"
       [] cause = "AUTHORIZATION" -> "AUTHORIZATION_PREREQUISITE"
       [] OTHER -> "NONE"]

(* Each issue of the report is classified once, and nothing else is.         *)
ClassifiesAll(issues, report) ==
  /\ \A i, j \in DOMAIN issues : issues[i].id = issues[j].id => i = j
  /\ {issues[i].id : i \in DOMAIN issues} = report

-----------------------------------------------------------------------------
(* The first format: [id, owner, repairAllowed].                             *)
LegacyIssues == [id : Ids, owner : Owners \cup Inherited, repairAllowed : BOOLEAN]

(* validateIssueClassificationV1 does not throw.                             *)
LegacyAccepted(issues, report) ==
  /\ \A i \in DOMAIN issues :
       /\ OwnerAccepted(issues[i].owner)
       /\ issues[i].owner = "CONVERTER" => ~issues[i].repairAllowed
  /\ ClassifiesAll(issues, report)

(* issueCause and issueAutoRepairAllowed of the first format                 *)
LegacyIssueCause(issue) ==
  IF issue.owner = "SOURCE"
    THEN IF issue.repairAllowed THEN "SOURCE_DATA" ELSE "UNKNOWN"
  ELSE IF issue.owner = "PLATFORM" THEN "PLATFORM_RUNTIME"
  ELSE issue.owner
LegacyAutoRepair(issue) == issue.owner = "SOURCE" /\ issue.repairAllowed

-----------------------------------------------------------------------------
(* The second format: validateClassificationIssue.                           *)
IssueAccepted(issue) ==
  /\ issue.id \in WellFormed
  /\ issue.cause \in Causes
  /\ issue.responsibleParty = Responsible[issue.cause]
  /\ issue.repairTarget = Repaired[issue.cause]
  /\ issue.autoRepairAllowed =>
       issue.cause \in Repairable /\ issue.responsibleParty = "WORKFLOW_AI"

(* validateIssueClassificationV2 does not throw.                             *)
Accepted(issues, report) ==
  /\ \A i \in DOMAIN issues : IssueAccepted(issues[i])
  /\ ClassifiesAll(issues, report)

(* migrateIssueClassificationV1ToV2: a source issue nobody may repair is not *)
(* known to be one.                                                          *)
MigratedRow(issue) ==
  IF issue.owner = "SOURCE" /\ ~issue.repairAllowed
    THEN LegacyMap["UNKNOWN"] ELSE LegacyMap[issue.owner]
MigratedIssue(issue) ==
  LET row == MigratedRow(issue)
  IN [id |-> issue.id, cause |-> row[1], responsibleParty |-> row[2], repairTarget |-> row[3],
      autoRepairAllowed |-> issue.owner = "SOURCE" /\ issue.repairAllowed]
Migrated(issues) == [i \in DOMAIN issues |-> MigratedIssue(issues[i])]

-----------------------------------------------------------------------------
(* diagnosticOwnerBucket of a cause: what a diagnostic copy counts it under. *)
Bucket(cause) ==
  CASE cause = "CONVERTER" -> "CONVERTER"
    [] cause \in Repairable -> "SOURCE"
    [] cause = "TEST_HARNESS" -> "TEST_HARNESS"
    [] cause = "ENVIRONMENT_CONFIGURATION" -> "ENVIRONMENT"
    [] cause = "PLATFORM_RUNTIME" -> "PLATFORM"
    [] cause = "KNOWLEDGE_GAP" -> "KNOWLEDGE"
    [] cause \in {"AUTHORIZATION", "FLAKY_RUNTIME", "UNKNOWN"} -> cause
    [] OTHER -> NoBucket

(* `job classify`: the status of the Job, from the cause of each issue and   *)
(* whether it may be repaired automatically.                                 *)
Classified(causes, auto) ==
  IF \E i \in DOMAIN causes : causes[i] = "CONVERTER" THEN "BLOCKED_CONVERTER_DEFECT"
  ELSE IF DOMAIN causes # {} /\ \A i \in DOMAIN auto : auto[i] THEN "AI_REPAIR_REQUIRED"
  ELSE "NEEDS_REVIEW"

LegacyStatus(issues) ==
  Classified([i \in DOMAIN issues |-> LegacyIssueCause(issues[i])],
             [i \in DOMAIN issues |-> LegacyAutoRepair(issues[i])])
Status(issues) ==
  Classified([i \in DOMAIN issues |-> issues[i].cause],
             [i \in DOMAIN issues |-> issues[i].autoRepairAllowed])

(* The names inherited from Object are neither owners nor causes, and null   *)
(* is no bucket.                                                             *)
NamesOK ==
  /\ Inherited \cap (Owners \cup Causes) = {}
  /\ NoBucket \notin Causes \cup {"SOURCE", "ENVIRONMENT", "PLATFORM", "KNOWLEDGE"}
================================================================================

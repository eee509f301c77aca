------------------------------ MODULE TargetRepair ------------------------------
(***************************************************************************)
(* The repair of a V5 target by one WRITE Review: a diagnosis, a proposal   *)
(* that becomes a Repair Batch, the write of the batch under compare and    *)
(* read back, its reconciliation, and the runtime cycle or Agent Native     *)
(* observation that closes it.  Sources:                                    *)
(* src/src/reviews/review-store.js, src/src/reviews/states.js,              *)
(* src/src/repair/target-update-orchestrator.js and                         *)
(* src/src/runtime/review-runner.js.                                        *)
(*                                                                          *)
(* Every store operation runs under the registry lock, which excludes the   *)
(* others, and writes its files one by one, state.json last: it is one      *)
(* action that may die, or throw on a late assertion, before state.json.    *)
(* Processes that wait in between (a write or reconcile, the driver of a    *)
(* cycle) interleave with all of them.                                      *)
(*                                                                          *)
(* A workId is a number and names one content for ever: 0 for the content   *)
(* the Review was opened on, b for the candidate of batch b, Other for what *)
(* somebody else saved.  The environments are equivalent, one Issue Cluster *)
(* is diagnosed, and authorizations do not expire.                          *)
(***************************************************************************)
EXTENDS Naturals, Sequences, FiniteSets

CONSTANTS
  Other,            \* the content of a revision this Review did not write
  NoRead,           \* nothing was read, or the read failed
  AttemptLimit,     \* automaticLimit of the cluster budget (3 in the code)
  AttemptExtension, \* its extensionLimit (2)
  BaseLimit,        \* baseLimit of the session budget (10)
  RevisionExtension,\* its extensionLimit (5)
  MaxKills,         \* bound: processes killed
  MaxFaults,        \* bound: platform calls that fail, locks found held
  MaxEdits          \* bound: revisions saved by others

ASSUME LimitAssumption ==
  /\ AttemptLimit \in Nat /\ AttemptExtension \in Nat
  /\ BaseLimit \in Nat /\ RevisionExtension \in Nat
ASSUME BoundAssumption == MaxKills \in Nat /\ MaxFaults \in Nat /\ MaxEdits \in Nat

Batches == 1 .. AttemptLimit + AttemptExtension   \* a batch is an attempt that passed
Contents == {0, Other} \cup Batches

ASSUME ValueAssumption == Other \notin Nat /\ NoRead \notin Nat

VARIABLES
  review,       \* state.json: status, baseline.targetWorkId, activeCycleId # null,
                \*   whether an Issue Cluster is linked
  batch,        \* the Repair Batch files: state, expectedTarget, authorization scope
  attempts,     \* cluster budget: attempts used
  frozen,       \* its status is FROZEN
  revisions,    \* session budget: target revisions counted
  granted,      \* scopes of the repair authorizations
  checkpoints,  \* workIds with a CONFIRMED_TARGET_REVISION checkpoint
  environment,  \* target workId of the latest environment comparison, 0 if none
  writer,       \* the run or reconcile that holds the target write lease
  cycle,        \* the driver of a runtime cycle, and the active cycle's cycle.json
  wire,         \* what has become of each batch's request
  works,        \* platform: content of each revision of the target
  spent,        \* how much of each bound is used
  sends         \* how often each batch was sent, for the properties only

vars == <<review, batch, attempts, frozen, revisions, granted, checkpoints, environment,
          writer, cycle, wire, works, spent, sends>>
budgets == <<attempts, frozen, granted>>
platform == <<wire, works, sends>>

-----------------------------------------------------------------------------
(* The part of REVIEW_TRANSITIONS that equivalent environments reach.        *)
Native == {"AGENT_NATIVE_EQUIVALENCE_OBSERVED", "AGENT_NATIVE_MISMATCH_OBSERVED"}
Terminal == {"RUNTIME_PARITY_PASSED"}

Transitions ==
  [REVIEW_OPEN |-> {"ENVIRONMENT_PREFLIGHT", "RUNTIME_NOT_TESTED"},
   RUNTIME_NOT_TESTED |-> {"ENVIRONMENT_PREFLIGHT"},
   ENVIRONMENT_PREFLIGHT |-> {"RUNTIME_TESTING"},
   RUNTIME_TESTING |->
     {"RUNTIME_PARITY_PASSED", "MISMATCH_DETECTED", "RUNTIME_NOT_TESTED",
      "BLOCKED_PLATFORM_RUNTIME"},
   MISMATCH_DETECTED |-> {"DIAGNOSING"},
   DIAGNOSING |->
     {"REPAIR_PROPOSED", "AUTO_REPAIR_STOPPED", "BLOCKED_PLATFORM_RUNTIME"},
   REPAIR_PROPOSED |-> {"LOCAL_VALIDATING", "DIAGNOSING"},
   AUTO_REPAIR_STOPPED |-> {"AWAITING_HUMAN_EVIDENCE", "DIAGNOSING"},
   AWAITING_HUMAN_EVIDENCE |-> {"DIAGNOSING"},
   LOCAL_VALIDATING |-> {"READY_TO_UPDATE_TARGET", "DIAGNOSING"},
   READY_TO_UPDATE_TARGET |-> {"TARGET_UPDATED", "BLOCKED_PLATFORM_RUNTIME"},
   TARGET_UPDATED |-> {"RUNTIME_RETESTING"},
   TARGET_EXTERNALLY_MODIFIED |-> {"LOCAL_VALIDATING"},
   RUNTIME_RETESTING |->
     {"RUNTIME_PARITY_PASSED", "MISMATCH_DETECTED", "RUNTIME_NOT_TESTED",
      "TARGET_UPDATED", "BLOCKED_PLATFORM_RUNTIME"},
   BLOCKED_PLATFORM_RUNTIME |->
     {"DIAGNOSING", "RUNTIME_TESTING", "TARGET_UPDATED", "AWAITING_HUMAN_EVIDENCE"},
   AGENT_NATIVE_EQUIVALENCE_OBSERVED |-> {"DIAGNOSING"},
   AGENT_NATIVE_MISMATCH_OBSERVED |-> {"DIAGNOSING"}]

Statuses == Terminal \cup DOMAIN Transitions

(* assertReviewTransition(from, to) does not throw; every state but          *)
(* TARGET_EXTERNALLY_MODIFIED itself may become it.                          *)
Allowed(from, to) ==
  /\ from \notin Terminal
  /\ \/ to \in Native
     \/ to = "TARGET_EXTERNALLY_MODIFIED" /\ from # to
     \/ to \in Transitions[from]

(* Where a setStatus of the same status replaces the transition.             *)
AllowedOrSame(to) == review.status = to \/ Allowed(review.status, to)

BatchStates ==
  {"NONE", "LOCAL_VALIDATED", "WRITE_REQUESTED", "WRITE_OUTCOME_UNKNOWN",
   "RECONCILIATION_REQUIRED", "WRITE_REJECTED", "READBACK_VERIFIED",
   "RUNTIME_TESTING", "RUNTIME_VERIFIED", "RUNTIME_FAILED"}
Verified == {"READBACK_VERIFIED", "RUNTIME_TESTING", "RUNTIME_VERIFIED", "RUNTIME_FAILED"}

Scopes == {"INITIAL", "EXTENSION"}
Outcomes == {"ok", "rejected", "unknown"}
WriterSteps ==
  {"idle", "preflight", "reset", "send", "answer", "confirm", "uncertain",
   "reject", "reconcile"} \cup Outcomes
Wires == {"idle", "flying", "landed", "rejected", "lost"}
CycleFiles == {"none", "RUNNING", "COMPLETED", "INTERRUPTED"}

Latest == Len(works)
InState(b, states) == batch[b].state \in states
BatchIn(state) == {b \in Batches : batch[b].state = state}
Highest(set) == CHOOSE b \in set : \A other \in set : other <= b

(* RuntimeReviewStore.create has opened the Review on revision 1.            *)
Init ==
  /\ review = [status |-> "REVIEW_OPEN", baseline |-> 1, active |-> FALSE,
               diagnosed |-> FALSE]
  /\ batch = [b \in Batches |-> [state |-> "NONE", base |-> 0, scope |-> "INITIAL"]]
  /\ attempts = 0 /\ frozen = FALSE /\ revisions = 0 /\ granted = {}
  /\ checkpoints = {1}
  /\ environment = 0
  /\ writer = [pc |-> "idle", batch |-> 0, read |-> NoRead]
  /\ cycle = [pc |-> "idle", file |-> "none"]
  /\ wire = [b \in Batches |-> "idle"]
  /\ works = <<0>>
  /\ spent = [kills |-> 0, faults |-> 0, edits |-> 0]
  /\ sends = [b \in Batches |-> 0]

-----------------------------------------------------------------------------
Quiet == UNCHANGED spent
KillHappens == spent.kills < MaxKills /\ spent' = [spent EXCEPT !.kills = @ + 1]
FaultHappens == spent.faults < MaxFaults /\ spent' = [spent EXCEPT !.faults = @ + 1]
EditHappens == spent.edits < MaxEdits /\ spent' = [spent EXCEPT !.edits = @ + 1]

SetBatch(b, state) == batch' = [batch EXCEPT ![b].state = state]
StatusSet(status) == [review EXCEPT !.status = status]

(* The end of #mutate: the assertions that follow the artifact writes, and   *)
(* state.json.  A throw or a kill leaves the artifacts without it.           *)
SaveState(asserted, state) ==
  \/ /\ review' = IF asserted THEN state ELSE review
     /\ Quiet
  \/ KillHappens /\ UNCHANGED review

(* readJson of a session budget over its limit fails its validation.         *)
BudgetReadable == revisions <= BaseLimit + RevisionExtension

-----------------------------------------------------------------------------
(* submitDiagnosis, of evidence that some cycle or observation left.         *)
Diagnosable ==
  {"MISMATCH_DETECTED", "AGENT_NATIVE_MISMATCH_OBSERVED", "BLOCKED_PLATFORM_RUNTIME"}

SubmitDiagnosis ==
  /\ review.status \in Diagnosable
  /\ BudgetReadable
  /\ review' = [StatusSet("DIAGNOSING") EXCEPT !.diagnosed = TRUE]
  /\ Quiet
  /\ UNCHANGED <<batch, budgets, revisions, checkpoints, environment,
                 writer, cycle, platform>>

(* submitHumanFinding, through AWAITING_HUMAN_EVIDENCE.                      *)
SubmitHumanFinding ==
  /\ review.status = "AUTO_REPAIR_STOPPED"
  /\ review' = StatusSet("DIAGNOSING")
  /\ Quiet
  /\ UNCHANGED <<batch, budgets, revisions, checkpoints, environment,
                 writer, cycle, platform>>

(* authorizeTargetRepair: an extension lets the validated batches use it     *)
(* once the base allowance of revisions is gone, and resumes the diagnosis.  *)
AuthorizeTargetRepair(scope) ==
  /\ review.diagnosed /\ ~frozen
  /\ scope = "EXTENSION" => attempts \in AttemptLimit .. AttemptLimit + AttemptExtension - 1
  /\ granted' = granted \cup {scope}
  /\ batch' = IF scope = "EXTENSION" /\ BudgetReadable /\ revisions >= BaseLimit
                THEN [b \in Batches |-> IF batch[b].state = "LOCAL_VALIDATED"
                                          THEN [batch[b] EXCEPT !.scope = scope]
                                          ELSE batch[b]]
                ELSE batch
  /\ SaveState(/\ scope = "EXTENSION" /\ BudgetReadable
               /\ review.status = "AUTO_REPAIR_STOPPED", StatusSet("DIAGNOSING"))
  /\ UNCHANGED <<attempts, frozen, revisions, checkpoints, environment,
                 writer, cycle, platform>>

(* recordEnvironmentEvaluation                                               *)
RecordEnvironment ==
  /\ environment # review.baseline
  /\ environment' = review.baseline
  /\ Quiet
  /\ UNCHANGED <<review, batch, budgets, revisions, checkpoints,
                 writer, cycle, platform>>

(* submitRepairProposal: the attempt is counted whether or not the candidate *)
(* passes; a batch is written if it does.                                    *)
ScopeOfAttempt == IF attempts < AttemptLimit THEN "INITIAL" ELSE "EXTENSION"
EnvironmentCurrent == environment = review.baseline
BudgetActive(used) == used # AttemptLimit /\ used < AttemptLimit + AttemptExtension

(* Mutant: the extension of the cluster budget has no end.                   *)
ProposableForEver ==
  /\ review.status = "DIAGNOSING"
  /\ EnvironmentCurrent
  /\ ScopeOfAttempt \in granted

Proposable ==
  /\ review.status = "DIAGNOSING"
  /\ EnvironmentCurrent
  /\ attempts < AttemptLimit + AttemptExtension
  /\ ScopeOfAttempt \in granted
HasConfirmedCheckpoint == review.baseline \in checkpoints

ProposalPasses ==
  /\ batch' = [batch EXCEPT ![attempts + 1] =
                 [state |-> "LOCAL_VALIDATED", base |-> review.baseline,
                  scope |-> ScopeOfAttempt]]
  /\ frozen' = FALSE
  /\ SaveState(TRUE, StatusSet("READY_TO_UPDATE_TARGET"))

(* With a stop reason, which freezes the cluster budget, or without.         *)
ProposalFails ==
  /\ UNCHANGED batch
  /\ frozen' \in BOOLEAN
  /\ SaveState(TRUE, StatusSet(IF frozen' \/ ~BudgetActive(attempts + 1)
                                THEN "AUTO_REPAIR_STOPPED" ELSE "DIAGNOSING"))

SubmitRepairProposal ==
  /\ Proposable /\ HasConfirmedCheckpoint
  /\ attempts' = attempts + 1
  /\ ProposalPasses \/ ProposalFails
  /\ UNCHANGED <<granted, revisions, checkpoints, environment,
                 writer, cycle, platform>>

-----------------------------------------------------------------------------
(* Agent Native testing holds no lease; its observation is recorded in any   *)
(* state that is not terminal, and may close a verified batch b (0: none).   *)
(* INCONCLUSIVE differs from MISMATCH in no guard.                           *)
NativeBatchState(status) ==
  IF status = "AGENT_NATIVE_EQUIVALENCE_OBSERVED" THEN "RUNTIME_VERIFIED" ELSE "RUNTIME_FAILED"
(* Mutant: a batch whose write is still out may be closed.                   *)
BatchMayCloseEarly(b, to) == InState(b, {"WRITE_REQUESTED", "READBACK_VERIFIED", to})

BatchMayClose(b, to) == InState(b, {"READBACK_VERIFIED", to})

RecordNativeObservation(status, b) ==
  /\ AllowedOrSame(status)
  /\ IF b = 0
       THEN UNCHANGED batch
       ELSE /\ BatchMayClose(b, NativeBatchState(status))
            /\ SetBatch(b, NativeBatchState(status))
  /\ SaveState(TRUE, StatusSet(status))
  /\ UNCHANGED <<budgets, revisions, checkpoints, environment,
                 writer, cycle, platform>>

(* observeTargetRevision of a revision that observe-platform-revision has     *)
(* read at some earlier time, or that observe-revision names.                *)
Observable == 1 .. Latest \ {review.baseline}

ObserveTargetRevision ==
  /\ Observable # {}
  /\ review.status \notin Terminal
  /\ SaveState(TRUE, StatusSet("TARGET_EXTERNALLY_MODIFIED"))
  /\ UNCHANGED <<batch, budgets, revisions, checkpoints, environment, writer, cycle,
                 platform>>

(* acceptExternalRevision, with the USER finding that names the revision.    *)
(* The observation it needs, of any of these revisions against the current   *)
(* baseline, can be recorded in this state: observations are not kept.       *)
AcceptExternalRevision(work) ==
  /\ review.status = "TARGET_EXTERNALLY_MODIFIED"
  /\ work \in Observable
  /\ review' = [StatusSet("LOCAL_VALIDATING") EXCEPT !.baseline = work]
  /\ Quiet
  /\ UNCHANGED <<batch, budgets, revisions, checkpoints, environment, writer, cycle,
                 platform>>

-----------------------------------------------------------------------------
(* TargetUpdateOrchestrator.  A step of the writer leaves these alone:       *)
WriterFrame ==
  UNCHANGED <<budgets, environment, cycle>>
Untouched == UNCHANGED <<review, batch, revisions, checkpoints>>

Idle == [pc |-> "idle", batch |-> 0, read |-> NoRead]
Goto(step) == writer' = [writer EXCEPT !.pc = step]
Decided(step, read) == writer' = [writer EXCEPT !.pc = step, !.read = read]
Target == batch[writer.batch].base           \* batch.expectedTarget

ShowsCandidate(work) == work # NoRead /\ works[work] = writer.batch /\ work # Target

(* A store operation finds the registry or review lock held, and throws.     *)
FoundLocked == FaultHappens /\ writer' = Idle /\ Untouched

(* run: the leases, then prepareTargetRepairWrite.                           *)
RevisionAvailable(scope) ==
  revisions >= BaseLimit =>
    scope = "EXTENSION" /\ revisions < BaseLimit + RevisionExtension

StartRun(b) ==
  /\ writer.pc = "idle"
  /\ review.status = "READY_TO_UPDATE_TARGET"
  /\ InState(b, {"LOCAL_VALIDATED"})
  /\ batch[b].base = review.baseline
  /\ EnvironmentCurrent
  /\ BudgetReadable /\ RevisionAvailable(batch[b].scope)
  /\ SetBatch(b, "WRITE_REQUESTED")
  /\ writer' = [pc |-> "preflight", batch |-> b, read |-> NoRead]
  /\ Quiet
  /\ UNCHANGED <<review, revisions, checkpoints, platform>> /\ WriterFrame

Preflight ==
  /\ writer.pc = "preflight"
  /\ \/ IF Latest = Target THEN Goto("send") /\ Quiet ELSE Decided("uncertain", Latest) /\ Quiet
     \/ FaultHappens /\ Goto("reset")
  /\ Untouched /\ UNCHANGED platform /\ WriterFrame

ResetPreflight ==
  /\ writer.pc = "reset"
  /\ \/ /\ SetBatch(writer.batch, "LOCAL_VALIDATED")
        /\ writer' = Idle
        /\ Quiet
        /\ UNCHANGED <<review, revisions, checkpoints>>
     \/ FoundLocked
  /\ UNCHANGED platform /\ WriterFrame

SaveWork ==
  /\ writer.pc = "send"
  /\ wire' = [wire EXCEPT ![writer.batch] = "flying"]
  /\ sends' = [sends EXCEPT ![writer.batch] = @ + 1]
  /\ Goto("answer")
  /\ Quiet
  /\ Untouched /\ UNCHANGED works /\ WriterFrame

(* The response, or an error that leaves the outcome unknown.                *)
Answer ==
  /\ writer.pc = "answer"
  /\ \/ wire[writer.batch] = "landed" /\ Goto("ok") /\ Quiet
     \/ wire[writer.batch] = "rejected" /\ Goto("rejected") /\ Quiet
     \/ wire[writer.batch] = "lost" /\ Goto("unknown") /\ Quiet
     \/ FaultHappens /\ Goto("unknown")
  /\ Untouched /\ UNCHANGED platform /\ WriterFrame

(* Mutant: a baseline that is still there passes for a rejection.            *)
JudgeByBaseline(answer, work) ==
  IF ShowsCandidate(work) THEN "confirm"
  ELSE IF answer # "ok" /\ work \in {NoRead, Target} THEN "reject"
  ELSE "uncertain"

(* #readTarget after the request; a read that fails shows nothing.           *)
Judge(answer, work) ==
  IF ShowsCandidate(work) THEN "confirm"
  ELSE IF answer = "rejected" /\ work \in {NoRead, Target} THEN "reject"
  ELSE "uncertain"

ReadBack ==
  /\ writer.pc \in Outcomes
  /\ \/ Decided(Judge(writer.pc, Latest), Latest) /\ Quiet
     \/ FaultHappens /\ Decided(Judge(writer.pc, NoRead), NoRead)
  /\ Untouched /\ UNCHANGED platform /\ WriterFrame

(* reconcile                                                                 *)
Reconcilable == {"WRITE_OUTCOME_UNKNOWN"}

StartReconcile(b) ==
  /\ writer.pc = "idle"
  /\ InState(b, Reconcilable)
  /\ writer' = [pc |-> "reconcile", batch |-> b, read |-> NoRead]
  /\ Quiet
  /\ Untouched /\ UNCHANGED platform /\ WriterFrame

ReconcileRead ==
  /\ writer.pc = "reconcile"
  /\ \/ Decided(IF ShowsCandidate(Latest) THEN "confirm" ELSE "uncertain", Latest) /\ Quiet
     \/ FaultHappens /\ writer' = Idle
  /\ Untouched /\ UNCHANGED platform /\ WriterFrame

(* confirmTargetRepairWrite writes the session budget, the checkpoint, the   *)
(* batch and state.json.  The name of a checkpoint is a digest without its   *)
(* time, its content has the time: one that exists already is a conflict.    *)
NoConflict == writer.read \notin checkpoints
Confirmable == review.status \in {"BLOCKED_PLATFORM_RUNTIME", "READY_TO_UPDATE_TARGET"}

(* Mutants: the extension is not counted; the baseline stays.                *)
CountBaseOnly == revisions' = IF revisions < BaseLimit THEN revisions + 1 ELSE revisions
OldBaselineReview == StatusSet("TARGET_UPDATED")

CountRevision == revisions' = revisions + 1
ConfirmedReview == [StatusSet("TARGET_UPDATED") EXCEPT !.baseline = writer.read]

Confirm ==
  /\ writer.pc = "confirm"
  /\ writer' = Idle
  /\ \/ ~BudgetReadable /\ Untouched /\ Quiet
     \/ /\ BudgetReadable
        /\ CountRevision
        /\ \/ /\ NoConflict
              /\ checkpoints' = checkpoints \cup {writer.read}
              /\ SetBatch(writer.batch, "READBACK_VERIFIED")
              /\ SaveState(Confirmable, ConfirmedReview)
           \/ /\ NoConflict /\ KillHappens
              /\ checkpoints' \in {checkpoints, checkpoints \cup {writer.read}}
              /\ UNCHANGED <<batch, review>>
           \/ ~NoConflict /\ Quiet /\ UNCHANGED <<checkpoints, batch, review>>
     \/ FoundLocked
  /\ UNCHANGED platform /\ WriterFrame

(* Mutant: whatever was read passes for the baseline.                        *)
TargetStillPresent == writer.read # NoRead

(* markTargetRepairUncertain                                                 *)
BaselineStillPresent == writer.read = Target
UncertainStatus ==
  IF BaselineStillPresent \/ writer.read = NoRead
    THEN "BLOCKED_PLATFORM_RUNTIME" ELSE "TARGET_EXTERNALLY_MODIFIED"

MarkUncertain ==
  /\ writer.pc = "uncertain"
  /\ \/ /\ SetBatch(writer.batch, IF BaselineStillPresent THEN "WRITE_OUTCOME_UNKNOWN"
                                                         ELSE "RECONCILIATION_REQUIRED")
        /\ SaveState(AllowedOrSame(UncertainStatus), StatusSet(UncertainStatus))
        /\ writer' = Idle
        /\ UNCHANGED <<revisions, checkpoints>>
     \/ FoundLocked
  /\ UNCHANGED platform /\ WriterFrame

(* markTargetRepairRejected                                                  *)
MarkRejected ==
  /\ writer.pc = "reject"
  /\ \/ /\ SetBatch(writer.batch, "WRITE_REJECTED")
        /\ SaveState(AllowedOrSame("BLOCKED_PLATFORM_RUNTIME"),
                     StatusSet("BLOCKED_PLATFORM_RUNTIME"))
        /\ writer' = Idle
        /\ UNCHANGED <<revisions, checkpoints>>
     \/ FoundLocked
  /\ UNCHANGED platform /\ WriterFrame

KillWriter ==
  /\ writer.pc # "idle"
  /\ KillHappens
  /\ writer' = Idle
  /\ Untouched /\ UNCHANGED platform /\ WriterFrame

-----------------------------------------------------------------------------
(* RuntimeReviewRunner, under the runtime lease.  A step of it leaves alone: *)
CycleFrame ==
  UNCHANGED <<budgets, revisions, checkpoints, writer, platform>>

(* prepareRuntimeCycle, under the target write lease: cycle.json, the batch  *)
(* that is retested, state.json with activeCycleId.                          *)
Testable == {"REVIEW_OPEN", "RUNTIME_NOT_TESTED", "BLOCKED_PLATFORM_RUNTIME"}
CycleStarted(status) == [StatusSet(status) EXCEPT !.active = TRUE]

(* The driver goes on if state.json was written.                             *)
Drive(state) ==
  \/ review' = state /\ Quiet /\ cycle' = [pc |-> "driving", file |-> "RUNNING"]
  \/ KillHappens /\ UNCHANGED <<review, cycle>>

PrepareRuntimeCycle ==
  /\ cycle.pc = "idle" /\ writer.pc = "idle"
  /\ ~review.active
  /\ environment' = review.baseline
  /\ \/ /\ review.status \in Testable
        /\ UNCHANGED batch
        /\ Drive(CycleStarted("RUNTIME_TESTING"))
     \/ /\ review.status = "TARGET_UPDATED"
        /\ BatchIn("READBACK_VERIFIED") # {}
        /\ SetBatch(Highest(BatchIn("READBACK_VERIFIED")), "RUNTIME_TESTING")
        /\ Drive(CycleStarted("RUNTIME_RETESTING"))
  /\ CycleFrame

(* resumeRuntimeCycle of a READ_ONLY cycle                                   *)
ResumeRuntimeCycle ==
  /\ cycle.pc = "idle" /\ review.active /\ cycle.file = "RUNNING"
  /\ cycle' = [cycle EXCEPT !.pc = "driving"]
  /\ Quiet
  /\ UNCHANGED <<review, batch, environment>> /\ CycleFrame

(* completeRuntimeCycle: cycle.json, the retested batch, state.json.  What   *)
(* it throws is caught, and the cycle interrupted.                           *)
Results == {"RUNTIME_PARITY_PASSED", "MISMATCH_DETECTED", "RUNTIME_NOT_TESTED"}
CycleEnded(status) == [StatusSet(status) EXCEPT !.active = FALSE]
Retesting == review.status = "RUNTIME_RETESTING"
BatchResult(result) ==
  IF result = "RUNTIME_PARITY_PASSED" THEN "RUNTIME_VERIFIED" ELSE "RUNTIME_FAILED"

CloseBatch(closes, state) ==
  IF closes /\ BatchIn("RUNTIME_TESTING") # {}
    THEN SetBatch(Highest(BatchIn("RUNTIME_TESTING")), state)
    ELSE UNCHANGED batch

Completes(result) ==
  /\ Retesting => BatchIn("RUNTIME_TESTING") # {}
  /\ Allowed(review.status, result)

CompleteRuntimeCycle(result) ==
  /\ cycle.pc = "driving" /\ review.active
  /\ \/ /\ CloseBatch(Retesting, BatchResult(result))
        /\ \/ /\ Completes(result)
              /\ review' = CycleEnded(result)
              /\ cycle' = [pc |-> "idle", file |-> "none"]
              /\ Quiet
           \/ /\ ~Completes(result)
              /\ cycle' = [pc |-> "failed", file |-> "COMPLETED"]
              /\ Quiet /\ UNCHANGED review
           \/ /\ KillHappens
              /\ cycle' = [pc |-> "idle", file |-> "COMPLETED"]
              /\ UNCHANGED review
     \/ /\ KillHappens                                      \* after cycle.json
        /\ cycle' = [pc |-> "idle", file |-> "COMPLETED"]
        /\ UNCHANGED <<review, batch>>
  /\ UNCHANGED environment /\ CycleFrame

(* runPair throws, or a lock is found held.                                  *)
DriverFails ==
  /\ cycle.pc = "driving"
  /\ FaultHappens
  /\ cycle' = [cycle EXCEPT !.pc = "failed"]
  /\ UNCHANGED <<review, batch, environment>> /\ CycleFrame

(* interruptRuntimeCycle                                                     *)
InterruptedStatus == IF Retesting THEN "TARGET_UPDATED" ELSE "RUNTIME_NOT_TESTED"

InterruptRuntimeCycle ==
  /\ cycle.pc = "failed" /\ review.active
  /\ \/ /\ CloseBatch(Retesting, "READBACK_VERIFIED")
        /\ \/ /\ Allowed(review.status, InterruptedStatus)
              /\ review' = CycleEnded(InterruptedStatus)
              /\ cycle' = [pc |-> "idle", file |-> "none"]
              /\ Quiet
           \/ /\ (~Allowed(review.status, InterruptedStatus) /\ Quiet) \/ KillHappens
              /\ cycle' = [pc |-> "idle", file |-> "INTERRUPTED"]
              /\ UNCHANGED review
     \/ FaultHappens /\ cycle' = [cycle EXCEPT !.pc = "idle"] /\ UNCHANGED <<review, batch>>
  /\ UNCHANGED environment /\ CycleFrame

KillDriver ==
  /\ cycle.pc # "idle"
  /\ KillHappens
  /\ cycle' = [cycle EXCEPT !.pc = "idle"]
  /\ UNCHANGED <<review, batch, environment>> /\ CycleFrame

-----------------------------------------------------------------------------
(* The platform.  A request takes effect whoever still waits for it, or is   *)
(* stored differently, rejected or lost; others save revisions.              *)
Unseen ==
  UNCHANGED <<review, batch, budgets, revisions, checkpoints, environment,
              writer, cycle, sends>>

Land(b) ==
  /\ wire[b] = "flying"
  /\ wire' = [wire EXCEPT ![b] = "landed"]
  /\ works' = Append(works, b)
  /\ Quiet
  /\ Unseen

Misland(b) ==
  /\ wire[b] = "flying"
  /\ FaultHappens
  /\ \/ wire' = [wire EXCEPT ![b] = "landed"] /\ works' = Append(works, Other)
     \/ \E fate \in {"rejected", "lost"} : wire' = [wire EXCEPT ![b] = fate] /\ UNCHANGED works
  /\ Unseen

EditTarget ==
  /\ EditHappens
  /\ works' = Append(works, Other)
  /\ UNCHANGED wire
  /\ Unseen

-----------------------------------------------------------------------------
Diagnose ==
  \/ SubmitDiagnosis \/ SubmitHumanFinding \/ RecordEnvironment \/ SubmitRepairProposal
  \/ \E scope \in Scopes : AuthorizeTargetRepair(scope)
Observe ==
  \/ ObserveTargetRevision
  \/ \E work \in 1 .. Latest : AcceptExternalRevision(work)
  \/ \E status \in Native, b \in {0} \cup Batches : RecordNativeObservation(status, b)
WriterStep ==
  \/ Preflight \/ ResetPreflight \/ SaveWork \/ Answer \/ ReadBack \/ ReconcileRead
  \/ Confirm \/ MarkUncertain \/ MarkRejected
Driver ==
  \/ PrepareRuntimeCycle \/ ResumeRuntimeCycle \/ DriverFails \/ InterruptRuntimeCycle
  \/ \E result \in Results : CompleteRuntimeCycle(result)
Kill == KillWriter \/ KillDriver
Platform == EditTarget \/ \E b \in Batches : Land(b) \/ Misland(b)

Next ==
  \/ Diagnose \/ Observe \/ WriterStep \/ Driver \/ Kill \/ Platform
  \/ \E b \in Batches : StartRun(b) \/ StartReconcile(b)

Spec == Init /\ [][Next]_vars

(* A started command takes its next step, the platform deals with a request, *)
(* and the operator keeps reconciling a batch whose outcome is unknown,      *)
(* between other commands that hold the lease.  Nothing else is forced.      *)
Fairness ==
  /\ WF_vars(WriterStep)
  /\ \A b \in Batches : SF_vars(StartReconcile(b)) /\ WF_vars(Land(b))

FairSpec == Spec /\ Fairness

-----------------------------------------------------------------------------
TypeOK ==
  /\ review \in [status : Statuses, baseline : 1 .. Latest, active : BOOLEAN,
                 diagnosed : BOOLEAN]
  /\ batch \in [Batches -> [state : BatchStates, base : 0 .. Latest, scope : Scopes]]
  /\ attempts \in 0 .. AttemptLimit + AttemptExtension
  /\ frozen \in BOOLEAN
  /\ revisions \in 0 .. BaseLimit + RevisionExtension + 1
  /\ granted \subseteq Scopes
  /\ checkpoints \subseteq 1 .. Latest
  /\ environment \in 0 .. Latest
  /\ writer \in [pc : WriterSteps, batch : {0} \cup Batches, read : 1 .. Latest \cup {NoRead}]
  /\ cycle \in [pc : {"idle", "driving", "failed"}, file : CycleFiles]
  /\ wire \in [Batches -> Wires]
  /\ works \in Seq(Contents)
  /\ spent \in [kills : 0 .. MaxKills, faults : 0 .. MaxFaults, edits : 0 .. MaxEdits]
  /\ sends \in [Batches -> Nat]

(* Each batch is written at most once, its permit spent before the request   *)
(* leaves; it is recorded as verified, rejected or drifted once, and not as  *)
(* rejected unless the platform rejected it.  A batch in preflight still has *)
(* its permit: resetTargetRepairPreflight gives it back.                     *)
Unsent(b) ==
  /\ sends[b] = 0
  /\ \/ InState(b, {"LOCAL_VALIDATED", "RECONCILIATION_REQUIRED"})
     \/ writer.batch = b /\ writer.pc \in {"preflight", "reset", "uncertain"}
Permit(b) ==
  IF InState(b, {"NONE"}) THEN "none" ELSE IF Unsent(b) THEN "granted" ELSE "spent"

Fate(b) ==
  CASE wire[b] = "idle" -> "none"
    [] wire[b] = "flying" -> "out"
    [] wire[b] = "landed" -> "applied"
    [] wire[b] = "rejected" -> "refused"
    [] wire[b] = "lost" -> "lost"

Verdict(b) ==
  CASE InState(b, Verified) -> "confirmed"
    [] InState(b, {"WRITE_REJECTED"}) -> "refused"
    [] InState(b, {"RECONCILIATION_REQUIRED"}) -> IF sends[b] = 0 THEN "void" ELSE "drifted"
    [] OTHER -> "open"

Promise(b) ==
  INSTANCE OneShotWrite WITH
    permit <- Permit(b), sends <- sends[b], fate <- Fate(b), verdict <- Verdict(b)

KeepsPromise ==
  /\ \A b \in Batches : Promise(b)!Init
  /\ [][\A b \in Batches : UNCHANGED Promise(b)!vars \/ Promise(b)!Next]_<<batch, writer, wire, sends>>

(* Nobody else touches the batch of a run or reconcile: native observations, *)
(* cycles and authorizations of the same Review take neither lease, so their *)
(* own state checks must keep them away, and confirm, mark and reset find    *)
(* the state they insist on.                                                 *)
WriterOwnsBatch ==
  \/ writer.pc = "idle"
  \/ InState(writer.batch, {"WRITE_REQUESTED"})
  \/ /\ InState(writer.batch, {"WRITE_OUTCOME_UNKNOWN"})
     /\ writer.pc \in {"reconcile", "confirm", "uncertain"}

(* A revision saved by somebody else never gets a confirmed checkpoint, and  *)
(* every batch recorded as verified has one that holds its candidate.        *)
CheckpointsAreValidated ==
  /\ \A work \in checkpoints : works[work] # Other
  /\ \A b \in Batches : InState(b, Verified) => \E work \in checkpoints : works[work] = b

(* No order of kills, throws and concurrent commands verifies more revisions *)
(* than the session budget has counted, and without a kill it counts no      *)
(* other: only a confirm that is cut, and repeated, counts twice.            *)
VerifiedIsCounted ==
  LET verified == Cardinality({b \in Batches : InState(b, Verified)})
  IN /\ verified <= revisions
     /\ spent.kills = 0 => verified = revisions

(* "Updated target revision has no verified Repair Batch"                    *)
(* (src/src/reviews/review-store.js:855) is never thrown without a kill: an  *)
(* interrupted or rejected retest gives its batch back, and no observation   *)
(* takes the last one away.                                                  *)
RetestHasBatch ==
  spent.kills = 0 /\ review.status = "TARGET_UPDATED" => BatchIn("READBACK_VERIFIED") # {}

(* A Review that waits for a retest, or runs it, has the candidate of a      *)
(* verified batch as its baseline, with a checkpoint to repair it again.     *)
RetestsTheCandidate ==
  review.status \in {"TARGET_UPDATED", "RUNTIME_RETESTING"} =>
    /\ HasConfirmedCheckpoint
    /\ works[review.baseline] \in {b \in Batches : InState(b, Verified)}

(* A write whose outcome is unknown, and whose candidate the target holds,   *)
(* is eventually decided by reconcile, whatever else happens to the Review   *)
(* and the target meanwhile.                                                 *)
OutcomeSettled ==
  \A b \in Batches :
    (InState(b, {"WRITE_OUTCOME_UNKNOWN"}) /\ works[Latest] = b)
      ~> ~InState(b, {"WRITE_OUTCOME_UNKNOWN"})

-----------------------------------------------------------------------------
(* "Unknown network outcomes preserve a recoverable journal and require      *)
(* read-back reconciliation": as long as nobody else saved a revision, a     *)
(* batch that was sent, has no verdict, and nobody works on is one that      *)
(* reconcile accepts.  Violated: a kill leaves WRITE_REQUESTED, which run    *)
(* refuses too; a failed read back leaves RECONCILIATION_REQUIRED.           *)
UnknownIsReconcilable ==
  \A b \in Batches :
    wire[b] \in {"flying", "landed"} /\ (\A i \in 1 .. Latest : works[i] # Other)
      => writer.batch = b \/ InState(b, Reconcilable \cup Verified)
=============================================================================

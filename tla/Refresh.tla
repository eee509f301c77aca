-------------------------------- MODULE Refresh --------------------------------
(***************************************************************************)
(* One Refresh of an existing V5 target: prepare pins a baseline and a      *)
(* candidate, the user authorizes that plan, apply sends the one write it   *)
(* permits, reconcile decides an unknown outcome from what the target       *)
(* holds, finalize completes the Review succession.  Sources:               *)
(* src/src/refresh/refresh-store.js, refresh-prepare-orchestrator.js,       *)
(* refresh-apply-orchestrator.js and states.js.                             *)
(*                                                                          *)
(* The four commands are processes that interleave at every await and every *)
(* file write and may be killed there.  One process per command, because of *)
(* the per-command operation lease; apply, reconcile and finalize take the  *)
(* target write lease, which other workflow writers of the target take too  *)
(* (see FileLock).  The Reviews are in module ReviewWriters: here they      *)
(* accept the succession or refuse it, for as long as they are as they are. *)
(*                                                                          *)
(* A revision (workId), a configuration and a source revision are numbers;  *)
(* content is "candidate" when its digest is the plan's candidate's.  The   *)
(* candidate may equal the baseline.                                        *)
(***************************************************************************)
EXTENDS Naturals

CONSTANTS
  NoPlan,        \* no plan.json
  NoRead,        \* nothing was read, or the read failed
  NoCommit,      \* no mutation is between its two file writes
  NoRevision,    \* result.targetWorkId is not set
  MaxKills,      \* bound: commands killed
  MaxFaults,     \* bound: platform calls that fail, permissions that changed
  MaxEdits       \* bound: changes of source and target by others

ASSUME BoundAssumption == MaxKills \in Nat /\ MaxFaults \in Nat /\ MaxEdits \in Nat
ASSUME RevisionAssumption == NoRevision \notin Nat

VARIABLES
  status,    \* Refresh status in state.json
  plan,      \* the immutable plan.json
  granted,   \* state.json references an Authorization
  accepting, \* the Reviews of the target let the succession through
  expired,   \* the plan or the Authorization is past its expiresAt
  journal,   \* phase of the write journal
  result,    \* result.targetWorkId, and whether a newReviewId is recorded
  commit,    \* a mutation that wrote the journal and not yet state.json
  pc,        \* what each command does next
  read,      \* what each command last read of the platform
  lease,     \* who holds the target write lease
  wire,      \* what has become of the request
  target,    \* platform: the target case
  source,    \* platform: the source revision
  spent,     \* how much of each bound is used
  history    \* what happened, for the properties only

vars == <<status, plan, granted, expired, accepting, journal, result, commit, pc,
          read, lease, wire, target, source, spent, history>>
store == <<status, plan, granted, journal, result, commit>>
platform == <<wire, target, source>>

-----------------------------------------------------------------------------
(* TERMINAL_REFRESH_STATES, REFRESH_TRANSITIONS                              *)
Terminal ==
  {"TARGET_REFRESHED", "REFRESH_BLOCKED", "REFRESH_PLAN_STALE",
   "REFRESH_TARGET_DRIFTED", "REFRESH_OUTCOME_UNKNOWN"}

Transitions ==
  [REFRESH_PREPARING |-> {"AWAITING_REFRESH_AUTHORIZATION", "REFRESH_BLOCKED"},
   AWAITING_REFRESH_AUTHORIZATION |-> {"REFRESH_READY_TO_APPLY", "REFRESH_BLOCKED"},
   REFRESH_READY_TO_APPLY |->
     {"REFRESH_WRITE_REQUESTED", "REFRESH_RECONCILIATION_REQUIRED",
      "REFRESH_PLAN_STALE", "REFRESH_BLOCKED"},
   REFRESH_WRITE_REQUESTED |->
     {"TARGET_REFRESHED", "REFRESH_RECONCILIATION_REQUIRED", "REFRESH_BLOCKED"},
   REFRESH_RECONCILIATION_REQUIRED |->
     {"TARGET_REFRESHED", "REFRESH_TARGET_DRIFTED", "REFRESH_OUTCOME_UNKNOWN"}]

Statuses == Terminal \cup DOMAIN Transitions

(* assertRefreshTransition(from, to) does not throw.                         *)
Allowed(from, to) ==
  from \notin Terminal /\ from \in DOMAIN Transitions /\ to \in Transitions[from]

Commands == {"prepare", "apply", "reconcile", "finalize"}

Phases ==
  {"ABSENT", "WRITE_REQUESTED", "WRITE_REJECTED", "WRITE_OUTCOME_UNKNOWN",
   "RECONCILIATION_REQUIRED", "READBACK_VERIFIED", "TARGET_DRIFTED",
   "BASELINE_STILL_PRESENT"}

Steps ==
  {"idle", "commit", "lease", "finalize",
   "reading", "recheck", "plan", "blocking",
   "permission", "check", "judge", "stale", "request", "send", "answer",
   "readResponse", "readRejection", "readUnknown",
   "settleResponse", "settleRejection", "settleUnknown",
   "adopt", "observe", "decide"}

Wires == {"idle", "flying", "landed", "rejected", "lost"}
Contents == {"baseline", "candidate", "other"}
Target == [workId : Nat, content : Contents, config : Nat]
Observation == [workId : Nat, content : Contents, config : Nat, source : Nat]
Plans == Observation
Commits == [by : Commands, status : Statuses, then : Steps]

ASSUME ReadAssumption == NoRead \notin Observation

Init ==
  /\ status = "REFRESH_PREPARING"           \* RefreshStore.create has returned
  /\ plan = NoPlan
  /\ granted = FALSE
  /\ expired = FALSE
  /\ accepting \in BOOLEAN
  /\ journal = "ABSENT"
  /\ result = [workId |-> NoRevision, succession |-> FALSE]
  /\ commit = NoCommit
  /\ pc = [c \in Commands |-> IF c = "prepare" THEN "reading" ELSE "idle"]
  /\ read = [c \in Commands |-> NoRead]
  /\ lease = "free"
  /\ wire = "idle"
  /\ target \in {[workId |-> 0, content |-> content, config |-> 0] :
                   content \in {"baseline", "candidate"}}
  /\ source = 0
  /\ spent = [kills |-> 0, faults |-> 0, edits |-> 0]
  /\ history = [sends |-> 0, touched |-> FALSE,
                candidates |-> {n \in {0} : target.content = "candidate"},
                baselineReads |-> 0]

-----------------------------------------------------------------------------
Quiet == UNCHANGED <<spent, history>>
FaultHappens ==
  /\ spent.faults < MaxFaults
  /\ spent' = [spent EXCEPT !.faults = @ + 1]
EditHappens ==
  /\ spent.edits < MaxEdits
  /\ spent' = [spent EXCEPT !.edits = @ + 1]

Goto(c, step) == pc' = [pc EXCEPT ![c] = step]
Continue(c, step) == Goto(c, step) /\ UNCHANGED <<store, lease>>

(* The command ends: returns or throws; its leases are released, those of a  *)
(* killed command by the next one that takes them over.                      *)
End(c) ==
  /\ Goto(c, "idle")
  /\ read' = [read EXCEPT ![c] = NoRead]
  /\ lease' = IF lease = c THEN "free" ELSE lease
Throw(c) == End(c) /\ UNCHANGED store

(* #mutate and #transition: under the Refresh lock, one state.json write.    *)
Unlocked == commit = NoCommit

(* #mutateJournal: under the Refresh lock, check the status, write the       *)
(* journal, then (Commit) state.json.                                        *)
MutateJournal(c, from, to, phase, then) ==
  IF Unlocked /\ status \in from /\ journal # "ABSENT"
    THEN /\ journal' = phase
         /\ commit' = [by |-> c, status |-> to, then |-> then]
         /\ Goto(c, "commit")
         /\ UNCHANGED <<status, plan, granted, result, read, lease>>
    ELSE Throw(c)

(* The second write.  confirmWrite's carries the revision it observed.       *)
Confirms(to) == to = "TARGET_REFRESHED"

Commit ==
  /\ commit # NoCommit
  /\ IF Allowed(status, commit.status)
       THEN /\ status' = commit.status
            /\ result' = IF Confirms(commit.status)
                           THEN [result EXCEPT !.workId = read[commit.by].workId]
                           ELSE result
            /\ IF commit.then = "idle"
                 THEN End(commit.by)
                 ELSE /\ Goto(commit.by, commit.then)
                      /\ UNCHANGED <<read, lease>>
       ELSE End(commit.by) /\ UNCHANGED <<status, result>>
  /\ commit' = NoCommit
  /\ UNCHANGED <<plan, granted, expired, accepting, journal, platform>>
  /\ Quiet

(* withTargetWriteLease: TARGET_WRITE_LOCKED while anyone holds it.          *)
LeaseIgnored == TRUE             \* mutant: the target write lease is not taken
LeaseFree == lease = "free"

Lease(c, then) ==
  /\ pc[c] = "lease"
  /\ \/ /\ LeaseFree
        /\ lease' = c
        /\ Goto(c, then)
        /\ UNCHANGED <<store, read, spent>>
     \/ ~LeaseFree /\ Throw(c) /\ UNCHANGED spent
     \/ FaultHappens /\ Throw(c)            \* another writer's operation holds it
  /\ UNCHANGED <<expired, accepting, platform, history>>

(* #readTarget (and #readSource): two metadata reads that must name the same *)
(* revision around the reads of configuration and content.                   *)
ObservedTarget ==                \* mutant: the source revision is not recorded
  [workId |-> target.workId, content |-> target.content, config |-> target.config]
Observed == [workId |-> target.workId, content |-> target.content,
             config |-> target.config, source |-> source]

ReadPlatform(c) == read' = [read EXCEPT ![c] = Observed]

-----------------------------------------------------------------------------
(* RefreshPrepareOrchestrator                                                *)
PrepareRead ==
  /\ pc["prepare"] = "reading"
  /\ \/ /\ ReadPlatform("prepare")
        /\ Continue("prepare", "recheck")
        /\ UNCHANGED spent
     \/ /\ FaultHappens                     \* permission, version, platform
        /\ Continue("prepare", "blocking")
        /\ UNCHANGED read
  /\ UNCHANGED <<expired, accepting, platform, history>>

RevisionsHeld ==
  /\ target.workId = read["prepare"].workId
  /\ source = read["prepare"].source

(* The second metadata reads, then conversion and structural validation.     *)
PrepareRecheck ==
  /\ pc["prepare"] = "recheck"
  /\ \/ /\ RevisionsHeld
        /\ Continue("prepare", "plan")
        /\ UNCHANGED spent
     \/ ~RevisionsHeld /\ Continue("prepare", "blocking") /\ UNCHANGED spent
     \/ FaultHappens /\ Continue("prepare", "blocking")
  /\ UNCHANGED <<expired, accepting, read, platform, history>>

SetPlan ==
  /\ pc["prepare"] = "plan"
  /\ IF Unlocked /\ status = "REFRESH_PREPARING"
       THEN /\ plan' = read["prepare"]
            /\ status' = "AWAITING_REFRESH_AUTHORIZATION"
            /\ End("prepare")
            /\ UNCHANGED <<granted, journal, result, commit>>
       ELSE Throw("prepare")
  /\ UNCHANGED <<expired, accepting, platform>>
  /\ Quiet

Block ==
  /\ pc["prepare"] = "blocking"
  /\ IF Unlocked /\ status = "REFRESH_PREPARING"
       THEN /\ status' = "REFRESH_BLOCKED"
            /\ End("prepare")
            /\ UNCHANGED <<plan, granted, journal, result, commit>>
       ELSE Throw("prepare")
  /\ UNCHANGED <<expired, accepting, platform>>
  /\ Quiet

(* refresh authorize: the user's Authorization names the plan's digests.     *)
Authorize ==
  /\ Unlocked
  /\ status = "AWAITING_REFRESH_AUTHORIZATION"
  /\ granted' = TRUE
  /\ status' = "REFRESH_READY_TO_APPLY"
  /\ UNCHANGED <<plan, expired, accepting, journal, result, commit, pc, read, lease, platform>>
  /\ Quiet

-----------------------------------------------------------------------------
(* RefreshApplyOrchestrator.run.  prepareApply comes before the lease.       *)
JournalFree == journal = "ABSENT"

StartApply ==
  /\ pc["apply"] = "idle"
  /\ status = "REFRESH_READY_TO_APPLY" /\ granted /\ ~expired
  /\ JournalFree
  /\ Continue("apply", "lease")
  /\ UNCHANGED <<expired, accepting, read, platform>>
  /\ Quiet

LeaseForApply == Lease("apply", "permission")

(* #assertPlanCurrent: runtime pins and permission, then source and target.  *)
CheckPermission ==
  /\ pc["apply"] = "permission"
  /\ \/ Continue("apply", "check") /\ UNCHANGED spent
     \/ FaultHappens /\ Continue("apply", "stale")
  /\ UNCHANGED <<expired, accepting, read, platform, history>>

ReadBaseline ==
  /\ pc["apply"] = "check"
  /\ ReadPlatform("apply")
  /\ Continue("apply", "judge")
  /\ history' = [history EXCEPT !.touched = FALSE]
  /\ UNCHANGED <<expired, accepting, platform, spent>>

ConfigurationMatches(r) == r.config = plan.config
IsExactBaseline(r) ==
  /\ r.workId = plan.workId
  /\ r.content = plan.content
  /\ ConfigurationMatches(r)
AnyRevisionConfirms(r) ==        \* mutant: the advance of the revision is not required
  r.content = "candidate" /\ ConfigurationMatches(r)
IsConfirmedCandidate(r) ==
  /\ r.workId # plan.workId
  /\ r.content = "candidate"
  /\ ConfigurationMatches(r)

PlanIsCurrent == read["apply"].source = plan.source /\ IsExactBaseline(read["apply"])

(* Reviews that refuse the succession end the command, the plan kept.        *)
JudgeBaseline ==
  /\ pc["apply"] = "judge"
  /\ IF PlanIsCurrent /\ ~accepting
       THEN Throw("apply")
       ELSE /\ Continue("apply", IF PlanIsCurrent THEN "request" ELSE "stale")
            /\ UNCHANGED read
  /\ UNCHANGED <<expired, accepting, platform>>
  /\ Quiet

MarkPlanStale ==
  /\ pc["apply"] = "stale"
  /\ IF Unlocked /\ Allowed(status, "REFRESH_PLAN_STALE")
       THEN /\ status' = "REFRESH_PLAN_STALE"
            /\ End("apply")
            /\ UNCHANGED <<plan, granted, journal, result, commit>>
       ELSE Throw("apply")
  /\ UNCHANGED <<expired, accepting, platform>>
  /\ Quiet

-----------------------------------------------------------------------------
(* The one write: markWriteRequested, then saveWork.                         *)
MarkWriteRequested ==
  /\ pc["apply"] = "request"
  /\ IF Unlocked /\ status = "REFRESH_READY_TO_APPLY" /\ JournalFree
       THEN /\ journal' = "WRITE_REQUESTED"
            /\ commit' = [by |-> "apply", status |-> "REFRESH_WRITE_REQUESTED",
                          then |-> "send"]
            /\ Goto("apply", "commit")
            /\ UNCHANGED <<status, plan, granted, result, read, lease>>
       ELSE Throw("apply")
  /\ UNCHANGED <<expired, accepting, platform>>
  /\ Quiet

SaveWork ==
  /\ pc["apply"] = "send"
  /\ wire' = "flying"
  /\ history' = [history EXCEPT !.sends = @ + 1]
  /\ Continue("apply", "answer")
  /\ UNCHANGED <<expired, accepting, read, target, source, spent>>

(* The outcome classes of #request: a response, a structured permission      *)
(* error, anything else.                                                     *)
Answer ==
  /\ pc["apply"] = "answer"
  /\ \/ /\ wire = "landed"
        /\ Continue("apply", "readResponse")
        /\ UNCHANGED spent
     \/ /\ wire = "rejected"
        /\ Continue("apply", "readRejection")
        /\ UNCHANGED spent
     \/ /\ wire = "lost"
        /\ Continue("apply", "readUnknown")
        /\ UNCHANGED spent
     \/ /\ wire \in {"flying", "landed"}
        /\ FaultHappens                     \* no answer in time
        /\ Continue("apply", "readUnknown")
  /\ UNCHANGED <<expired, accepting, read, platform, history>>

(* Counts, up to two, the reads after the request that saw the old baseline. *)
CountBaseline ==
  history' = IF IsExactBaseline(Observed) /\ history.baselineReads < 2
               THEN [history EXCEPT !.baselineReads = @ + 1]
               ELSE history

(* #readTarget after the answer; a failed read-back observes nothing.        *)
Settling(step) ==
  CASE step = "readResponse" -> "settleResponse"
    [] step = "readRejection" -> "settleRejection"
    [] step = "readUnknown" -> "settleUnknown"

ReadBack ==
  /\ pc["apply"] \in {"readResponse", "readRejection", "readUnknown"}
  /\ Continue("apply", Settling(pc["apply"]))
  /\ \/ /\ ReadPlatform("apply")
        /\ CountBaseline
        /\ UNCHANGED spent
     \/ /\ FaultHappens
        /\ read' = [read EXCEPT !["apply"] = NoRead]
        /\ UNCHANGED history
  /\ UNCHANGED <<expired, accepting, platform>>

ShowsCandidate(r) == r # NoRead /\ IsConfirmedCandidate(r)

ConfirmWithoutPhase(c) ==        \* mutant: the journal keeps its phase
  MutateJournal(c, {"REFRESH_WRITE_REQUESTED", "REFRESH_RECONCILIATION_REQUIRED"},
                "TARGET_REFRESHED", journal, "finalize")
ConfirmWrite(c) ==
  MutateJournal(c, {"REFRESH_WRITE_REQUESTED", "REFRESH_RECONCILIATION_REQUIRED"},
                "TARGET_REFRESHED", "READBACK_VERIFIED", "finalize")

RecordWriteUnknown ==
  MutateJournal("apply", {"REFRESH_WRITE_REQUESTED"}, "REFRESH_RECONCILIATION_REQUIRED",
                IF read["apply"] = NoRead THEN "WRITE_OUTCOME_UNKNOWN"
                                          ELSE "RECONCILIATION_REQUIRED", "idle")

RecordWriteRejected ==
  MutateJournal("apply", {"REFRESH_WRITE_REQUESTED"}, "REFRESH_BLOCKED",
                "WRITE_REJECTED", "idle")

(* An unanswered write counts as rejected only when the platform said so and *)
(* nothing observed contradicts it.                                          *)
EveryErrorRejects == TRUE        \* mutant: every error counts as a rejection
RejectedByPlatform == pc["apply"] = "settleRejection"

Settle ==
  /\ pc["apply"] \in {"settleResponse", "settleRejection", "settleUnknown"}
  /\ LET r == read["apply"] IN
       IF ShowsCandidate(r) THEN ConfirmWrite("apply")
       ELSE IF RejectedByPlatform /\ (r = NoRead \/ IsExactBaseline(r))
              THEN RecordWriteRejected
              ELSE RecordWriteUnknown
  /\ UNCHANGED <<expired, accepting, platform>>
  /\ Quiet

-----------------------------------------------------------------------------
(* RefreshApplyOrchestrator.reconcile.  The adoption of an interrupted       *)
(* write's journal comes before the target write lease.                      *)
AdoptableUnsent ==               \* mutant: a requested write is not adopted
  {"REFRESH_READY_TO_APPLY"}
Adoptable == {"REFRESH_READY_TO_APPLY", "REFRESH_WRITE_REQUESTED"}

StartReconcile ==
  /\ pc["reconcile"] = "idle"
  /\ status \in Adoptable \cup {"REFRESH_RECONCILIATION_REQUIRED"}
  /\ Continue("reconcile", "adopt")
  /\ UNCHANGED <<expired, accepting, read, platform>>
  /\ Quiet

Adopt ==
  /\ pc["reconcile"] = "adopt"
  /\ IF status = "REFRESH_RECONCILIATION_REQUIRED"
       THEN Continue("reconcile", "lease") /\ UNCHANGED read
       ELSE MutateJournal("reconcile", Adoptable, "REFRESH_RECONCILIATION_REQUIRED",
                          "WRITE_OUTCOME_UNKNOWN", "lease")
  /\ UNCHANGED <<expired, accepting, platform>>
  /\ Quiet

LeaseForReconcile == Lease("reconcile", "observe")

Observe ==
  /\ pc["reconcile"] = "observe"
  /\ \/ /\ ReadPlatform("reconcile")
        /\ Continue("reconcile", "decide")
        /\ CountBaseline
        /\ UNCHANGED spent
     \/ /\ FaultHappens
        /\ Throw("reconcile")
        /\ UNCHANGED history
  /\ UNCHANGED <<expired, accepting, platform>>

MarkBaselineStillPresent ==
  MutateJournal("reconcile", {"REFRESH_RECONCILIATION_REQUIRED"},
                "REFRESH_OUTCOME_UNKNOWN", "BASELINE_STILL_PRESENT", "idle")

MarkTargetDrifted ==
  MutateJournal("reconcile", {"REFRESH_RECONCILIATION_REQUIRED"},
                "REFRESH_TARGET_DRIFTED", "TARGET_DRIFTED", "idle")

Decide ==
  /\ pc["reconcile"] = "decide"
  /\ LET r == read["reconcile"] IN
       IF IsConfirmedCandidate(r) THEN ConfirmWrite("reconcile")
       ELSE IF IsExactBaseline(r) THEN MarkBaselineStillPresent
                                  ELSE MarkTargetDrifted
  /\ UNCHANGED <<expired, accepting, platform>>
  /\ Quiet

-----------------------------------------------------------------------------
(* finalize, and the end of apply and reconcile: #finalizeConfirmed.  It     *)
(* throws whenever the Reviews refuse the succession: a superseded Review    *)
(* that is busy, or a new one that is no longer open.                        *)
StartFinalize ==
  /\ pc["finalize"] = "idle"
  /\ status = "TARGET_REFRESHED" /\ ~result.succession
  /\ Continue("finalize", "lease")
  /\ UNCHANGED <<expired, accepting, read, platform>>
  /\ Quiet

LeaseForFinalize == Lease("finalize", "finalize")

FinalizeConfirmed(c) ==
  /\ pc[c] = "finalize"
  /\ IF status = "TARGET_REFRESHED" /\ Unlocked
       THEN \/ /\ accepting
               /\ result' = [result EXCEPT !.succession = TRUE]
               /\ End(c)
               /\ UNCHANGED <<status, plan, granted, journal, commit, spent>>
            \/ ~accepting /\ Throw(c) /\ UNCHANGED spent
            \/ FaultHappens /\ Throw(c)     \* a lock or a file of theirs fails
       ELSE Throw(c) /\ UNCHANGED spent
  /\ UNCHANGED <<expired, accepting, platform, history>>

-----------------------------------------------------------------------------
(* A command is killed.  A request in flight goes on.                        *)
Kill(c) ==
  /\ pc[c] # "idle"
  /\ spent.kills < MaxKills
  /\ spent' = [spent EXCEPT !.kills = @ + 1]
  /\ End(c)
  /\ commit' = IF pc[c] = "commit" THEN NoCommit ELSE commit
  /\ UNCHANGED <<status, plan, granted, expired, accepting, journal, result, platform, history>>

Expire ==
  /\ plan # NoPlan /\ ~expired
  /\ expired' = TRUE
  /\ UNCHANGED <<store, accepting, pc, read, lease, platform, spent, history>>

-----------------------------------------------------------------------------
(* The platform and its other users.                                         *)
NextRevision(content) ==
  [target EXCEPT !.content = content, !.workId = target.workId + 1]

WriteTarget(content) ==
  /\ target' = NextRevision(content)
  /\ history' = [history EXCEPT !.candidates =
                   IF content = "candidate" THEN @ \cup {target.workId + 1} ELSE @]

(* The request takes effect, whoever still waits for it.                     *)
Land ==
  /\ wire = "flying"
  /\ wire' = "landed"
  /\ WriteTarget("candidate")
  /\ UNCHANGED <<store, expired, accepting, pc, read, lease, source, spent>>

(* It is stored differently, rejected, or lost.                              *)
Misland ==
  /\ wire = "flying"
  /\ FaultHappens
  /\ \/ wire' = "landed" /\ WriteTarget("other")
     \/ wire' \in {"rejected", "lost"} /\ UNCHANGED <<target, history>>
  /\ UNCHANGED <<store, expired, accepting, pc, read, lease, source>>

(* Another writer of this workflow, under the target write lease: a Repair,  *)
(* or another Refresh, perhaps of the same source.                           *)
WorkflowWrite ==
  /\ LeaseFree
  /\ EditHappens
  /\ \E content \in {"candidate", "other"} : WriteTarget(content)
  /\ UNCHANGED <<store, expired, accepting, pc, read, lease, wire, source>>

EditTarget ==
  /\ EditHappens
  /\ target' \in {NextRevision("other"), [target EXCEPT !.config = @ + 1]}
  /\ history' = [history EXCEPT !.touched = TRUE]
  /\ UNCHANGED <<store, expired, accepting, pc, read, lease, wire, source>>

EditSource ==
  /\ EditHappens
  /\ source' = source + 1
  /\ UNCHANGED <<store, expired, accepting, pc, read, lease, wire, target, history>>

(* The Reviews' own commands start and end cycles and Repairs, close Reviews *)
(* and open others, as often as their users like.                            *)
ReviewsChange ==
  /\ accepting' = ~accepting
  /\ UNCHANGED <<store, expired, pc, read, lease, platform, spent, history>>

-----------------------------------------------------------------------------
Prepare == PrepareRead \/ PrepareRecheck \/ SetPlan \/ Block
Apply ==
  \/ LeaseForApply \/ CheckPermission \/ ReadBaseline \/ JudgeBaseline
  \/ MarkPlanStale \/ MarkWriteRequested \/ SaveWork \/ Answer \/ ReadBack
  \/ Settle \/ FinalizeConfirmed("apply")
Reconcile ==
  \/ Adopt \/ LeaseForReconcile \/ Observe \/ Decide
  \/ FinalizeConfirmed("reconcile")
Finalize == LeaseForFinalize \/ FinalizeConfirmed("finalize")

CommandStep == Prepare \/ Apply \/ Reconcile \/ Finalize \/ Commit
Start == Authorize \/ StartApply \/ StartReconcile \/ StartFinalize
Platform == Land \/ Misland
Others == WorkflowWrite \/ EditTarget \/ EditSource \/ ReviewsChange

Next ==
  \/ CommandStep \/ Start \/ Platform \/ Others \/ Expire
  \/ \E c \in Commands : Kill(c)

Spec == Init /\ [][Next]_vars

(* A command that runs takes its next step, the platform deals with a        *)
(* request, and the operator reconciles and finalizes.  Nothing forces an    *)
(* apply, a fault, an edit, a kill, or the Reviews to change.                *)
Fairness ==
  /\ WF_vars(Prepare) /\ WF_vars(Apply) /\ WF_vars(Reconcile) /\ WF_vars(Finalize)
  /\ WF_vars(Commit) /\ WF_vars(Land)
  /\ WF_vars(StartReconcile) /\ WF_vars(StartFinalize)

FairSpec == Spec /\ Fairness

-----------------------------------------------------------------------------
TypeOK ==
  /\ status \in Statuses
  /\ plan \in Plans \cup {NoPlan}
  /\ granted \in BOOLEAN
  /\ expired \in BOOLEAN
  /\ accepting \in BOOLEAN
  /\ journal \in Phases
  /\ result \in [workId : Nat \cup {NoRevision}, succession : BOOLEAN]
  /\ commit \in Commits \cup {NoCommit}
  /\ pc \in [Commands -> Steps]
  /\ read \in [Commands -> Observation \cup {NoRead}]
  /\ lease \in Commands \cup {"free"}
  /\ wire \in Wires
  /\ target \in Target
  /\ source \in Nat
  /\ spent \in [kills : Nat, faults : Nat, edits : Nat]
  /\ history \in [sends : Nat, touched : BOOLEAN, candidates : SUBSET Nat,
                  baselineReads : 0 .. 2]

(* What the Refresh looks like to OneShotWrite.                              *)
Permit == IF journal # "ABSENT" THEN "spent" ELSE IF granted THEN "granted" ELSE "none"
Fate ==
  CASE wire = "idle" -> "none"
    [] wire = "flying" -> "out"
    [] wire = "landed" -> "applied"
    [] wire = "rejected" -> "refused"
    [] wire = "lost" -> "lost"
Verdict ==
  CASE status = "TARGET_REFRESHED" -> "confirmed"
    [] status = "REFRESH_BLOCKED" -> IF journal = "ABSENT" THEN "void" ELSE "refused"
    [] status = "REFRESH_PLAN_STALE" -> "void"
    [] status = "REFRESH_TARGET_DRIFTED" -> "drifted"
    [] status = "REFRESH_OUTCOME_UNKNOWN" -> "unknown"
    [] OTHER -> "open"

Promise == INSTANCE OneShotWrite
  WITH permit <- Permit, sends <- history.sends, fate <- Fate, verdict <- Verdict

(* "apply ... may issue at most one target write for the exact plan"         *)
(* (src/README.md:168), after the journal and never once the Refresh is      *)
(* closed, whatever apply, reconcile and finalize do to each other and       *)
(* wherever they are killed; a plan closed without a journal left no trace   *)
(* on the target, and one closed as rejected had its write rejected.         *)
KeepsPromise == Promise!Spec

(* A target confirmed as refreshed did hold the candidate, at the recorded   *)
(* revision and not at the baseline's, even if the candidate equals the      *)
(* baseline, the answer was lost, or another command made the confirmation.  *)
ConfirmedMeansCandidate ==
  status = "TARGET_REFRESHED" =>
    result.workId \in history.candidates /\ result.workId # plan.workId

(* From the read of the baseline to the request no other workflow writer of  *)
(* the target gets in between: the write goes over the authorized baseline   *)
(* unless a user of the platform changed it.                                 *)
AboutToWrite ==
  \/ pc["apply"] \in {"request", "send"}
  \/ commit # NoCommit /\ commit.then = "send"
LeaseKeepsBaseline ==
  AboutToWrite /\ ~history.touched =>
    target = [workId |-> plan.workId, content |-> plan.content, config |-> plan.config]

(* The status graph has an edge for every mutation: once the journal is      *)
(* written, state.json is never refused the status that goes with it.        *)
NoRefusedStatus == commit # NoCommit => Allowed(status, commit.status)

(* However commands and kills interleave with the two file writes of a       *)
(* mutation, a closed Refresh and its journal tell the same outcome, and a   *)
(* status that needs reconciliation has a journal to reconcile.              *)
JournalOf(s) ==
  CASE s = "TARGET_REFRESHED" -> {"READBACK_VERIFIED"}
    [] s = "REFRESH_BLOCKED" -> {"ABSENT", "WRITE_REJECTED"}
    [] s = "REFRESH_TARGET_DRIFTED" -> {"TARGET_DRIFTED"}
    [] s = "REFRESH_OUTCOME_UNKNOWN" -> {"BASELINE_STILL_PRESENT"}
    [] s \in {"REFRESH_WRITE_REQUESTED", "REFRESH_RECONCILIATION_REQUIRED"} ->
         Phases \ {"ABSENT"}
    [] s = "REFRESH_READY_TO_APPLY" -> Phases
    [] OTHER -> {"ABSENT"}
JournalAgrees == journal \in JournalOf(status)

(* A Refresh whose journal exists, wherever its commands were killed and     *)
(* whoever else wrote the target, is closed by reconcile whatever the        *)
(* Reviews say; and a confirmed one gets its Review succession recorded by   *)
(* finalize, provided the Reviews come to accept it and keep to that.  (They *)
(* may refuse for ever: REFRESH_REVIEW_BUSY, REVIEW_STATE_MISMATCH.)         *)
OutcomeSettled ==
  /\ journal # "ABSENT" ~> status \in Terminal
  /\ <>[]accepting => (status = "TARGET_REFRESHED" ~> result.succession)

(* REFRESH_OUTCOME_UNKNOWN is reached when repeated read-backs still show    *)
(* the old baseline (src/docs/WORKFLOW-RUNTIME-VALIDATION-AND-REPAIR-DESIGN.md:1099). *)
UnknownAfterRepeatedReads ==
  status = "REFRESH_OUTCOME_UNKNOWN" /\ history.sends > 0 => history.baselineReads >= 2
=============================================================================

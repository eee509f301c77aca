-------------------------------- MODULE Pipeline --------------------------------
(***************************************************************************)
(* A migration Job from its creation to the point where it may be saved:    *)
(* migrate (from the platform or from a local file), classification of the  *)
(* validation issues, repair by a patch, and the authorization of a         *)
(* diagnostic copy.  Sources: src/src/cli.js (runDryRun,                    *)
(* runPlatformMigration, handleJob, authorizeKnownIssuesDiagnosticSave) and *)
(* src/src/jobs/job-store.js.  SaveAs takes the Job from there.             *)
(*                                                                          *)
(* Commands are processes that share the files of a Job and the registry of *)
(* all Jobs; only a status transition is under the Job's lock, which is a   *)
(* FileLock without its takeover races.  One action lies between two file   *)
(* writes.  A command can stop at every one: it throws, its lock is taken,  *)
(* the status graph refuses, or it is killed.                               *)
(*                                                                          *)
(* What a case contains is abstracted to the issues the validator finds in  *)
(* it, which the converter's own diagnostics add to.  The two halves of a   *)
(* registry update are the read, which follows the write of state.json with *)
(* no effect in between that others could tell from an earlier read, and    *)
(* the write.                                                               *)
(***************************************************************************)
EXTENDS Naturals, JobStates, VersionClassifier

CONSTANTS
  Jobs,
  Commands,      \* processes
  CaseIssues,    \* issues the validator can find in a case
  Diagnostics,   \* issues the converter can report about its work
  Blocking,      \* those that are blockers or errors, not warnings
  Sources,       \* metadata and work of the cases that are migrated
  None,
  MaxCommands,   \* bound: commands started
  MaxOverlaps    \* bound: those of them started while another runs

ASSUME PipelineAssumption ==
  /\ Blocking \subseteq CaseIssues \cup Diagnostics
  /\ MaxCommands \in Nat /\ MaxOverlaps \in Nat
  /\ \A source \in Sources : source.work \in Works \ {NoWork}

VARIABLES
  state,        \* state.json: status, mode, artifact and its digest
  files,        \* the other files of a Job
  registry,     \* registry.json: the status of every Job it lists
  lock,         \* who holds a Job's lock
  proc,         \* the commands
  started,      \* commands started, and of them while another was running
  overlapped,   \* Jobs on which two commands have run at the same time
  unlisted,     \* Jobs whose last registry update was cut, or may be lost
  repairs       \* patches a Job has seen applied

vars == <<state, files, registry, lock, proc, started, overlapped, unlisted, repairs>>

-----------------------------------------------------------------------------
NoJob == [status |-> "absent", mode |-> "platform", artifact |-> None, digest |-> None]
NoFiles == [app |-> None, patched |-> None, diagnostics |-> {}, validation |-> None,
            afterRepair |-> None, classification |-> None, evidence |-> None]
NoList == [j \in Jobs |-> "absent"]
Idle == [command |-> "none", job |-> None, at |-> "idle", then |-> "idle",
         status |-> None, list |-> NoList, read |-> None]

Init ==
  /\ state = [j \in Jobs |-> NoJob]
  /\ files = [j \in Jobs |-> NoFiles]
  /\ registry = NoList
  /\ lock = [j \in Jobs |-> None]
  /\ proc = [p \in Commands |-> Idle]
  /\ started = [all |-> 0, overlapping |-> 0]
  /\ overlapped = {} /\ unlisted = {}
  /\ repairs = [j \in Jobs |-> 0]

Busy(p) == proc[p].command # "none"
On(p, j) == Busy(p) /\ proc[p].job = j
JobOf(p) == proc[p].job
Others(p) == {q \in Commands \ {p} : Busy(q)}
At(p, step) == Busy(p) /\ proc[p].at = step

(* A command begins; `read` is what it has read.                             *)
Begin(p, command, j, step, read) ==
  /\ ~Busy(p) /\ started.all < MaxCommands
  /\ Others(p) # {} => started.overlapping < MaxOverlaps
  /\ started' = [all |-> started.all + 1,
                 overlapping |-> started.overlapping + (IF Others(p) = {} THEN 0 ELSE 1)]
  /\ overlapped' = overlapped \cup {i \in {j} : \E q \in Commands : On(q, i)}
  /\ proc' = [proc EXCEPT ![p] = [Idle EXCEPT !.command = command, !.job = j, !.at = step,
                                               !.read = read]]

(* A file is written and the command goes on.                                *)
WriteFile(p, file, content, step) ==
  /\ files' = [files EXCEPT ![JobOf(p)][file] = content]
  /\ proc' = [proc EXCEPT ![p].at = step]
  /\ UNCHANGED <<state, registry, lock, started, overlapped, unlisted, repairs>>

(* JobStore.transition: state.json is written, and the registry read.        *)
Transition(p, to, patched, then) ==
  LET j == JobOf(p)
  IN /\ lock[j] = None
     /\ Allowed(state[j].status, to)
     /\ state' = [state EXCEPT ![j] = [patched EXCEPT !.status = to]]
     /\ lock' = [lock EXCEPT ![j] = p]
     /\ proc' = [proc EXCEPT ![p].at = "registry", ![p].then = then, ![p].status = to,
                          ![p].list = registry]
     /\ UNCHANGED <<files, registry, started, overlapped, unlisted, repairs>>

Move(p, to, then) == Transition(p, to, state[JobOf(p)], then)

(* updateRegistry writes the list with the entry of this Job, and the lock   *)
(* is released.  Entries that others have written since are lost.            *)
KeepsEntry(p) ==                        \* mutant: an entry is never replaced
  IF proc[p].list[JobOf(p)] # "absent" THEN proc[p].list
  ELSE [proc[p].list EXCEPT ![JobOf(p)] = proc[p].status]
Entries(p) == [proc[p].list EXCEPT ![JobOf(p)] = proc[p].status]

Unlock(p) == lock' = [j \in Jobs |-> IF lock[j] = p THEN None ELSE lock[j]]

WriteRegistry(p) ==
  /\ At(p, "registry")
  /\ registry' = Entries(p)
  /\ unlisted' = (unlisted \ {JobOf(p)}) \cup
                   {j \in Jobs \ {JobOf(p)} : registry[j] # proc[p].list[j]}
  /\ Unlock(p)
  /\ proc' = [proc EXCEPT ![p] =
       IF proc[p].then = "end" THEN Idle
       ELSE [@ EXCEPT !.at = proc[p].then, !.then = "idle", !.status = None, !.list = NoList]]
  /\ UNCHANGED <<state, files, started, overlapped, repairs>>

(* A command stops; a lock it dies with is taken over by the next.           *)
Stop(p) ==
  /\ Busy(p)
  /\ Unlock(p)
  /\ unlisted' = IF proc[p].at \in {"create", "registry"} THEN unlisted \cup {JobOf(p)} ELSE unlisted
  /\ proc' = [proc EXCEPT ![p] = Idle]
  /\ UNCHANGED <<state, files, registry, started, overlapped, repairs>>

-----------------------------------------------------------------------------
(* jobs.create writes state.json and the registry, without a lock.           *)
StartMigrate(p, j, command, mode) ==
  /\ state[j].status = "absent"
  /\ Begin(p, command, j, "create", None)
  /\ state' = [state EXCEPT ![j].status = "RECEIVED", ![j].mode = mode]
  /\ UNCHANGED <<files, registry, lock, unlisted, repairs>>

(* job create ends here, and no command takes such a Job further.            *)
Create(p) ==
  /\ At(p, "create")
  /\ proc' = [proc EXCEPT ![p].at = "registry", ![p].status = "RECEIVED", ![p].list = registry,
                          ![p].then = IF proc[p].command = "create" THEN "end" ELSE "update"]
  /\ UNCHANGED <<state, files, registry, lock, started, overlapped, unlisted, repairs>>

CheckUpdate(p) == At(p, "update") /\ Move(p, "UPDATE_CHECKED", "authorize")

(* getCurrentUser; a local file needs no authorization.                      *)
Authorize(p) ==
  /\ At(p, "authorize")
  /\ \/ Move(p, "AUTHORIZED", "load")
     \/ /\ state[JobOf(p)].mode = "platform"
        /\ \E to \in {"AUTH_FAILED", "FAILED"} : Move(p, to, "end")

(* preflightSaveAs and loadWork: a load that fails leaves the Job here.      *)
RefuseSource(p) ==
  /\ At(p, "load") /\ state[JobOf(p)].mode = "platform"
  /\ \E to \in {"SOURCE_PERMISSION_DENIED", "FAILED"} : Move(p, to, "end")

ClassifyVersion(p) ==
  /\ At(p, "load")
  /\ \E source \in Sources :
       Move(p, "VERSION_CLASSIFIED",
            IF Convertible(source.metadata, source.work) THEN "source"
            ELSE TerminalForVersion(Reason(source.metadata, source.work)))

SkipSource(p) ==
  \E terminal \in {"SKIPPED_ALREADY_V5", "SKIPPED_OUT_OF_SCOPE", "UNSUPPORTED_V4_FORMAT",
                   "VERSION_AMBIGUOUS"} :
    At(p, terminal) /\ Move(p, terminal, "end")

LoadSource(p) == At(p, "source") /\ Move(p, "SOURCE_LOADED", "convert")

(* provider.convert; the output, the manifest and the diagnostics.           *)
Convert(p) ==
  /\ At(p, "convert")
  /\ \E content \in SUBSET CaseIssues, diagnostics \in SUBSET Diagnostics :
       /\ files' = [files EXCEPT ![JobOf(p)].app = content, ![JobOf(p)].diagnostics = diagnostics]
       /\ proc' = [proc EXCEPT ![p].at = "converted", ![p].read = content]
  /\ UNCHANGED <<state, registry, lock, started, overlapped, unlisted, repairs>>

RecordConverted(p) ==
  /\ At(p, "converted")
  /\ Transition(p, "CONVERTED",
                [state[JobOf(p)] EXCEPT !.artifact = "app", !.digest = files[JobOf(p)].app],
                "validate")

(* validateConvertedCase and mergeConverterDiagnostics of what was converted *)
(* or patched; each command has a report of its own.                         *)
FoundInCase(p) == proc[p].read          \* mutant: the diagnostics are not merged
Found(p) == proc[p].read \cup files[JobOf(p)].diagnostics
Report(p) == IF proc[p].command = "migrate" THEN "validation" ELSE "afterRepair"

SkipsReport(p) ==                       \* mutant: a repair is not validated again
  /\ At(p, "validate")
  /\ IF Report(p) = "validation" THEN WriteFile(p, "validation", Found(p), "validated")
     ELSE WriteFile(p, "afterRepair", files[JobOf(p)].validation, "validated")
Validate(p) == At(p, "validate") /\ WriteFile(p, Report(p), Found(p), "validated")

Passed(p) == Found(p) \cap Blocking = {}

RecordValidated(p) == At(p, "validated") /\ Move(p, "VALIDATED", "classified")

RecordIssues(p) ==
  /\ At(p, "classified")
  /\ Move(p, "ISSUES_CLASSIFIED", IF Passed(p) THEN "ready" ELSE "end")

Ready(p) ==
  /\ At(p, "ready")
  /\ Move(p, IF state[JobOf(p)].mode = "platform" THEN "READY_TO_SAVE" ELSE "DRY_RUN_SUCCEEDED",
          "end")

-----------------------------------------------------------------------------
(* job classify: the Agent gives every issue of the report a cause, here one *)
(* that blocks, one that a patch may repair, or one that a person looks at.  *)
Verdicts == {"converter", "repairable", "other"}
Classifications == UNION {[issues -> Verdicts] : issues \in SUBSET (CaseIssues \cup Diagnostics)}

StartClassify(p, j) ==
  /\ state[j].status = "ISSUES_CLASSIFIED"
  /\ files[j].validation # None
  /\ \E classification \in [files[j].validation -> Verdicts] :
       Begin(p, "classify", j, "classification", classification)
  /\ UNCHANGED <<state, files, registry, lock, unlisted, repairs>>

WriteClassification(p) ==
  At(p, "classification") /\ WriteFile(p, "classification", proc[p].read, "outcome")

RepairsFirst(classification) ==         \* mutant: one repairable issue is enough
  IF \E i \in DOMAIN classification : classification[i] = "repairable"
  THEN "AI_REPAIR_REQUIRED" ELSE "NEEDS_REVIEW"
StatusOf(classification) ==
  IF \E i \in DOMAIN classification : classification[i] = "converter"
  THEN "BLOCKED_CONVERTER_DEFECT"
  ELSE IF DOMAIN classification # {}
          /\ \A i \in DOMAIN classification : classification[i] = "repairable"
  THEN "AI_REPAIR_REQUIRED"
  ELSE "NEEDS_REVIEW"

RecordOutcome(p) == At(p, "outcome") /\ Move(p, StatusOf(proc[p].read), "end")

(* job apply-patch: the artifact the Job names is read and patched.          *)
StartPatch(p, j) ==
  /\ state[j].status = "AI_REPAIR_REQUIRED"
  /\ Begin(p, "apply-patch", j, "patch", None)
  /\ UNCHANGED <<state, files, registry, lock, unlisted, repairs>>

Patch(p) ==
  /\ At(p, "patch")
  /\ \E content \in SUBSET CaseIssues :
       /\ files' = [files EXCEPT ![JobOf(p)].patched = content]
       /\ proc' = [proc EXCEPT ![p].at = "patched", ![p].read = content]
  /\ repairs' = [repairs EXCEPT ![JobOf(p)] = 1]
  /\ UNCHANGED <<state, registry, lock, started, overlapped, unlisted>>

RecordPatched(p) ==
  /\ At(p, "patched")
  /\ Transition(p, "AI_REPAIRED",
                [state[JobOf(p)] EXCEPT !.artifact = "patched", !.digest = files[JobOf(p)].patched],
                "validate")

(* authorizeKnownIssuesDiagnosticSave: the report and its classification are *)
(* the evidence for what is saved.                                           *)
ClassifiedStatuses == {"BLOCKED_CONVERTER_DEFECT", "AI_REPAIR_REQUIRED", "NEEDS_REVIEW"}

StartAuthorization(p, j) ==
  /\ state[j].status \in ClassifiedStatuses
  /\ state[j].mode = "platform" /\ state[j].artifact # None
  /\ files[j].classification # None
  /\ DOMAIN files[j].classification = files[j].validation
  /\ files[j].validation # {}
  /\ Begin(p, "authorize", j, "authorization", files[j].validation)
  /\ UNCHANGED <<state, files, registry, lock, unlisted, repairs>>

WriteAuthorization(p) ==
  At(p, "authorization") /\ WriteFile(p, "evidence", proc[p].read, "authorized")

RecordAuthorization(p) ==
  At(p, "authorized") /\ Move(p, "READY_TO_SAVE_DIAGNOSTIC_COPY", "end")

-----------------------------------------------------------------------------
Start(p, j) ==
  \/ \E mode \in {"platform", "local-file"} : StartMigrate(p, j, "migrate", mode)
  \/ StartMigrate(p, j, "create", "platform")
  \/ StartClassify(p, j) \/ StartPatch(p, j) \/ StartAuthorization(p, j)

Step(p) ==
  \/ Create(p) \/ WriteRegistry(p)
  \/ CheckUpdate(p) \/ Authorize(p) \/ RefuseSource(p) \/ ClassifyVersion(p) \/ SkipSource(p)
  \/ LoadSource(p)
  \/ Convert(p) \/ RecordConverted(p) \/ Validate(p) \/ RecordValidated(p) \/ RecordIssues(p)
  \/ Ready(p)
  \/ WriteClassification(p) \/ RecordOutcome(p)
  \/ Patch(p) \/ RecordPatched(p)
  \/ WriteAuthorization(p) \/ RecordAuthorization(p)

Next == \E p \in Commands : (\E j \in Jobs : Start(p, j)) \/ Step(p) \/ Stop(p)

Spec == Init /\ [][Next]_vars

-----------------------------------------------------------------------------
ASSUME NothingAssumption == None \notin Commands \cup Classifications

TypeOK ==
  /\ \A j \in Jobs :
       /\ state[j].status \in Statuses \cup {"absent"}
       /\ state[j].mode \in {"platform", "local-file"}
       /\ state[j].artifact \in {None, "app", "patched"}
       /\ registry[j] \in Statuses \cup {"absent"}
       /\ lock[j] # None => At(lock[j], "registry")
       /\ lock[j] # None => JobOf(lock[j]) = j
  /\ overlapped \cup unlisted \subseteq Jobs /\ started.all <= MaxCommands

Artifact(j) == IF state[j].artifact = "app" THEN files[j].app ELSE files[j].patched
LatestReport(j) == IF state[j].artifact = "app" THEN files[j].validation ELSE files[j].afterRepair
IssuesOf(j) == Artifact(j) \cup files[j].diagnostics

(* A Job that is validated, or ready because its validation passed, has a    *)
(* report of exactly the artifact that will be saved, with the digest of it  *)
(* in its state; when it is ready nothing in it is blocking.  This survives  *)
(* a kill between any two of the files, repairs of repairs and a patch that  *)
(* was written and never recorded, as long as one command works on the Job.  *)
ReportMatchesArtifact ==
  \A j \in Jobs \ overlapped :
    state[j].status \in {"VALIDATED", "ISSUES_CLASSIFIED", "READY_TO_SAVE", "DRY_RUN_SUCCEEDED"} =>
      /\ LatestReport(j) = IssuesOf(j)
      /\ state[j].digest = Artifact(j)
      /\ state[j].status \in {"READY_TO_SAVE", "DRY_RUN_SUCCEEDED"} =>
           IssuesOf(j) \cap Blocking = {}

(* No patch is applied while an issue is classified as a defect of the       *)
(* converter or as one a person has to look at: the status that admits       *)
(* patches and the classification on disk agree, also when the command that  *)
(* wrote one of them was killed before the other.                            *)
OnlyRepairableIsPatched ==
  \A j \in Jobs \ overlapped :
    /\ state[j].status \in {"AI_REPAIR_REQUIRED", "AI_REPAIRED"} =>
         /\ files[j].classification # None
         /\ \A i \in DOMAIN files[j].classification : files[j].classification[i] = "repairable"
    /\ state[j].status \in {"BLOCKED_CONVERTER_DEFECT"} =>
         \E i \in DOMAIN files[j].classification : files[j].classification[i] = "converter"

(* What a diagnostic copy was authorized with are the issues of what is      *)
(* saved, all of them classified.                                            *)
IssuesAuthorized(j) ==
  state[j].status = "READY_TO_SAVE_DIAGNOSTIC_COPY" =>
    /\ files[j].evidence = IssuesOf(j)
    /\ DOMAIN files[j].classification = IssuesOf(j)

(* It holds for a Job no patch was applied to ...                            *)
EvidenceIsCurrent ==
  \A j \in Jobs \ overlapped : repairs[j] = 0 => IssuesAuthorized(j)

(* ... and should hold for every Job: "every issue must have a supported     *)
(* closed classification", docs/PLATFORM-INTEGRATION.md:56.                  *)
EveryIssueClassified == \A j \in Jobs \ overlapped : IssuesAuthorized(j)

(* The registry, which Agents read before they choose between resuming and   *)
(* creating, has the status of every Job, except of one whose own update is  *)
(* under way, was cut by a kill, or was overwritten by another Job's; and    *)
(* its next transition repairs the entry.                                    *)
Updating(j) == \E p \in Commands : On(p, j) /\ proc[p].at \in {"create", "registry"}
Listed == \A j \in Jobs \ unlisted : Updating(j) \/ registry[j] = state[j].status
=============================================================================

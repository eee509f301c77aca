-------------------------------- MODULE SaveAs --------------------------------
(***************************************************************************)
(* The platform Save As of one migration Job,                               *)
(* src/src/platform/save-as-orchestrator.js: create a V5 case from the      *)
(* source, copy configuration and domain routing onto it, save the final    *)
(* work, read it back, and close the Job.  A run keeps its journal in       *)
(* memory and checkpoints it to reports/platform-save-journal.json; it may  *)
(* be cut at every await and between every two file writes, and is resumed  *)
(* by a later run that knows only the checkpoint, the Job status and what   *)
(* the platform answers.  Runs of one Job do not overlap (the save-as       *)
(* operation lease, see FileLock).                                          *)
(*                                                                          *)
(* Data is abstracted to what the protocol compares: a revision is a        *)
(* number; a configuration (or domain binding, or routing) is 0 when it is  *)
(* anything else than what this migration writes and n > 0 when it derives  *)
(* from version n of the source's.                                          *)
(***************************************************************************)
EXTENDS Naturals, JobStates

CONSTANTS
  Source, Prior,        \* nid of the source, nid of a target of an earlier Job
  NoCase,               \* journal.target.nid is not set
  NoRevision,           \* a workId field that is not set
  MaxInterrupts,        \* bound: runs cut short
  MaxFaults,            \* bound: platform calls that fail or are rejected
  MaxEdits,             \* bound: changes by other users of the platform
  SourceMayAdvance      \* TRUE if Save As itself may advance the source workId

ASSUME NidAssumption ==
  /\ Source \notin Nat /\ Prior \notin Nat /\ NoCase \notin Nat
  /\ Source # NoCase /\ Prior # NoCase
ASSUME RevisionAssumption == NoRevision \notin Nat
ASSUME BoundAssumption ==
  MaxInterrupts \in Nat /\ MaxFaults \in Nat /\ MaxEdits \in Nat
ASSUME AdvanceAssumption == SourceMayAdvance \in BOOLEAN

VARIABLES
  request,  \* the Job: its save path, and whether it is CREATE_ADDITIONAL_V5
  status,   \* Job status on disk
  disk,     \* the checkpointed journal
  mem,      \* the running process's journal
  pc,       \* what the run does next
  after,    \* the pending status transition, and what follows it
  read,     \* what the run last read of the target
  source,   \* platform: the source case
  work,     \* platform: the case journal.target names
  spent,    \* how much of each bound is used
  history   \* what happened, for the properties only

vars == <<request, status, disk, mem, pc, after, read, source, work, spent, history>>
platform == <<source, work>>

-----------------------------------------------------------------------------
Intents == {"validated", "known-issues-diagnostic"}

(* SAVE_INTENT_CONFIG *)
ReadyStatus(intent) ==
  IF intent = "validated" THEN "READY_TO_SAVE" ELSE "READY_TO_SAVE_DIAGNOSTIC_COPY"
CompletionStatus(intent) ==
  IF intent = "validated" THEN "SUCCEEDED" ELSE "DIAGNOSTIC_COPY_CREATED"
Completed == {"SUCCEEDED", "DIAGNOSTIC_COPY_CREATED"}

Resumable(intent) ==
  {ReadyStatus(intent), "SAVE_AS_CREATED", "SAVE_INCOMPLETE", "FINAL_SAVED",
   "POST_SAVE_VERIFIED"}

Phases ==
  {"ABSENT", "NOT_STARTED", "CREATE_REQUESTED", "CREATE_REJECTED",
   "CREATE_OUTCOME_UNKNOWN", "TARGET_IDENTITY_CONFLICT", "TARGET_CREATED",
   "CONFIG_WRITE_INCOMPLETE", "FINAL_SAVE_REQUESTED", "FINAL_SAVE_RESPONDED",
   "FINAL_SAVE_OUTCOME_UNKNOWN", "FINAL_CONTENT_CONFIRMED",
   "POST_SAVE_MISMATCH", "POST_SAVE_VERIFIED"}

(* Phases a run refuses to continue from.                                    *)
StickyPhases ==
  {"CREATE_OUTCOME_UNKNOWN", "POST_SAVE_MISMATCH", "TARGET_IDENTITY_CONFLICT"}

(* journal.domainRouting: UNFROZEN while it has no expected routing.         *)
RoutingStates ==
  {"UNFROZEN", "PENDING", "REQUESTED", "CONFIRMED", "OUTCOME_UNKNOWN", "INCOMPLETE"}

Steps ==
  {"idle", "preflight", "recheck", "environment", "requestCreate", "create",
   "created", "createRejected", "createUnknown", "config", "writeConfig",
   "checkConfig", "configIncomplete", "routing", "freezeRouting",
   "compareRouting", "writeRouting", "checkRouting", "recheckRouting",
   "routingIncomplete", "routingUnknown", "content", "confirmContent",
   "requestSave", "save", "saveResponded", "saveUnknown", "verify", "complete",
   "transition"}

Nids == Nat \cup {Source, Prior}
Contents == {"initial", "final", "other"}

Journal ==
  [phase : Phases, kind : Intents, target : Nids \cup {NoCase},
   targetWorkId : Nat \cup {NoRevision}, config : Nat, domain : Nat,
   paths : Nat, routing : RoutingStates, preSaveWorkId : Nat \cup {NoRevision}]

NewJournal(phase, intent) ==
  [phase |-> phase, kind |-> intent, target |-> NoCase,
   targetWorkId |-> NoRevision, config |-> 0, domain |-> 0, paths |-> 0,
   routing |-> "UNFROZEN", preSaveWorkId |-> NoRevision]

Case == [workId : Nat, content : Contents, config : Nat, routing : Nat, paths : Nat]
NewCase(content, config, routing) ==
  [workId |-> 0, content |-> content, config |-> config, routing |-> routing,
   paths |-> 0]
OtherCase == NewCase("other", 0, 0)

NoTransition == [to |-> "FAILED", then |-> "idle"]

(* loadJournal: the checkpoint, or a fresh journal when there is none.       *)
LoadedJournal(intent) ==
  IF disk.phase = "ABSENT" THEN NewJournal("NOT_STARTED", intent) ELSE disk

PinnedWorkId == 0          \* job.source.workId

(* selfReference: the converted work mentions the source nid, so that the    *)
(* final work differs from the one the target is created with.               *)
Requests == [intent : Intents, additional : BOOLEAN, selfReference : BOOLEAN]

Histories ==
  [cases : Nat,              \* cases the platform created for this Job
   orphans : Nat,            \* runs cut between a creation and its checkpoint
   touched : BOOLEAN,        \* someone else changed the target
   routingInDoubt : BOOLEAN] \* a routing write's outcome is not on disk

TypeOK ==
  /\ request \in Requests
  /\ status \in Statuses
  /\ disk \in Journal
  /\ mem \in Journal
  /\ pc \in Steps
  /\ after \in [to : Statuses, then : Steps]
  /\ read \in Case
  /\ source \in [workId : Nat, config : Nat, domain : Nat]
  /\ work \in Case
  /\ spent \in [interrupts : Nat, faults : Nat, edits : Nat]
  /\ history \in Histories

Init ==
  /\ request \in Requests
  /\ status = ReadyStatus(request.intent)
  /\ disk = NewJournal("ABSENT", request.intent)
  /\ mem = NewJournal("ABSENT", request.intent)
  /\ pc = "idle"
  /\ after = NoTransition
  /\ read = OtherCase
  /\ source = [workId |-> PinnedWorkId, config |-> 1, domain |-> 1]
  /\ work = OtherCase
  /\ spent = [interrupts |-> 0, faults |-> 0, edits |-> 0]
  /\ history = [cases |-> 0, orphans |-> 0, touched |-> FALSE,
                routingInDoubt |-> FALSE]

-----------------------------------------------------------------------------
(* Ways a step of a run ends.                                                *)

(* persist()                                                                 *)
LostCheckpoint(journal) == disk  \* mutant: the journal is not written ahead
Checkpoint(journal) == journal

(* The journal reaches the disk and the run goes on.                         *)
Persist(journal, next) ==
  /\ disk' = Checkpoint(journal) /\ mem' = journal
  /\ pc' = next
  /\ UNCHANGED <<status, after>>

(* persist(), then transitionIfNeeded(): two writes, hence two steps.        *)
PersistThen(journal, to, then) ==
  /\ disk' = Checkpoint(journal) /\ mem' = journal
  /\ pc' = "transition"
  /\ after' = [to |-> to, then |-> then]
  /\ UNCHANGED status

(* Nothing is written; the run goes on with journal in memory.               *)
Continue(journal, next) ==
  /\ mem' = journal
  /\ pc' = next
  /\ UNCHANGED <<status, disk, after>>

(* The run is over; what it held in memory is gone.                          *)
Forget ==
  /\ pc' = "idle"
  /\ mem' = NewJournal("ABSENT", request.intent)
  /\ after' = NoTransition
  /\ read' = OtherCase

(* An error is thrown and nothing is written.                                *)
Throw == Forget /\ UNCHANGED <<status, disk>>

Quiet == UNCHANGED <<spent, history>>
FaultHappens ==
  /\ spent.faults < MaxFaults
  /\ spent' = [spent EXCEPT !.faults = @ + 1]
EditHappens ==
  /\ spent.edits < MaxEdits
  /\ spent' = [spent EXCEPT !.edits = @ + 1]

Phase(phase) == [mem EXCEPT !.phase = phase]
Routing(state) == [mem EXCEPT !.routing = state]

-----------------------------------------------------------------------------
(* run() up to the first await: which status, authorization and journal a    *)
(* run with this save intent accepts.  The authorization artifact exists in  *)
(* the Jobs whose path is the diagnostic one.                                *)
AnyKind(intent) == TRUE          \* mutant: SAVE_INTENT_MISMATCH is not checked
SameKind(intent) == LoadedJournal(intent).kind = intent

Start(intent) ==
  /\ pc = "idle"
  /\ status \in Resumable(intent)
  /\ intent = "known-issues-diagnostic" => request.intent = intent
  /\ SameKind(intent)
  /\ LoadedJournal(intent).phase \notin StickyPhases
  /\ mem' = [LoadedJournal(intent) EXCEPT !.kind = intent]
  /\ pc' = IF mem'.target = NoCase THEN "preflight" ELSE "environment"
  /\ UNCHANGED <<request, status, disk, after, read, platform, spent, history>>

(* preflightSaveAs: DENIED when the source has moved to another workgroup.   *)
Preflight ==
  /\ pc = "preflight"
  /\ \/ Persist(mem, "recheck") /\ UNCHANGED spent
     \/ PersistThen(mem, "TARGET_PERMISSION_DENIED", "idle") /\ EditHappens
  /\ UNCHANGED <<request, read, platform, history>>

RecheckSource ==
  /\ pc = "recheck"
  /\ IF source.workId = PinnedWorkId
       THEN Continue(mem, "environment")
       ELSE PersistThen(mem, "SOURCE_CHANGED", "idle")
  /\ UNCHANGED <<request, read, platform>>
  /\ Quiet

(* The configuration and domain binding of a created target stay those that  *)
(* were frozen when it was created.                                          *)
SameVersion(frozen, current) == frozen \in {0, current}

(* getWorkEnvironment of the pinned source revision, and the freeze.         *)
ReadEnvironment ==
  /\ pc = "environment"
  /\ IF /\ source.workId = PinnedWorkId
        /\ mem.target # NoCase =>
             /\ SameVersion(mem.config, source.config)
             /\ SameVersion(mem.domain, source.domain)
       THEN /\ Continue([mem EXCEPT !.config = source.config, !.domain = source.domain],
                        IF mem.target = NoCase THEN "requestCreate" ELSE "config")
            /\ UNCHANGED read
       ELSE Throw
  /\ UNCHANGED <<request, platform>>
  /\ Quiet

RequestCreate ==
  /\ pc = "requestCreate"
  /\ Persist(Phase("CREATE_REQUESTED"), "create")
  /\ UNCHANGED <<request, read, platform>>
  /\ Quiet

(* The platform answers saveAsV5 with a nid: a new case that holds the       *)
(* initial work, or (a platform fault) a case that already existed.  The     *)
(* final work equals the initial one when it never mentions the source nid.  *)
CreateAnswered ==
  /\ pc = "create"
  /\ \E nid \in {history.cases + 1, Source, Prior} :
       /\ Continue([mem EXCEPT !.target = nid, !.targetWorkId = 0], "created")
       /\ IF nid \in {Source, Prior}
            THEN /\ FaultHappens
                 /\ work' = OtherCase
                 /\ UNCHANGED history
            ELSE /\ \E config \in {0, source.config}, routing \in {0, source.domain} :
                      work' = NewCase(IF request.selfReference THEN "initial" ELSE "final",
                                      config, routing)
                 /\ history' = [history EXCEPT !.cases = @ + 1, !.touched = FALSE]
                 /\ UNCHANGED spent
  /\ \E advance \in IF SourceMayAdvance THEN {0, 1} ELSE {0} :
       source' = [source EXCEPT !.workId = @ + advance]
  /\ UNCHANGED <<request, read>>

CreateFails ==
  /\ pc = "create"
  /\ FaultHappens
  /\ \/ /\ Continue(mem, "createRejected")
        /\ UNCHANGED history
     \/ /\ Continue(mem, "createUnknown")
        /\ \E landed \in {0, 1} : history' = [history EXCEPT !.cases = @ + landed]
  /\ UNCHANGED <<request, read, platform>>

RecordCreateRejected ==
  /\ pc = "createRejected"
  /\ PersistThen(Phase("CREATE_REJECTED"), "TARGET_PERMISSION_DENIED", "idle")
  /\ UNCHANGED <<request, read, platform>>
  /\ Quiet

MisspelledUnknown(journal) ==    \* mutant: a phase no resume knows
  [journal EXCEPT !.phase = "OUTCOME_UNKNOWN"]
UnrecordedUnknown(journal) ==    \* mutant: the unknown outcome is not remembered
  [journal EXCEPT !.phase = "CREATE_REQUESTED"]
UnknownCreate(journal) == [journal EXCEPT !.phase = "CREATE_OUTCOME_UNKNOWN"]

RecordCreateUnknown ==
  /\ pc = "createUnknown"
  /\ PersistThen(UnknownCreate(mem), "SAVE_INCOMPLETE", "idle")
  /\ UNCHANGED <<request, read, platform>>
  /\ Quiet

(* The returned nid is the source's or, in a CREATE_ADDITIONAL_V5 Job, that  *)
(* of an earlier Job's target.                                               *)
NoConflict == FALSE              \* mutant: the returned nid is trusted
IdentityConflict ==
  mem.target = Source \/ (request.additional /\ mem.target = Prior)

RecordCreated ==
  /\ pc = "created"
  /\ IF IdentityConflict
       THEN PersistThen(Phase("TARGET_IDENTITY_CONFLICT"), "SAVE_INCOMPLETE", "idle")
       ELSE PersistThen(Phase("TARGET_CREATED"), "SAVE_AS_CREATED", "config")
  /\ UNCHANGED <<request, read, platform>>
  /\ Quiet

-----------------------------------------------------------------------------
(* #ensureConfig                                                             *)
ReadConfig ==
  /\ pc = "config"
  /\ IF work.config = mem.config THEN Persist(mem, "routing")
                                 ELSE Continue(mem, "writeConfig")
  /\ UNCHANGED <<request, read, platform>>
  /\ Quiet

Configured == [work EXCEPT !.config = mem.config]

WriteConfig ==
  /\ pc = "writeConfig"
  /\ \/ /\ work' = Configured
        /\ Continue(mem, "checkConfig")
        /\ UNCHANGED spent
     \/ /\ FaultHappens                       \* answered, not applied
        /\ Continue(mem, "checkConfig")
        /\ UNCHANGED work
     \/ /\ FaultHappens                       \* no answer
        /\ work' \in {work, Configured}
        /\ Continue(mem, "configIncomplete")
  /\ UNCHANGED <<request, read, source, history>>

CheckConfig ==
  /\ pc = "checkConfig"
  /\ \/ /\ work.config = mem.config
        /\ Persist(mem, "routing")
        /\ UNCHANGED spent
     \/ /\ work.config # mem.config
        /\ Continue(mem, "configIncomplete")
        /\ UNCHANGED spent
     \/ /\ FaultHappens
        /\ Continue(mem, "configIncomplete")
  /\ UNCHANGED <<request, read, platform, history>>

RecordConfigIncomplete ==
  /\ pc = "configIncomplete"
  /\ PersistThen(Phase("CONFIG_WRITE_INCOMPLETE"), "SAVE_INCOMPLETE", "idle")
  /\ UNCHANGED <<request, read, platform>>
  /\ Quiet

-----------------------------------------------------------------------------
(* #ensureDomainRouting                                                      *)
ReadRouting ==
  /\ pc = "routing"
  /\ read' = work
  /\ Continue(mem, IF mem.routing = "UNFROZEN" THEN "freezeRouting" ELSE "compareRouting")
  /\ UNCHANGED <<request, platform>>
  /\ Quiet

FreezeRouting ==
  /\ pc = "freezeRouting"
  /\ IF read.workId = mem.targetWorkId
       THEN /\ Persist([mem EXCEPT !.routing = "PENDING", !.paths = read.paths],
                       "compareRouting")
            /\ UNCHANGED read
       ELSE Throw
  /\ UNCHANGED <<request, platform>>
  /\ Quiet

RoutingMatches == read.routing = mem.domain
(* The states in which a routing write may be sent.                          *)
MayWriteRoutingOnce ==           \* mutant: a definite failure is not retried
  mem.routing = "PENDING" /\ read.workId = mem.targetWorkId
MayReplayRouting ==              \* mutant: an unknown outcome is written again
  mem.routing # "CONFIRMED" /\ read.workId = mem.targetWorkId
MayWriteRouting ==
  mem.routing \in {"PENDING", "INCOMPLETE"} /\ read.workId = mem.targetWorkId

CompareRouting ==
  /\ pc = "compareRouting"
  /\ IF read.paths = mem.paths /\ (RoutingMatches \/ MayWriteRouting)
       THEN /\ IF RoutingMatches
                 THEN /\ Persist(Routing("CONFIRMED"), "content")
                      /\ history' = [history EXCEPT !.routingInDoubt = FALSE]
                 ELSE /\ Persist(Routing("REQUESTED"), "writeRouting")
                      /\ UNCHANGED history
            /\ UNCHANGED read
       ELSE Throw /\ UNCHANGED history
  /\ UNCHANGED <<request, platform, spent>>

(* modifyWorkRouting: the revision check and the request.                    *)
Routed == [work EXCEPT !.routing = mem.domain]

WriteRouting ==
  /\ pc = "writeRouting"
  /\ \/ /\ work.workId # read.workId
        /\ Continue(mem, "routingIncomplete")
        /\ UNCHANGED <<work, spent, history>>
     \/ /\ work.workId = read.workId
        /\ \/ work' = Routed /\ UNCHANGED spent
           \/ FaultHappens /\ UNCHANGED work  \* answered, not applied
        /\ Continue(mem, "checkRouting")
        /\ history' = [history EXCEPT !.routingInDoubt = TRUE]
     \/ /\ work.workId = read.workId
        /\ FaultHappens                       \* rejected
        /\ Continue(mem, "routingIncomplete")
        /\ UNCHANGED <<work, history>>
     \/ /\ work.workId = read.workId
        /\ FaultHappens                       \* no answer
        /\ work' \in {work, Routed}
        /\ Continue(mem, "recheckRouting")
        /\ history' = [history EXCEPT !.routingInDoubt = TRUE]
  /\ UNCHANGED <<request, read, source>>

(* modifyWorkRouting: the read-back, after an answer and after none.         *)
RoutingReadBack == work.workId = read.workId /\ work.routing = mem.domain

ReadBackRouting ==
  /\ pc \in {"checkRouting", "recheckRouting"}
  /\ \/ /\ RoutingReadBack
        /\ Persist(Routing("CONFIRMED"), "content")
        /\ history' = [history EXCEPT !.routingInDoubt = FALSE]
        /\ UNCHANGED spent
     \/ /\ RoutingReadBack => FaultHappens
        /\ ~RoutingReadBack => UNCHANGED spent
        /\ Continue(mem, IF pc = "checkRouting" THEN "routingIncomplete"
                                                ELSE "routingUnknown")
        /\ UNCHANGED history
  /\ UNCHANGED <<request, read, platform>>

RecordRoutingFailure ==
  /\ \/ /\ pc = "routingIncomplete"
        /\ PersistThen(Routing("INCOMPLETE"), "SAVE_INCOMPLETE", "idle")
        /\ history' = [history EXCEPT !.routingInDoubt = FALSE]
     \/ /\ pc = "routingUnknown"
        /\ PersistThen(Routing("OUTCOME_UNKNOWN"), "SAVE_INCOMPLETE", "idle")
        /\ UNCHANGED history
  /\ UNCHANGED <<request, read, platform, spent>>

-----------------------------------------------------------------------------
(* The final save.                                                           *)
RevisionHeld ==
  mem.phase = "FINAL_SAVE_OUTCOME_UNKNOWN" => work.workId = mem.preSaveWorkId

ReadContent ==
  /\ pc = "content"
  /\ IF work.content = "final" \/ RevisionHeld
       THEN /\ read' = work
            /\ Continue(mem, IF work.content = "final" THEN "confirmContent"
                                                       ELSE "requestSave")
       ELSE Throw
  /\ UNCHANGED <<request, platform>>
  /\ Quiet

ConfirmContent ==
  /\ pc = "confirmContent"
  /\ PersistThen(Phase("FINAL_CONTENT_CONFIRMED"), "FINAL_SAVED", "verify")
  /\ UNCHANGED <<request, read, platform>>
  /\ Quiet

RequestSave ==
  /\ pc = "requestSave"
  /\ Persist([mem EXCEPT !.phase = "FINAL_SAVE_REQUESTED",
                         !.preSaveWorkId = read.workId], "save")
  /\ UNCHANGED <<request, read, platform>>
  /\ Quiet

Saved == [work EXCEPT !.content = "final", !.workId = work.workId + 1]

Save ==
  /\ pc = "save"
  /\ \/ /\ work' = Saved
        /\ Continue(mem, "saveResponded")
        /\ UNCHANGED spent
     \/ /\ FaultHappens                       \* stored as something else
        /\ work' = [Saved EXCEPT !.content = "other"]
        /\ Continue(mem, "saveResponded")
     \/ /\ FaultHappens                       \* no answer, or a rejection
        /\ work' \in {work, Saved}
        /\ Continue(mem, "saveUnknown")
  /\ UNCHANGED <<request, read, source, history>>

RecordSaveResponse ==
  /\ pc = "saveResponded"
  /\ PersistThen(Phase("FINAL_SAVE_RESPONDED"), "FINAL_SAVED", "verify")
  /\ UNCHANGED <<request, read, platform>>
  /\ Quiet

RecordSaveUnknown ==
  /\ pc = "saveUnknown"
  /\ PersistThen(Phase("FINAL_SAVE_OUTCOME_UNKNOWN"), "SAVE_INCOMPLETE", "idle")
  /\ UNCHANGED <<request, read, platform>>
  /\ Quiet

UncheckedVerify == TRUE          \* mutant: the read-back is not compared
VerifyMatches == work.content = "final"

Verify ==
  /\ pc = "verify"
  /\ IF VerifyMatches
       THEN PersistThen(Phase("POST_SAVE_VERIFIED"), "POST_SAVE_VERIFIED", "complete")
       ELSE PersistThen(Phase("POST_SAVE_MISMATCH"), "SAVE_INCOMPLETE", "idle")
  /\ UNCHANGED <<request, read, platform>>
  /\ Quiet

Complete ==
  /\ pc = "complete"
  /\ pc' = "transition"
  /\ after' = [to |-> CompletionStatus(mem.kind), then |-> "idle"]
  /\ UNCHANGED <<request, status, disk, mem, read, platform, spent, history>>

-----------------------------------------------------------------------------
(* transitionIfNeeded: nothing to do when the status is already there, an    *)
(* INVALID_JOB_TRANSITION error when the graph has no such edge.  After the  *)
(* final save's response the error is caught with the save's own errors.     *)
Transition ==
  /\ pc = "transition"
  /\ IF status = after.to \/ Allowed(status, after.to)
       THEN /\ status' = after.to
            /\ UNCHANGED disk
            /\ IF after.then = "idle"
                 THEN Forget
                 ELSE /\ pc' = after.then
                      /\ after' = NoTransition
                      /\ UNCHANGED <<mem, read>>
       ELSE IF mem.phase = "FINAL_SAVE_RESPONDED" /\ after.then = "verify"
              THEN /\ pc' = "saveUnknown"
                   /\ after' = NoTransition
                   /\ UNCHANGED <<status, disk, mem, read>>
              ELSE Throw
  /\ UNCHANGED <<request, platform>>
  /\ Quiet

(* The process is killed, or a platform read fails: the run ends where it    *)
(* is.  A case created and not yet checkpointed is then an orphan.           *)
Interrupt ==
  /\ pc # "idle"
  /\ spent.interrupts < MaxInterrupts
  /\ spent' = [spent EXCEPT !.interrupts = @ + 1]
  /\ Throw
  /\ history' = [history EXCEPT !.orphans =
                   IF pc \in {"created", "createUnknown"} THEN @ + 1 ELSE @]
  /\ UNCHANGED <<request, platform>>

-----------------------------------------------------------------------------
(* Other users of the platform.                                              *)
EditSource ==
  /\ EditHappens
  /\ source' \in {[source EXCEPT !.workId = @ + 1], [source EXCEPT !.config = @ + 1],
                  [source EXCEPT !.domain = @ + 1]}
  /\ UNCHANGED <<request, status, disk, mem, pc, after, read, work, history>>

TargetExists == mem.target \in Nat \/ disk.target \in Nat

EditTarget ==
  /\ TargetExists
  /\ EditHappens
  /\ work' \in {[work EXCEPT !.content = "other", !.workId = work.workId + 1],
                [work EXCEPT !.config = 0], [work EXCEPT !.routing = 0],
                [work EXCEPT !.paths = @ + 1]}
  /\ history' = [history EXCEPT !.touched = TRUE]
  /\ UNCHANGED <<request, status, disk, mem, pc, after, read, source>>

-----------------------------------------------------------------------------
Create ==
  \/ Preflight \/ RecheckSource \/ ReadEnvironment \/ RequestCreate
  \/ CreateAnswered \/ CreateFails \/ RecordCreateRejected
  \/ RecordCreateUnknown \/ RecordCreated
Configure ==
  \/ ReadConfig \/ WriteConfig \/ CheckConfig \/ RecordConfigIncomplete
Route ==
  \/ ReadRouting \/ FreezeRouting \/ CompareRouting \/ WriteRouting
  \/ ReadBackRouting \/ RecordRoutingFailure
FinalSave ==
  \/ ReadContent \/ ConfirmContent \/ RequestSave \/ Save
  \/ RecordSaveResponse \/ RecordSaveUnknown \/ Verify \/ Complete

RunStep == Create \/ Configure \/ Route \/ FinalSave \/ Transition
Resume == \E intent \in Intents : Start(intent)

Next == Resume \/ RunStep \/ Interrupt \/ EditSource \/ EditTarget

Spec == Init /\ [][Next]_vars

(* The operator resumes an unfinished Save As, and a run that is not cut     *)
(* short takes its next step.                                                *)
FairSpec == Spec /\ WF_vars(Resume) /\ WF_vars(RunStep)

-----------------------------------------------------------------------------
(* Every case Save As creates beyond the first one goes back to a run that   *)
(* was cut between the platform's creation of a case and the checkpoint that *)
(* says so: no resume, rejected request, configuration failure or repeated   *)
(* run creates a second target in any other way.                             *)
CreatesBound == history.cases <= 1 + history.orphans

(* A Job on the diagnostic path never ends as SUCCEEDED, and one on the      *)
(* validated path never as DIAGNOSTIC_COPY_CREATED, whichever resume command *)
(* is issued at any of the statuses the two paths share.                     *)
PathsKeepApart == status \in Completed => status = CompletionStatus(request.intent)

(* The case that the platform wrongly returned, the source or an earlier     *)
(* Job's target, is never written: not its configuration, its routing or its *)
(* content, by this run or a resumed one.                                    *)
ForeignCaseIntact ==
  \A nid \in {mem.target, disk.target} :
    nid = Source \/ (request.additional /\ nid = Prior) => work = OtherCase

(* When the Job completes and nobody else changed the target, the target     *)
(* holds the final work, the frozen configuration and the source's frozen    *)
(* domain routing, however often the run was cut and resumed.                *)
Delivered ==
  status \in Completed /\ ~history.touched =>
    /\ work.content = "final"
    /\ work.config = disk.config
    /\ work.routing = disk.domain

(* The write-ahead journal is never behind the Job status: a status that     *)
(* claims a target, a confirmed routing or a verified save is backed by the  *)
(* checkpoint a crash would leave.                                           *)
StatusFollowsJournal ==
  /\ status \in {"SAVE_AS_CREATED", "FINAL_SAVED", "POST_SAVE_VERIFIED"} \cup Completed
       => disk.target \in Nids
  /\ status \in {"FINAL_SAVED", "POST_SAVE_VERIFIED"} \cup Completed
       => disk.routing = "CONFIRMED"
  /\ status = "SAVE_INCOMPLETE"
       => disk.target \in Nids \/ disk.phase = "CREATE_OUTCOME_UNKNOWN"
  /\ status \in Completed => disk.phase = "POST_SAVE_VERIFIED"

(* No routing write is sent while the outcome of an earlier one is not       *)
(* known, be it recorded as unknown or lost with the run that sent it.       *)
RoutingNotReplayed == pc = "writeRouting" => ~history.routingInDoubt

(* Once a target is checkpointed, the source configuration and the domain    *)
(* binding it is given are those frozen before its creation.                 *)
FrozenAtCreation ==
  [][disk.target # NoCase =>
       disk'.config = disk.config /\ disk'.domain = disk.domain]_vars

(* A final save that was requested again after an unknown outcome names the  *)
(* revision the first request saw.                                           *)
RetryKeepsRevision ==
  [][disk.phase = "FINAL_SAVE_OUTCOME_UNKNOWN" /\ disk'.phase = "FINAL_SAVE_REQUESTED"
       => disk'.preSaveWorkId = disk.preSaveWorkId]_vars

(* A known target can be resumed (src/README.md:385): a Job with a           *)
(* checkpointed target that requires no reconciliation gets completed.       *)
NeedsReconciliation ==
  disk.phase \in StickyPhases \/ disk.routing \in {"REQUESTED", "OUTCOME_UNKNOWN"}
KnownTargetCompletes ==
  disk.target # NoCase ~> status \in Completed \/ NeedsReconciliation

(* The same of a Job whose runs all come to their end, and whose source and  *)
(* target nothing else changes: lost answers and refused requests, in any     *)
(* order, leave nothing that a repeated resume cannot complete.              *)
UninterruptedTargetCompletes ==
  disk.target # NoCase ~>
    \/ status \in Completed \/ NeedsReconciliation
    \/ spent.interrupts > 0 \/ spent.edits > 0 \/ source.workId # PinnedWorkId

(* `resume` and `retry` never create a second target                         *)
(* (src/docs/WORKFLOW-RUNTIME-VALIDATION-AND-REPAIR-DESIGN.md:995).          *)
SingleTarget == history.cases <= 1
=============================================================================

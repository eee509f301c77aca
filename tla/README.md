# Verification of ivx-v4-v5-migration

TLA+ models, TLC runs and TLAPS proofs for the iVX V4 to V5 migration workflow
(`src/src`, JavaScript). The workflow is a command-line program: every command is
a process of its own that reads and writes JSON files under one home directory
and calls the iVX platform over HTTP. Nothing stays in memory between commands,
several commands may run at once, any of them may be killed, and a platform call
may be rejected, may fail, or may take effect without being answered. What the
program promises is mostly about that: an interrupted command can be repeated,
nothing is written to the platform twice, and no file claims more than happened.

## 1. Inventory

| Component (sources under `src/src`) | State | Operations | Hard part |
|---|---|---|---|
| File locks (`fs/file-lock.js`) | one file per lock, with the owner's pid | acquire, takeover from a dead owner, release | takeover is a judgement and an unlink in two calls; processes die anywhere |
| Target write lease (`platform/target-write-lease.js`) | a lock file per target nid | wraps every writer of a target | held by Refresh, Repair and the start of a runtime cycle, not by Save As |
| Job store (`jobs/job-store.js`, `jobs/states.js`, `jobs/intents.js`) | a directory per Job with `state.json` and artifacts, one shared registry | create, transition, load, list, per-Job lock and operation leases | the registry is rewritten by read-modify-write without a lock of its own; state and registry are two writes |
| Migration pipeline (`cli.js`) | Job status, artifacts of each stage | migrate, dry run, classify, apply-patch, authorize a diagnostic save, resume | a cut pipeline, reports that are older than the repaired work |
| Save As (`platform/save-as-orchestrator.js`) | journal on disk and in memory, Job status | create target, copy configuration and routing, save, read back, complete; resume | crash between call, journal and status; unknown outcomes of three different writes |
| Platform adapter (`platform/http-adapter.js`) | none | requests, outcome classes, revision checks | rejected, failed and unanswered calls look alike |
| Refresh (`refresh/*.js`) | plan, Authorization, write journal, `state.json` | prepare, authorize, apply, reconcile, finalize | one write per plan, four commands at once, crash between journal and state |
| Review store (`reviews/*.js`) | a directory per Review, shared registry | create, observe, accept, cycles, findings, repairs, succession after a Refresh | one write-capable Review per target revision; succession in four steps |
| Runtime repair (`repair/*.js`) | proposals, batches, budgets, Review status | propose, validate, update the target, reconcile | crash at the write, budgets counted in several files |
| Version classifier (`workflow/version-classifier.js`) | none | classify a case from metadata and work | conflicting evidence |
| Releases (`releases/*.js`) | installed artifacts, `current.json` with the active set and its history | check, install, activate, coordinated activation, rollback, pin by a Job | commands that overlap or are cut between two kinds; ranges in both directions |
| Runtime exploration (`runtime/*.js`) | authorization, claim, `state.json`, checkpoint, report | authorize, prepare, run, resume | a crawl cut anywhere, budgets over all resumes, what a verdict may leave out |
| Environment gate (`environment/*.js`) | none | evaluate fields, assertions, projections, status | a registry of rules against a status of one word |
| Diagnosis and repair budgets (`diagnosis/*.js`, `repair/repair-engine.js`) | budget of an Issue Cluster | decide, propose, extend | the decision, its contract and the acceptance are three pieces of code |
| Issue classification (`contracts/compatibility.js`, `contracts/schema-v2.js`) | none | validate two formats, migrate the first | two formats that have to decide alike |
| Patch policy (`workflow/patch-policy.js`) | none | allow and apply a patch | paths that mean something else once an array has moved |
| Other contracts, knowledge cards, validators, converter bridge | none or configuration | checks of JSON data | data, not behaviour |
| Configuration, paths, errors, token prompt, work codec, agent installer, scripts | files | pure I/O | none |

How they interact. Commands share nothing but files and the platform. `withLock`,
`withOperationLease` and the target write lease are all lock files. A command that
changes a Job, a Refresh or a Review loads its `state.json`, changes it and writes
it back under the lock of that object, then updates a shared registry. JSON writes
go to a temporary file that is renamed (`fs/secure-json.js`), so one write is
atomic; two writes are not. The Save As of a Job is followed by Reviews of its
target; a Review may repair the target; a Refresh replaces the target's content and
supersedes the Reviews of the old revision.

What makes each part correct is stated in section 3 as properties and in section 4 as theorems; `PROJECT.json`
lists the hazards they answer, each at its line, and the ones no property covers yet.

## 2. Plan

In the order of the damage an error would do, and of how far a test can reach:

1. `FileLock`: the lock everything else relies on. Done, with proofs.
2. `JobStates`, `SaveAs`: what is created and written on the platform. Done, with
   proofs of type correctness and of the bound on created cases.
3. `OneShotWrite`, `Refresh`: the one write of an authorized plan, as an abstract
   specification and the protocol that implements it. Done; the implementation and
   every safety property of the run are proved for every bound.
4. `TargetRepair`: propose, validate, write, read back, reconcile, the cycle that
   retests, and the budgets (3 + 2 attempts, 10 + 5 revisions), of one Review. Done; that it
   implements `OneShotWrite` per batch and its safety properties are proved.
5. `ReviewWriters`: several Reviews of one target, their write capability, and the
   succession after a Refresh. Done, proved.
6. `Pipeline` with `VersionClassifier`: the Job from its creation to the point where it
   may be saved, for several Jobs and their shared registry. Done, proved.
7. `Exploration` and `Releases`. Done; every safety property is proved.
8. The rules without state, as operators: `EnvironmentGate`, `RepairPolicy`,
   `IssueClassification`, `PatchPolicy`, `PlatformAdapter`. Done, proved.
9. Next: the places where two modules cut the same code down differently. `Refresh` treats the
   Review side of a finalization as one step and `ReviewWriters` treats the write as one; that
   each is an abstraction of the other there is argued in section 3 and not yet stated as a
   refinement. The same holds for the lock files, which every module but `FileLock` takes for
   ideal ones.

Runs stay small on purpose: two kills, two faults and one or two edits are the
smallest numbers with which a recovery can be interrupted, a retry can fail, and
somebody else can get in between.

## 3. The modules

A table names the runs of each module. A configuration that is no run is listed under
"Further configurations" at the end of this section.

### FileLock

`file` is the lock file (who created it, whether its JSON is there yet), `pc` the
next file-system call of each contender, `seen` the owner a contender read.
`Open`/`Reopen` are the two attempts of `acquireFileLock`, `WriteMetadata` and
`WriteFails` the write between them and the callback, `ReadOwner` and `JudgeOwner`
the two halves of `lockOwnerIsDead`, `Unlink` the takeover, `Release` is
`releaseFileLock`. `End` kills a process (or lets it exit). `overtaken` is a history
variable: some takeover unlinked a file other than the one it judged.

| Run | Properties | Shows |
|---|---|---|
| `FileLock_safety` | `ExclusiveUnlessOvertaken`, `NoAbandonedLock`, `DeadOwnerReclaimed` | the lock excludes unless a takeover raced; no readable lock is left without an owner, and one of a dead process is taken over |

Known from the model (`FileLock_live_lease`): two contenders judge one dead owner, and the
second unlinks the lock the first has taken over and still holds, where
`test/job-store.test.js:91` expects that a live lease is not reclaimed. A process killed
between open and write leaves an empty lock nobody removes (line 25), and a pid that was
given to another process keeps a dead owner's lock (line 14).

Bounds: three processes, the least that shows the race (a dead owner and two
contenders); the proofs hold for any set. No symmetry is used, because the run checks a
liveness property too. Fairness: commands for the object keep being issued and a critical
section ends. Nothing forces a failure.

### JobStates and SaveAs

`JobStates` is the transition table of `jobs/states.js`. `SaveAs` is one Job's Save
As. `mem` is the journal a run holds, `disk` the checkpointed one, `status` the Job
status, `pc` the next await or file write. `Persist` writes the journal, `PersistThen`
also schedules the status transition, which is a separate step (`Transition`) and may
be refused by the graph. `Interrupt` ends a run anywhere, which is also what a failed
platform read does. A later `Start` knows only `disk`, `status` and the platform.
`work` is the case the journal calls its target, `source` the source case;
`EditSource` and `EditTarget` are other users. A revision is a number; a configuration,
binding or routing is the version of the source's it derives from, 0 for anything else.
`history` counts created cases, cases lost to an interrupted run (`orphans`), remembers
whether the target was touched by others and whether a routing write is in doubt.

| Run | Properties | Shows |
|---|---|---|
| `SaveAs_safety` | `TypeOK`, `CreatesBound`, `PathsKeepApart`, `ForeignCaseIntact`, `Delivered`, `StatusFollowsJournal`, `RoutingNotReplayed`, `UninterruptedTargetCompletes` | two cut runs, two faults, one edit on both save paths: extra cases come only from cut runs, nothing foreign is written, completion means the target holds what was frozen, the status never runs ahead of the journal, and a known target whose runs were not cut completes or asks for reconciliation |

Known from the model: ways in which a resume does not do what the documentation says.
- A run cut after `saveAsV5` answered and before the `TARGET_CREATED` checkpoint leaves
  `CREATE_REQUESTED`, which the resumed run treats like `NOT_STARTED`: it creates a second
  case (`SaveAs_single_target`), although "`resume`/`retry` 永远不能创建第二个 target nid"
  (`src/docs/WORKFLOW-RUNTIME-VALIDATION-AND-REPAIR-DESIGN.md:995`). `CreatesBound` says
  that this is the only way.
- A run cut between its checkpoint and the status transition leaves a Job no resume can
  complete (`SaveAs_crash_resume`).
- Every run, also one with a known target, reads the source environment at the pinned
  `workId` (`save-as-orchestrator.js:241`); when Save As itself advanced it
  (`SourceMayAdvance`), every resume throws, although
  "A known target can resume config/final-save work" (`src/README.md:385`).
- Only `FINAL_SAVE_OUTCOME_UNKNOWN` is compared with the journaled revision (line 322): a
  run cut between the recorded response and the read-back is resumed by a new save over
  whatever mismatches, although such a mismatch "is not overwritten again automatically"
  (`src/docs/PLATFORM-INTEGRATION.md:65`).

Fairness: the operator resumes an unfinished Job, and a run that is not cut takes its
next step. Interrupts are bounded by `MaxInterrupts`, so a run is eventually left alone.

### OneShotWrite and Refresh

`OneShotWrite` is the promise: a permit is granted to a plan, spent before the one
request leaves, and the verdict on the plan, once given, is final, keeps the request
in, and says "refused" only if the platform refused. The request may take effect at
any later time. `Refresh` is the code: `status`, `granted` and `result` are
`state.json`, `plan` is `plan.json`, `journal` the phase of the write journal. Every
command has a `pc`, an observation (`read`) and may hold the target `lease`.
`MutateJournal` is `#mutateJournal`: status check, journal write, and then, as a
separate action `Commit`, the write of `state.json`; while `commit` is set the Refresh
lock is held and other mutations throw. `wire` is what became of the request; `Land` and
`Misland` act whether or not anybody waits. `WorkflowWrite` is another writer that takes
the lease (a Repair, or another Refresh with the same candidate); `EditTarget` and
`EditSource` are users who do not. `Expire` lets plan or Authorization run out.

A read of the target is one action: the code brackets configuration and content by two
metadata reads that must agree, so a read that succeeds equals one taken at the first.
The Review side of `#finalizeConfirmed` is one step; its four mutations are the subject of
`ReviewWriters`. `accepting` says whether the Reviews let the succession through: a Review
that is busy (`REFRESH_REVIEW_BUSY`) or a new one that is no longer open
(`REVIEW_STATE_MISMATCH`) refuses it, and the check in front of the write, every time and
for as long as it is so. `ReviewsChange` flips it as often as it likes. Commands that throw without changing a
file are not started in the model. A kill of `authorize` or `setPlan` between their two
files leaves a file no guard of a later command reads and is not modelled.

The refinement: `Permit` is spent once the journal exists, `Fate` follows `wire`,
`sends` counts calls of `saveWork`, `Verdict` follows the terminal statuses.

| Run | Properties | Shows |
|---|---|---|
| `Refresh_safety` | `TypeOK`, `KeepsPromise`, `ConfirmedMeansCandidate`, `LeaseKeepsBaseline`, `JournalAgrees`, `OutcomeSettled` | with two kills, two faults and one edit the Refresh implements `OneShotWrite`, confirms only a revision that held the candidate, writes over the authorized baseline as far as the lease reaches, its two files agree, one with a journal is closed whatever the Reviews say, and a confirmed one gets its succession recorded if the Reviews accept it from some time on |

Known from the model (`Refresh_single_read`): after a kill, one read of the old baseline
closes the Refresh as unknown while the request is in flight and may still land, although
the design asks for repeated reads (`src/docs/WORKFLOW-RUNTIME-VALIDATION-AND-REPAIR-DESIGN.md:1099`, `:1111`).
An edit between the baseline read and the save (`refresh-apply-orchestrator.js:31`) is
compared with nothing; the code leaves it to the platform.

Fairness: a running command takes its next step, the platform deals with a request that
is in flight, and the operator issues reconcile and finalize until they succeed, as the
README of the program tells him to. Authorize and apply are never forced. Nothing forces
the Reviews to accept a succession either: that is a condition of the second half of
`OutcomeSettled`, since a Review may stay as it is for ever.

### TargetRepair

One WRITE Review from a diagnosis to parity. `review` is the part of its `state.json`
the guards read, `batch` the Repair Batch files, `attempts`, `frozen` and `granted` the
cluster budget and the authorizations, `revisions` the session budget, `checkpoints` the
revisions with a CONFIRMED_TARGET_REVISION record, `environment` the latest comparison.
`writer` is the run or reconcile that holds the target write lease, step by step from
`prepareTargetRepairWrite` to confirm, mark or reset; `cycle` is the driver of a runtime
cycle and the `cycle.json` of the active one. `wire` and `works` are the platform, as in
`Refresh`. Every operation of the Review store holds the registry lock for its whole
length, so it is one action; but it writes its artifacts first and `state.json` last, and
may be killed, or throw on an assertion that follows the artifacts, in between:
`SaveState` says so for every operation, and `Confirm` names each file it has written.
Native observations, observed and accepted revisions, authorizations and diagnoses take
neither lease, and interleave with the writer and the driver.

Left out: environments that are not equivalent (they forbid repair), several Issue
Clusters, expiry of authorizations, allowances below the budget limits, side-effect
cycles (never resumed), `recover` (it refreshes the registry), and the other Reviews of
the target. What a validation or a browser finds is a choice. An observation is not
kept: it can be recorded at any later time and acceptance only checks that its baseline
is the current one.

| Run | Properties | Shows |
|---|---|---|
| `TargetRepair_safety` | `TypeOK`, `WriterOwnsBatch`, `VerifiedIsCounted`, `RetestsTheCandidate`, `KeepsPromise` | with a kill, a fault and an edit, each batch is a one-shot write, nobody touches the writer's batch, the session budget never undercounts (and is exact without a kill), and what is retested is a verified candidate |
| `TargetRepair_progress` | `OutcomeSettled` | without kills, reconcile settles every unknown outcome whose candidate the target holds |
| `TargetRepair_unreconcilable` | `UnknownIsReconcilable` (violated) | a run killed after its request leaves a batch no command takes up |

Known from the model: more orders of steps that contradict a document or an assertion of
the code, each found by TLC in this model, for which no run is kept. Lines are those of
`reviews/review-store.js`.
- A retest takes the latest verified batch (1739); when reconcile confirms an older batch
  after a newer one, parity closes the newer one, not the one of the confirmed revision
  (ADR 0005:19).
- A cycle may start from `BLOCKED_PLATFORM_RUNTIME` (866), so parity of the old revision
  can be reported while a repair write is undecided (ADR 0005:26).
- `confirmTargetRepairWrite` writes the session budget first (1561); a confirm killed
  there counts its revision again when it is repeated (`src/README.md:265`). Without a
  kill the count is exact (`VerifiedIsCounted`).
- A confirm killed behind its checkpoint throws `SAVEABLE_CHECKPOINT_CONFLICT` on every
  repetition (1843), so `OutcomeSettled` needs runs that are not killed.
- `completeRuntimeCycle` and `interruptRuntimeCycle` write `cycle.json` before
  `state.json`; killed in between, the active cycle can be neither resumed (909) nor
  replaced.
- `prepareRuntimeCycle` and `recordAgentNativeObservation` move the verified batch before
  `state.json`; killed in between, the Review waits for a retest no cycle can start (855).
  Without a kill this does not happen (`RetestHasBatch`).
- A `submit` of the Agent Native store killed before `review-recorded.json` records its
  observation once more when repeated, and sets the Review's status back.
- `acceptExternalRevision` writes no checkpoint for the accepted revision (1222), so every
  proposal for it throws (1851).

Bounds: two attempts and two revisions, the second of each from the extension, are the
least with which budgets meet their limits and an older batch is overtaken by a newer
one; one kill, one fault and one edit at once are enough for every order listed above.
Fairness: a started command takes its next step, the platform deals with a request, and
the operator reconciles a batch whose outcome is unknown again and again (strong
fairness, since other commands hold the lease in between). Cycles, proposals and
observations are never forced.

### ReviewWriters

Several Reviews of one target: `review` is each `state.json`, `entry` the shared
`registry.json` as each was last entered, `seen` the latest observation, `batch` the
Repair Batch whose write is out. `refresh` and `run` are each Refresh and the command that
works on it: `Check`, `CreateFromRefresh`, `SupersedeForRefresh` (`SupersedeSome` where it
is refused or killed half way), `EnableRefreshReviewWrite`, `RecordReviewSuccession` are the
steps of `#finalizeConfirmed`. A store operation holds the registry lock and is one action
that may die (`dies`) between `state.json` and `registry.json`; repairs and Refreshes hold
the target `lease` and interleave with everything that does not take it. `TargetRepair` and
`Refresh` are cut down to the steps the registry and the succession see. `history` says
which Reviews got their revision past no conflict check, and which wrote the revision a
Refresh replaced.

| Run | Properties | Shows |
|---|---|---|
| `ReviewWriters_safety` | `OneWriterIfChecked`, `PredecessorsGiveUp`, `SuccessionIsRecorded`, `SupersededIsFinal` | the conflict checks keep their promise where they look; a succession that is cut and repeated takes the capability of the old writers before it gives the new one its own, records all of them but one that had left the old revision itself, and nothing touches a superseded Review again |
| `ReviewWriters_two_writers` | `OneWriterPerRevision` (violated) | without any failure, one Review accepts the revision another has written and not confirmed yet |

Bounds: two Reviews, two Refreshes, three revisions and one kill let an old Refresh be
finalized after a newer one. Three Reviews with one Refresh and no kill, checked once by
hand (1.5 million states), show nothing more. With two kills (`ReviewWriters_more`) the registry
can list a Review at a revision it has left, because its acceptance or confirmation was
killed in front of `registry.json`; a succession that starts from this entry misses it, and
`SuccessionIsRecorded` says that this is the only way. A process may die only where the capability or
the revision of a Review changes; only the latest observation is kept, since any past
revision may be observed again. No fairness: the code promises no end of a succession.

Known from the model, for which no run is kept:
- An old WRITE Review that observes the refreshed revision becomes
  `TARGET_EXTERNALLY_MODIFIED`, and finalize is refused (`REFRESH_REVIEW_BUSY`, 1958) until a
  user ends it; a batch left in `WRITE_REQUESTED` refuses it for ever.
- When the new Review is used before a cut finalization is repeated, it is no longer open
  and `enableRefreshReviewWrite` throws for ever; the same holds for a Refresh whose Review a
  newer one has superseded.
- A kill between `state.json` and the registry in `createFromRefresh` leaves a READ_ONLY
  Review nobody lists, and the repetition creates another.

### VersionClassifier and Pipeline

`VersionClassifier` is `classifyCaseVersion` as operators: a case is the version claims of
its metadata and the event formats its objects show. `Pipeline` is a Job from its creation
to `READY_TO_SAVE`, `DRY_RUN_SUCCEEDED` or `READY_TO_SAVE_DIAGNOSTIC_COPY`. `state` is
`job.json` (status, mode, artifact, digest), `files` the other files of the Job, each named
by the issues in what it describes, `registry` the shared list. A command in `proc` stands
between two writes of files (`at`); `Transition` writes `state.json` under the Job's `lock`
and reads the registry, `WriteRegistry` writes it back with entries of others that may be
old by then. `Stop` is an error or a kill at any step.

| Run | Properties | Shows |
|---|---|---|
| `Pipeline_safety` | `ReportMatchesArtifact`, `OnlyRepairableIsPatched`, `EvidenceIsCurrent`, `Listed` | what is ready was validated as it is, only a case all of whose issues are repairable is patched, a diagnostic copy of an unrepaired case has current evidence, and the registry is wrong only about Jobs whose update was cut or overwritten |

Bounds: two Jobs and two commands, four commands in all and one of them beside another,
are the least with which an update of the registry is lost and repaired; one issue that
blocks and one that does not tell every verdict apart. Jobs and commands are
interchangeable, and no liveness is checked, so symmetry is sound. Four commands do not reach
a second repair of the same Job; the proofs, for any number of commands, cover it.
`ReportMatchesArtifact`, `OnlyRepairableIsPatched` and `EvidenceIsCurrent` except Jobs two
commands worked on at the same time, since only a transition takes the Job's lock, and
`EvidenceIsCurrent` a Job whose output a patch replaced: what goes wrong there is known from
the model (below), not excluded by a property.

Known from the model:
- After a failed repair, `job classify` and the authorization of a diagnostic copy read the
  report of the unrepaired output (`cli.js:560`, `:268`; the repair's own is written at 592):
  issues a patch has introduced are saved unclassified (`Pipeline_stale_evidence`), although
  "every issue must have a supported closed classification"
  (`src/docs/PLATFORM-INTEGRATION.md:56`).
- Two `apply-patch` commands at once mix the artifact of one with the validation and digest
  of the other, and Save As does not compare them.
- A load or a conversion that fails leaves the Job in the middle (`AUTHORIZED`,
  `SOURCE_LOADED`), `job create` leaves it in `RECEIVED`, and a validated Job cut in
  `ISSUES_CLASSIFIED` can never become `READY_TO_SAVE`: no command takes them further.

### Exploration

One authorization of an autonomous exploration: `grant`, `claim`, `status`, `sequence`,
`checkpoint` and `report` are its files, `crawl` is what the runner holds. `Start` resumes
from the checkpoint under the run lease; `RunPath`, `StopAtCostlyPath` and `StopCrawl` are
one turn of the loop, `WriteCheckpoint` and `Complete` the two operations of two files each,
with `CheckpointTorn` and `CompleteTorn` where the second write fails. `Kill` ends a runner
anywhere; `PathFails` and `FinishFails` are errors it survives as `INTERRUPTED`. What a
browser finds on a path is a choice, every time it is run. Seeds are given by their number
of actions, found paths by the controls that lead to them.

| Run | Properties | Shows |
|---|---|---|
| `Exploration_safety` | `ParityMissesOneAtMost`, `BudgetKept`, `RepeatsOnlyCutPaths`, `CheckpointsOnlyExtend`, `ResumedUntilComplete` | parity means that all was run and matched but for one path too costly to run; the authorized limits hold over all resumes; a resume repeats only the path it was cut in and forgets none; what is interrupted is completed |
| `Exploration_budget` | `ParityIsComplete` (violated) | the missing path: it is taken off the queue before its cost is looked at, and as the last one leaves a queue that counts as exhausted |

Bounds: six states and five actions are the least with which the goal of profile QUICK (5
states, 3 actions) can be reached before a limit; two plans, one with a costly last seed; one
fault and one kill. `Exploration_more` checks the same at limits so small that every one of
them stops a crawl, with two controls and a plan that fills the queue. Fairness: a runner
that lives takes its next step, and the user resumes an interrupted one, as the command
tells him to; faults are bounded, so one run is eventually left alone.

`BudgetKept` bounds the queue by its limit or, where the authorized plan alone is longer, by
the plan. The test for the depth of a path in the loop (runner 121) never decides, since
paths that are too deep are not queued; the type invariant says so.

Known from the model: a killed runner leaves `RUNNING`, which no command resumes
(runner 91, store 252); a kill or an error between `report.json` and `state.json` makes
every later completion a `REPORT_CONFLICT` (store 278); and two controls alike on a source
page become two paths with one id (runner 22, 193).

### Releases

Workflow, Converter and Knowledge versions of one home: `installed` and `current` are the
disk, `published` how far each channel is. A command (`pc`, `task`, `seen`, `todo`, `file`)
goes from await to await: `Plan` or `EvaluateInstall`, `InstallNext` per kind, `AssertFits`,
then `Commit` and `Write`, the read and the write of `current.json`, which nothing locks.
`Vet` and `Revert` are the two halves of a rollback. `StartJob` to `CreateJob` or `PinRefresh`
is the preflight of a new Job or a Refresh with its automatic updates, for the Converter of
`current.json` or the one of `--converter-path`, which need not be installed; `StartCreate`
and `PinCurrent` are `job create`, which pins what is active without a preflight. `Configured`
are the kinds with a channel (the others are `NOT_CONFIGURED` to the preflight, and only
Knowledge may be left out of a plan); the policies, one per kind, and `--use-current` are the
choice between `KeepVersion`, `AutoUpdate` and `Stop`. `Stop` is an error or a kill. `Accepts`
gives the ranges of every release in both directions.

Two history variables say what nothing in the code notices: `missed`, that another command
wrote `current.json` since this one last checked it ("after") or before that ("before"), and
`raced`, that an activation rested on a check that had missed a write.

| Run | Properties | Shows |
|---|---|---|
| `Releases_safety` | `RollbackReturns`, `SetStaysCompatible`, `JobsAreCompatible` | whatever overlaps or is killed: a rollback goes to another version; the active set stays compatible until an activation misses a write of another command; what a Job behind the preflight or a Refresh pins fits together |

`SetStaysCompatible` has two exceptions: `raced`, and a Converter alone, which no activation
holds against the launcher's Workflow. `JobsAreCompatible` has none for a Refresh, whose pins
are checked as they are taken. It excepts a Job behind the preflight if another command wrote
`current.json` while it was prepared, a Converter of `--converter-path` beside an active one
(the checks then hold the active one against the others), and a Job of `job create` that took
over a set outside `SetStaysCompatible` or read it in two states. Each exception was dropped
once, and TLC found the case it stands for.

Bounds: two commands, three starts, two versions per kind, a channel that publishes and
revokes, and a history of two entries, so that it overflows; ranges under which single
updates in some orders are refused; and a launcher with the newer Workflow, which the older
Converter does not accept.

Known from the model:
- Commands that overlap can activate an incompatible set, since `activateSet` neither locks
  nor checks again (`runtime-registry.js:60`), and a Job can pin a mixed set
  (`src/docs/RELEASING.md:73`, `src/README.md:313`, `:375`).
- A Job of `job create` pins what is active without any check (`cli.js:540`), also no
  Knowledge or a Converter that does not accept the launcher's Workflow, although a missing
  or incompatible runtime "blocks new Jobs" (`src/README.md:313`).
- With `--converter-path` beside an active Converter the final check of the preflight is
  about the active one (`update-preflight.js:90`), and the Job pins the other.
- After a coordinated update to a set that fits only as a whole, no rollback of one kind is
  accepted (`src/docs/RELEASING.md:198`).
- A Knowledge version applied without a managed Workflow makes later activations and
  rollbacks of one kind refuse, because the Workflow's ranges are on no disk.
- `rollback` checks its target against the channel, then looks the target up again
  (`update-manager.js:133`): another command in between changes what is rolled back to.
- `activateSet` refuses a version that is not installed (`RUNTIME_NOT_INSTALLED`), a guard of
  `Commit` that never fails: every path to it has chosen from what is installed, and nothing
  is uninstalled (`CommandOK`, section 4).
- An installation killed before its rename leaves a directory whose name is no version, and
  `registry.list` throws on it (`artifact-installer.js:84`).

### The rules without state

`EnvironmentGate`, `RepairPolicy`, `IssueClassification`, `PatchPolicy` and
`PlatformAdapter` are operators only: `evaluateEnvironmentGate` field by field; the decision of a
diagnosis, its contract and the acceptance of a proposal over one budget; the two formats of
an issue classification; one operation of a repair patch as a relation between the paths of
a document before and after; the outcome of a request and the routing of a target. They have
theorems instead of runs (section 4), since their inputs are not steps of a protocol.

Known from these modules:
- An irreparable cause found after the three initial attempts and before the end of the
  extension gets a decision its own contract refuses (`diagnosis-engine.js:169` against
  `schema-v2.js:1787`), so that `submitDiagnosis` throws; and `submitRepairProposal` ignores
  that a budget is `FROZEN` and thaws it.
- The look-up in `LEGACY_OWNER_MAP` accepts names every object inherits (`toString`) as
  owners of the first format.
- Removing or replacing an ancestor drops the protected fields below it: the policy only
  forbids to set them.
- A routing or configuration write refused with 401 or 403 counts as unknown, unlike a save,
  and waits for a reconciliation; a 2xx answer whose body cannot be read has no outcome.

### Further configurations

Not among the runs; each is a `.cfg` to be given to `tlc` with the module's MC module.

| Configuration | What it checks |
|---|---|
| `FileLock_live_lease`, `SaveAs_single_target`, `SaveAs_crash_resume`, `Refresh_single_read`, `Pipeline_stale_evidence` | the violations described above |
| `FileLock_more`, `SaveAs_more`, `TargetRepair_more`, `Exploration_more`, `Releases_more`, `Pipeline_more`, `ReviewWriters_more` | type invariants and further properties of the modules, which hold; `Releases_more` runs without a Knowledge channel |

## 4. What is proved

Every safety invariant and every action property that a passing run checks is a theorem
of its module's specification, for every value of the constants. The pattern is the same
everywhere: the properties themselves are not inductive, so a stronger `IInv` is proved
(`Init => IInv`, and one lemma per action that the step keeps it), and the properties follow.
What makes each `IInv` inductive is the interesting part:

`FileLockProofs` (any set of processes). `ExclusionUnlessOvertaken`, `ExclusionWithoutDeath`:
that two holders are one needs that a holder owns the file, which a takeover breaks unless
it still sees the file it judged; hence `OwnerInv` relates `pc`, `file`, `seen` and
`overtaken`. `NoLockAbandoned` is inductive with the types: a lock file with metadata
belongs to a holder or to a process that has ended.

`SaveAsProofs` (every bound). `CreateInv` ties the journal phases on disk and in memory to
the step of the run and to the number of created cases (no target and no unknown outcome
means every case created so far was orphaned); `CreationBounded` follows. `TargetStoryInv`
says what one target goes through: the run's journal is the checkpoint but for the target
just given and the source reads (`JournalInv`); every status, and the one about to be set,
is backed by what is on disk (`StatusInv`); a routing write of unknown outcome is one the
checkpoint remembers (`DoubtInv`); a run that was given a foreign case only ends
(`ForeignInv`); the rest keeps what was frozen, the revision of the first save request, and
what a run has established of a target nobody else touched. From it: `PathsStayApart`,
`StatusIsBacked`, `ForeignCaseIsSafe`, `NoRoutingReplay`, `CompletedIsDelivered`, and over
steps `FrozenStays` and `RevisionStays`.

`RefreshProofs` (every bound). `Implements`: a Refresh is a one-shot write
(`Spec => KeepsPromise`). `IInv` says how far the permit is wherever a command stands: before
apply has requested, there is no journal; when it is about to send, the journal exists,
nothing was sent and the status is not terminal; whoever works on the target holds its
lease; and what a mutation that wrote only the journal is about to write. The last two are
why no second command can close the Refresh between apply's journal and its request: only
the adoption of an interrupted write happens without the lease, and it leaves the Refresh
open. Then every action is mapped: the preparation and the locks stutter, `Authorize`
grants, `MarkWriteRequested` spends, `SaveWork` sends, the platform lets the request take
effect, `Block` and `MarkPlanStale` abandon, and `Commit`, not the write of the journal,
decides. Three more invariants build on `IInv`: `OutcomeInv` ties the journal to the status a
pending mutation will write (`StatusFollows`, `JournalsAgree`); `CandidateInv` says that
whatever a command read as the candidate was written there, and that a pending confirmation
rests on such a read (`ConfirmationsAreTrue`); `BaselineInv` says that what apply compared
with the plan is still there, because the lease keeps the other writers out and nothing was
sent yet (`BaselineKept`).

`TargetRepairProofs` (every limit and bound). `WriteInv`: how far the permit of the batch in
hand is wherever a command stands, what the writer knows of its request, and that it writes
for a batch that is its own (`WriterOwns`). `CountInv`: a verified batch has a checkpoint with
its candidate and is counted, and without a kill no other is (`VerifiedAreCounted`,
`CheckpointsStayValidated`). `ReviewInv`: a Review that waits for a retest or runs it has the
candidate of a verified batch as its baseline and, without a kill, its batch
(`CandidateIsRetested`, `RetestFindsBatch`).
`Implements`: each batch is a one-shot write, the same abstract specification that a Refresh
implements.

`ReviewWritersProofs` (any Reviews, Refreshes and bounds). `IInv` relates the registry to the
records: what is listed exists, an entry shows what its record says or lags behind it, a
command that finalizes holds the lease and has one Review at most, before its write a
Refresh has neither a Review nor predecessors, a superseded Review stays so, what has been
superseded is what will be recorded, and a predecessor that still writes is listed at the
old revision (`HeldAreListed`), which is where the succession looks for it. Every step is
classified by the one Review or the one Refresh it changes; the lemmas are about those
classes. From it
`OneWriterHolds`, `PredecessorsHaveGivenUp`, `SuccessionRecorded`, and over steps
`SupersededReviewsAreFinal`.

`ExplorationProofs` (any plans and limits the validators accept). `FilesInv`: the checkpoint
of a plan that is ready can be resumed. `RunnerInv`: what the runner holds is what it would
load, or is one path ahead of it, or lacks the path whose budget ran out. `ReportInv`: the
report on disk, and the one about to be written, come from the checkpoint. From these
`BudgetIsKept`, `ParityMissesAtMostOne`, `OnlyCutPathsRepeat`, `SequenceIsBehind`,
`ReportTellsCheckpoint`, and over steps `CheckpointsExtend`.

`ReleasesProofs` (any commands, versions, ranges, channels and history limit). `FileInv`:
`current.json` and every file about to replace it is `Sound` (it names what is installed, the
newest entry of a kind differs from what is active, the history keeps its limit).
`CommandInv`: where each command is and what it has still to install. `CheckInv`: what a
command has checked holds until it misses a write, and what the command of a new Job knows of
the active set is so until it has missed one. `RacedInv`: the active set and whatever is about
to replace it fit until an activation has rested on a check that missed a write. A step keeps
them because it either leaves `current.json` alone or marks every other command (`StepKeeps`).
From these `RollbacksReturn`, `SetIsCompatible`, `JobsPinCompatible`.

`PipelineProofs` (any sources, commands and Jobs). `ReadInv` types what a command has read,
also when commands overlap; `RegistryInv` says who may be about to write the registry (the
holder of the lock, or the one command that created the Job) and that it writes the status
on disk; `FlowInv` says, of a Job whose commands do not overlap, what its files say of each
other (`JobOK`) and for each point where a command may stand what it read and which status it
found (`StageOK`). From these `ReportsMatch`, `RepairableIsPatched`, `EvidenceHolds` and
`RegistryIsCurrent`. The first three except Jobs that overlapping commands worked on, as
`FlowInv` does (section 3 names what those can mix); `RegistryIsCurrent` only those
whose update was cut or overwritten.

`PipelineProofs` also holds the theorems about the operators without state, for every input:
- `ConvertibleIsV4`: what is converted had a work in which no object shows the V5 or the
  legacy event format, whatever the order of the classifier's tests.
- `GateIsEquivalence`: the gate's dispositions, its projections and the status they add up
  to say exactly that every field `Matches` by its own rule; `AssertionsAnswerForBindings`:
  what a user asserts neither blocks nor unblocks another field. Both assume `RegistryOK`,
  that the policy registry remaps the projected routes, as `field-policy.js` does.
- `BudgetStaysConsistent`, `DecisionsAndProposalsAgree`, `DecisionIsValidUnlessUnrecordable`:
  the three pieces of code about a cluster's budget agree, but for the two exceptions below.
- `MigrationKeepsDecision`, `RepairMeansAllRepairable`, `OnlyInheritedOwnersLackBucket` (this
  one under `NamesOK`): the two formats of a classification send a Job the same way, and
  "all are repairable" is what that way means although converter defects are tested first.
- `ProtectedIsNotSet`, `OutsideRootsUntouched`: one operation of an allowed patch gives no
  protected field a value and changes nothing outside `case`, `stage` and `server`, although
  a splice moves what follows it. `SegmentsOK` says that keys are no numbers. The theorems
  are per operation: the induction over the operations of a patch is out of the prover's
  reach, and its step is what they prove. They rest on lemmas about paths (`UptoPath`,
  `MovedPath`, `AtPath`, `KeptNode`).
- `MatchShowsBuiltRouting`, `StoredRoutingMatches`: the read-back recognises the routing that
  was built and nothing else; the second assumes `Stores`, that the platform returns what it
  was given, the one external assumption.

Their argument is a case distinction on the rule that applies, a lemma per rule, and then
the quantifier over fields, issues or nodes.

The proofs assume the named ASSUMEs of the modules, and the hypotheses just named: the markers for "nothing"
are not among the values they stand for (`NothingAssumption`, `RecordAssumption`,
`NameAssumption`, ...), the bounds are natural numbers, the limits, goals and seeds of an
exploration are such as the validators let pass, and a release payload retains its latest
version (`ChannelAssumption`), which `release-envelope.js:27` checks. TLC evaluates them in
the runs.

What the attempts showed of the models, and what was changed for it:
- `SuccessionIsRecorded` was false with two kills: a Review whose entry was left behind by
  the first is superseded by an attempt the second cuts off, and the next attempt does not
  find it. It now says that this is the only way one is missed (`ReviewWriters`, section 3).
- `BudgetKept` was false for a plan longer than the queue limit, which no run had: the
  queue starts longer than its limit then. It now bounds the queue by the longer of both.
- The `continue` in the loop of the exploration runner
  (`autonomous-exploration-runner.js:121`) and the error `RUNTIME_NOT_INSTALLED`
  (`runtime-registry.js:57`) cannot be reached.
- `JobsAreCompatible` was false in the program for `job create` and for `--converter-path`,
  which the model had left out; it now says for each way of pinning what the code checks.
- What overlapping pipeline commands have read is of the right kind although the properties
  of a Job no longer hold; its types need an invariant of their own (`ReadInv`).

Only model-checked: everything under fairness (`DeadOwnerReclaimed`,
`UninterruptedTargetCompletes`, `OutcomeSettled`, `ResumedUntilComplete`), since `ENABLED` and
liveness are out of the prover's reach, and the violated properties. That the result of a
patch is a document again was evaluated on small documents only.

## 5. Not modelled

The parts marked `not_modelled` in `PROJECT.json` with their reasons are pure I/O (tokens,
codec, configuration, installers, scripts). Of the parts marked `partly`: browser control
and visual comparison, HTTP encoding and envelope signatures, field-by-field validation of
JSON records, diagnosis reports and knowledge cards, listing and rendering commands, and
the converter, an external package. They are data or I/O without a protocol.

Inside the modelled parts: the platform's own treatment of a stale `workId` on a save (the
code does not determine it), the lineage search of `refresh prepare`, the registry of
Refreshes, `createV2MigrationCopy`, human findings that leave the status alone, and the
wording of errors.

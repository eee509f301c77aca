------------------------------ MODULE Exploration ------------------------------
(***************************************************************************)
(* Autonomous read-only exploration of a V4 source and its V5 target: one   *)
(* authorization, the plan that claims it, the breadth-first crawl with a   *)
(* checkpoint after every path, and the report that ends it.  Sources:      *)
(* src/src/runtime/exploration-store.js,                                    *)
(* src/src/runtime/autonomous-exploration-runner.js and the browser runs of *)
(* src/src/runtime/playwright-exploration-driver.js.                        *)
(*                                                                          *)
(* Store operations exclude each other by the exploration lock and write    *)
(* their files one at a time.  At most one runner lives at a time: the run  *)
(* lease (a FileLock) excludes the others and is free again once its owner  *)
(* is dead.  A path is named by the seed it starts from (0 for the root)    *)
(* and the controls followed from there; what the browser finds on it is a  *)
(* choice of the model, every time the path is run.                         *)
(***************************************************************************)
EXTENDS Naturals, Sequences

CONSTANTS
  Plans,       \* plans submitted for the authorization
  NoPlan,      \* nobody has claimed it
  Nothing,     \* a file that does not exist
  Keys,        \* logical control keys the two applications share
  Seeds,       \* of each plan: the number of actions of its seed paths
  MaxStates, MaxActions, MaxDepth,   \* the authorized limits
  MinStates, MinControls,            \* the coverage goal of the plan
  MaxPairs,    \* bound: controls paired on one page and not yet followed
  MaxFaults,   \* bound: calls of a runner that throw
  MaxKills     \* bound: processes killed

ASSUME LimitAssumption ==
  /\ MaxStates \in Nat \ {0} /\ MaxActions \in Nat \ {0} /\ MaxDepth \in Nat
  /\ MaxActions + 1 >= MaxStates                \* validateExplorationLimits
  /\ MinStates \in 1 .. MaxStates /\ MinControls \in 0 .. MaxActions
(* The goal reaches the minimum of profile QUICK, or the limit if smaller.   *)
ASSUME GoalAssumption ==
  /\ MinStates >= 5 \/ MinStates = MaxStates
  /\ MinControls >= 3 \/ MinControls = MaxActions
MaxSeeds == 20
ASSUME SeedAssumption ==                        \* validateRuntimeExplorationPlan
  /\ Seeds \in [Plans -> Seq(0 .. MaxDepth)]
  /\ \A plan \in Plans : Len(Seeds[plan]) <= MaxSeeds
ASSUME NameAssumption == NoPlan \notin Plans
ASSUME ExplorationBounds == MaxPairs \in Nat /\ MaxFaults \in Nat /\ MaxKills \in Nat

VARIABLES
  grant,      \* the authorization: none, torn (its manifest was not written) or made
  diagnostic, \* environmentMode is ALLOW_DIAGNOSTIC
  stale,      \* what time and others do: the grant expired, Job artifacts changed,
              \*   the authorized duration is used up
  claim,      \* the plan in claim.json
  status,     \* status in state.json
  sequence,   \* checkpointSequence in state.json
  checkpoint, \* checkpoint.json
  report,     \* report.json
  pc,         \* where the runner is, "idle" when there is none
  crawl,      \* the runner's copy of the checkpoint
  runs,       \* paths run in the browsers so far, for the properties only
  spent       \* how much of each bound is used

vars == <<grant, diagnostic, stale, claim, status, sequence, checkpoint, report, pc,
          crawl, runs, spent>>
scope == <<grant, diagnostic, claim>>

-----------------------------------------------------------------------------
Statuses == {"NONE", "READY", "RUNNING", "INTERRUPTED", "COMPLETED"}

(* How a browser run of one side ends, and what the runner makes of the two:  *)
(* a side that failed or met a network guard has no comparable state.        *)
SubjectStatuses == {"COMPLETED", "COMPLETED_WITH_ERRORS", "BLOCKED", "FAILED"}
PathStatus(source, target, same) ==
  IF {source, target} \cap {"BLOCKED", "FAILED"} # {} THEN "BLOCKED"
  ELSE IF same THEN "MATCHED" ELSE "DIVERGED"
PathStatuses ==
  {PathStatus(source, target, same) :
     source \in SubjectStatuses, target \in SubjectStatuses, same \in BOOLEAN}

Verdicts ==
  {"MISMATCH_DETECTED", "INCONCLUSIVE", "PARTIAL_PARITY_PASSED", "EXPLORATION_PARITY_PASSED"}

KeyLists == UNION {[1 .. n -> Keys] : n \in 0 .. MaxDepth}
Paths == [seed : 0 .. MaxSeeds, keys : KeyLists]

(* Fields depth and incrementalActions of a queue entry.                     *)
SeedActions(path) == IF path.seed = 0 THEN 0 ELSE Seeds[claim][path.seed]
Depth(path) == SeedActions(path) + Len(path.keys)
Increment(path) == IF path.keys = <<>> THEN SeedActions(path) ELSE 1

RootQueue == [i \in 1 .. Len(Seeds[claim]) + 1 |-> [seed |-> i - 1, keys |-> <<>>]]

(* counters.states is the number of results.  `found` counts the paths ever  *)
(* queued or refused by the full queue: a history the properties read.       *)
FirstCheckpoint ==
  [queue |-> RootQueue, results |-> <<>>, actions |-> 0, found |-> Len(RootQueue)]
NoCrawl == [queue |-> <<>>, results |-> <<>>, actions |-> 0, found |-> 0]

Crawled(c) == Len(c.results)
Occurs(c, s) == \E i \in DOMAIN c.results : c.results[i].status = s

Init ==
  /\ grant = "none" /\ diagnostic = FALSE
  /\ stale = {}
  /\ claim = NoPlan
  /\ status = "NONE" /\ sequence = 0
  /\ checkpoint = Nothing /\ report = Nothing
  /\ pc = "idle" /\ crawl = NoCrawl
  /\ runs = 0
  /\ spent = [faults |-> 0, kills |-> 0]

(* What this authorization cannot undo, at the moments somebody looks: when  *)
(* it expires, when a file of the Job changes, when the time allowed since   *)
(* the first start is used up.                                               *)
GoesStale ==
  /\ grant = "made"
  /\ \/ pc = "idle" /\ stale' = stale \cup {"expired"}
     \/ status = "NONE" /\ stale' = stale \cup {"job"}
     \/ pc = "loop" /\ stale' = stale \cup {"duration"}
  /\ UNCHANGED <<scope, status, sequence, checkpoint, report, pc, crawl, runs, spent>>

(* authorize: the environment is equivalent or the user asked for a          *)
(* diagnostic run.  A torn authorization is useless and is made again under  *)
(* a new id.                                                                 *)
Authorize ==
  /\ grant # "made"
  /\ grant' = "made"
  /\ diagnostic' \in BOOLEAN
  /\ UNCHANGED <<stale, claim, status, sequence, checkpoint, report, pc, crawl, runs, spent>>

AuthorizeCut ==
  /\ grant = "none" /\ spent.kills < MaxKills
  /\ grant' = "torn"
  /\ spent' = [spent EXCEPT !.kills = @ + 1]
  /\ UNCHANGED <<diagnostic, stale, claim, status, sequence, checkpoint, report, pc, crawl, runs>>

(* prepare: the plan claims the authorization or is the one that claimed it. *)
Preparable(plan) ==
  /\ grant = "made" /\ stale \cap {"expired", "job"} = {}
  /\ claim \in {NoPlan, plan}

Prepare(plan) ==
  /\ Preparable(plan) /\ status = "NONE"
  /\ claim' = plan
  /\ status' = "READY" /\ sequence' = 0
  /\ UNCHANGED <<grant, diagnostic, stale, checkpoint, report, pc, crawl, runs, spent>>

(* Killed after claim.json.                                                  *)
PrepareCut(plan) ==
  /\ Preparable(plan) /\ claim = NoPlan /\ spent.kills < MaxKills
  /\ claim' = plan
  /\ spent' = [spent EXCEPT !.kills = @ + 1]
  /\ UNCHANGED <<grant, diagnostic, stale, status, sequence, checkpoint, report, pc, crawl, runs>>

-----------------------------------------------------------------------------
(* The runner, under its lease.                                              *)

RestartedCrawl == FirstCheckpoint   \* mutant: the checkpoint is not loaded
ResumedCrawl == IF checkpoint = Nothing THEN FirstCheckpoint ELSE checkpoint.crawl

(* exploration-run and exploration-resume: load, revision guard, markRunning. *)
Start ==
  /\ pc = "idle"
  /\ status \in {"READY", "INTERRUPTED"} /\ "expired" \notin stale
  /\ status' = "RUNNING"
  /\ crawl' = ResumedCrawl
  /\ pc' = "loop"
  /\ UNCHANGED <<scope, stale, sequence, checkpoint, report, runs, spent>>

(* The loop ends: nothing is queued, or a limit is reached.                  *)
BudgetSpent ==
  \/ Crawled(crawl) >= MaxStates
  \/ crawl.actions >= MaxActions
  \/ "duration" \in stale

StopCrawl ==
  /\ pc = "loop"
  /\ crawl.queue = <<>> \/ BudgetSpent
  /\ pc' = "finish"
  /\ UNCHANGED <<scope, stale, status, sequence, checkpoint, report, crawl, runs, spent>>

CurrentPath == Head(crawl.queue)
AlwaysAffordable == TRUE            \* mutant: the cost of the path is not looked at
Affordable == crawl.actions + Increment(CurrentPath) <= MaxActions

(* The path was taken off the queue before its cost was looked at.           *)
StopAtCostlyPath ==
  /\ pc = "loop" /\ crawl.queue # <<>> /\ ~BudgetSpent /\ ~Affordable
  /\ crawl' = [crawl EXCEPT !.queue = Tail(@)]
  /\ pc' = "finish"
  /\ UNCHANGED <<scope, stale, status, sequence, checkpoint, report, runs, spent>>

(* runPairPath and what is kept of it: the pair of states may be one seen    *)
(* before, and the two pages share a list of controls, in which a key comes  *)
(* twice when the source page has two controls alike.  Those that the path   *)
(* has followed are passed over.                                             *)
Unfollowed(path) == {k \in Keys : \A i \in DOMAIN path.keys : path.keys[i] # k}
Offers(path) == UNION {[1 .. n -> Unfollowed(path)] : n \in 0 .. MaxPairs}

QueueLimit == MaxStates * 4
Room(queue, states) ==
  IF Len(queue) + states >= QueueLimit THEN 0 ELSE QueueLimit - Len(queue) - states

Children(path, pairs) ==
  [i \in DOMAIN pairs |-> [seed |-> path.seed, keys |-> Append(path.keys, pairs[i])]]

Crawl(c, result, expands, pairs) ==
  LET path == Head(c.queue)
      room == Room(Tail(c.queue), Len(c.results) + 1)
      all == IF expands THEN Children(path, pairs) ELSE <<>>
      kept == IF Len(all) <= room THEN all ELSE SubSeq(all, 1, room)
  IN [queue |-> Tail(c.queue) \o kept,
      results |-> Append(c.results, [path |-> path, status |-> result]),
      actions |-> c.actions + Increment(path),
      found |-> c.found + Len(all)]

MayExpand(path) == Depth(path) < MaxDepth

AfterPath == "checkpoint"

Runnable == pc = "loop" /\ crawl.queue # <<>> /\ ~BudgetSpent /\ Affordable

RunPath ==
  /\ Runnable
  /\ \E result \in PathStatuses, seen \in BOOLEAN, pairs \in Offers(CurrentPath) :
       /\ seen => crawl.results # <<>>
       /\ crawl' = Crawl(crawl, result,
                         result # "BLOCKED" /\ ~seen /\ MayExpand(CurrentPath), pairs)
  /\ runs' = runs + 1
  /\ pc' = AfterPath
  /\ UNCHANGED <<scope, stale, status, sequence, checkpoint, report, spent>>

(* store.checkpoint: checkpoint.json, then the sequence in state.json.       *)
Numbered == [sequence |-> sequence + 1, crawl |-> crawl]

WriteCheckpoint ==
  /\ pc = "checkpoint"
  /\ checkpoint' = Numbered
  /\ sequence' = sequence + 1
  /\ pc' = "loop"
  /\ UNCHANGED <<scope, stale, status, report, crawl, runs, spent>>

(* The report of the runner.                                                 *)
Goal == Crawled(crawl) >= MinStates /\ crawl.actions >= MinControls
AnyQueue == TRUE                    \* mutant: the verdict ignores the queue
QueueExhausted == crawl.queue = <<>>

Verdict ==
  CASE Occurs(crawl, "DIVERGED") -> "MISMATCH_DETECTED"
    [] ~Occurs(crawl, "DIVERGED") /\ ~Occurs(crawl, "MATCHED") -> "INCONCLUSIVE"
    [] OTHER ->
         IF diagnostic \/ ~Goal \/ ~QueueExhausted \/ Occurs(crawl, "BLOCKED")
         THEN "PARTIAL_PARITY_PASSED" ELSE "EXPLORATION_PARITY_PASSED"

Report ==
  [status |-> Verdict, results |-> crawl.results, budgetExhausted |-> ~QueueExhausted]

(* store.complete: report.json, which is never replaced, then state.json.    *)
(* A report left by an earlier completion has another time: a conflict.      *)
Complete ==
  /\ pc = "finish" /\ report = Nothing
  /\ report' = Report
  /\ status' = "COMPLETED"
  /\ pc' = "idle" /\ crawl' = NoCrawl
  /\ UNCHANGED <<scope, stale, sequence, checkpoint, runs, spent>>

-----------------------------------------------------------------------------
(* Anything that throws in the try block leads to store.interrupt; what was  *)
(* written before stays.                                                     *)
Gone == pc' = "idle" /\ crawl' = NoCrawl

KeptStatus == "RUNNING"             \* mutant: state.json keeps its status
InterruptStatus == "INTERRUPTED"

Interrupt ==
  /\ Gone
  /\ status' = InterruptStatus
  /\ UNCHANGED <<scope, stale>>

Fault == spent.faults < MaxFaults /\ spent' = [spent EXCEPT !.faults = @ + 1]

(* The driver, the evidence of the path or checkpoint.json fails: the path   *)
(* is run again on resume.                                                   *)
PathFails ==
  /\ \/ Runnable /\ runs' = runs + 1
     \/ pc = "checkpoint" /\ UNCHANGED runs
  /\ Fault /\ Interrupt
  /\ UNCHANGED <<sequence, checkpoint, report>>

CheckpointFirst == checkpoint' = Numbered /\ UNCHANGED sequence

(* state.json fails after checkpoint.json.                                   *)
CheckpointTorn ==
  /\ pc = "checkpoint"
  /\ Fault /\ Interrupt
  /\ CheckpointFirst
  /\ UNCHANGED <<report, runs>>

(* The revision guard or report.json fails.                                  *)
FinishFails ==
  /\ pc = "finish"
  /\ Fault /\ Interrupt
  /\ UNCHANGED <<sequence, checkpoint, report, runs>>

(* state.json fails after report.json.                                       *)
CompleteTorn ==
  /\ pc = "finish" /\ report = Nothing
  /\ Fault /\ Interrupt
  /\ report' = Report
  /\ UNCHANGED <<sequence, checkpoint, runs>>

ReportConflict ==
  /\ pc = "finish" /\ report # Nothing
  /\ Interrupt
  /\ UNCHANGED <<sequence, checkpoint, report, runs, spent>>

(* The process of the runner is killed, also between two files of a store    *)
(* operation (or interrupt itself fails): state.json still says RUNNING.     *)
Kill ==
  /\ pc # "idle" /\ spent.kills < MaxKills
  /\ spent' = [spent EXCEPT !.kills = @ + 1]
  /\ Gone
  /\ \/ UNCHANGED <<checkpoint, report>>
     \/ pc = "checkpoint" /\ checkpoint' = Numbered /\ UNCHANGED report
     \/ pc = "finish" /\ report = Nothing /\ report' = Report /\ UNCHANGED checkpoint
  /\ UNCHANGED <<scope, stale, status, sequence, runs>>

RunnerStep ==
  StopCrawl \/ StopAtCostlyPath \/ RunPath \/ WriteCheckpoint \/ Complete \/ ReportConflict

Next ==
  \/ GoesStale \/ Authorize \/ AuthorizeCut
  \/ \E plan \in Plans : Prepare(plan) \/ PrepareCut(plan)
  \/ Start \/ RunnerStep
  \/ PathFails \/ CheckpointTorn \/ FinishFails \/ CompleteTorn \/ Kill

(* A runner that lives goes on, and the user resumes an interrupted run.     *)
Spec == Init /\ [][Next]_vars
FairSpec == Spec /\ WF_vars(RunnerStep) /\ WF_vars(Start)

-----------------------------------------------------------------------------
(* Types of the variables: the files and the copy of the runner.             *)
Results == [path : Paths, status : {"MATCHED", "DIVERGED", "BLOCKED"}]
Crawls ==
  [queue : Seq(Paths), results : Seq(Results), actions : Nat, found : Nat]

Checkpoints == [sequence : Nat, crawl : Crawls]
Reports == [status : Verdicts, budgetExhausted : BOOLEAN, results : Seq(Results)]
ASSUME NothingAssumption == Nothing \notin Checkpoints \cup Reports

TypeOK ==
  /\ grant \in {"none", "torn", "made"} /\ diagnostic \in BOOLEAN
  /\ stale \subseteq {"expired", "job", "duration"}
  /\ claim \in Plans \cup {NoPlan}
  /\ status \in Statuses /\ sequence \in Nat
  /\ checkpoint \in Checkpoints \cup {Nothing}
  /\ report \in Reports \cup {Nothing}
  /\ pc \in {"idle", "loop", "checkpoint", "finish"}
  /\ crawl \in Crawls
  /\ runs \in Nat
  /\ spent \in [faults : 0 .. MaxFaults, kills : 0 .. MaxKills]

(* EXPLORATION_PARITY_PASSED is said only when every path of the declared    *)
(* scope, the root, the seeds and all controls found from them, was run and  *)
(* matched: "the declared safe exploration scope matched", line 9 of         *)
(* docs/adr/0008-separate-autonomous-exploration-from-runtime-scenarios.md.  *)
(* Violated: a path that does not fit the remaining actions is taken off the *)
(* queue before its cost is looked at, and as the last one leaves an empty   *)
(* queue that counts as exhausted.                                           *)
Parity == report # Nothing /\ report.status = "EXPLORATION_PARITY_PASSED"
Unrun == checkpoint.crawl.found - Len(report.results)
ParityIsComplete == Parity => Unrun = 0

(* What parity does mean: all that was run matched, and besides at most one  *)
(* such costly path nothing was left in the queue, refused by its limit, or  *)
(* lost by an interrupt and a resume.                                        *)
ParityMissesOneAtMost ==
  Parity =>
    /\ \A i \in DOMAIN report.results : report.results[i].status = "MATCHED"
    /\ Unrun \in {0, 1}
    /\ Unrun = 1 => checkpoint.crawl.actions + MaxDepth > MaxActions

(* No checkpoint, whatever was interrupted and resumed before it, counts     *)
(* more states or actions than the user authorized, and the queue never      *)
(* grows past its limit (or the plan, when that is longer).                  *)
BudgetKept ==
  checkpoint # Nothing =>
    LET c == checkpoint.crawl IN
    /\ Crawled(c) <= MaxStates /\ c.actions <= MaxActions
    /\ \/ Crawled(c) + Len(c.queue) <= QueueLimit
       \/ Crawled(c) + Len(c.queue) <= Len(RootQueue)

(* The browsers have run every checkpointed path once, and one more for each *)
(* run that was cut: a resume repeats the path it was cut in and no other,   *)
(* so the authorized work is exceeded by at most that.                       *)
RepeatsOnlyCutPaths ==
  runs <= (IF checkpoint = Nothing THEN 0 ELSE Crawled(checkpoint.crawl))
          + (IF pc = "checkpoint" THEN 1 ELSE 0) + spent.faults + spent.kills

(* state.json never counts a checkpoint that is not on disk, and the one on  *)
(* disk is at most one ahead.                                                *)
SequenceFollows ==
  IF checkpoint = Nothing THEN sequence = 0
  ELSE checkpoint.sequence \in {sequence, sequence + 1}

(* The report tells exactly the paths of the last checkpoint, also when the  *)
(* run that wrote it died or was resumed afterwards.                         *)
ReportMatchesCheckpoint ==
  report # Nothing =>
    report.results = IF checkpoint = Nothing THEN <<>> ELSE checkpoint.crawl.results

(* A checkpoint only ever adds results to the one before it: no resume       *)
(* starts over and none forgets a finished path.                             *)
CheckpointsOnlyExtend ==
  [][checkpoint # Nothing =>
       /\ checkpoint' # Nothing
       /\ Crawled(checkpoint.crawl) <= Crawled(checkpoint'.crawl)
       /\ SubSeq(checkpoint'.crawl.results, 1, Crawled(checkpoint.crawl))
            = checkpoint.crawl.results]_vars

(* A prepared exploration is completed, unless its authorization expires     *)
(* first, a process is killed, or a completion failed half way: interrupted  *)
(* runs are resumed from their checkpoint until they are through.            *)
ResumedUntilComplete ==
  (status = "READY") ~>
    \/ status = "COMPLETED"
    \/ "expired" \in stale
    \/ spent.kills > 0
    \/ status = "INTERRUPTED" /\ report # Nothing
=============================================================================

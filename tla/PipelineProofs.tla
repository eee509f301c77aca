----------------------------- MODULE PipelineProofs -----------------------------
(***************************************************************************)
(* The Job on its way to a save.  First the pipeline: its files agree and   *)
(* the registry lists it, wherever commands stop and overlap.  Then what    *)
(* the rules it applies decide, for every input: the version classifier,    *)
(* the environment gate, the repair policy, the two formats of an issue     *)
(* classification, the patch policy and the platform adapter.               *)
(***************************************************************************)
EXTENDS Pipeline, EnvironmentGate, IssueClassification, PatchPolicy, PlatformAdapter, TLAPS

-----------------------------------------------------------------------------
(* What the variables hold.                                                  *)
Issues == CaseIssues \cup Diagnostics
Contents == (SUBSET Issues) \cup {None}
Modes == {"platform", "local-file"}
Marks == Statuses \cup {"absent"}
Skips ==
  {"SKIPPED_ALREADY_V5", "SKIPPED_OUT_OF_SCOPE", "UNSUPPORTED_V4_FORMAT", "VERSION_AMBIGUOUS"}
Stages ==
  {"idle", "create", "registry", "end", "update", "authorize", "load", "source", "convert",
   "converted", "validate", "validated", "classified", "ready", "classification", "outcome",
   "patch", "patched", "authorization", "authorized"} \cup Skips

JobRecords ==
  [status : Marks, mode : Modes, artifact : {None, "app", "patched"}, digest : Contents]
FileRecords ==
  [app : Contents, patched : Contents, diagnostics : SUBSET Issues, validation : Contents,
   afterRepair : Contents, classification : Classifications \cup {None}, evidence : Contents]
Lists == [Jobs -> Marks]
Processes ==
  [command : {"none", "migrate", "create", "classify", "apply-patch", "authorize"},
   job : Jobs \cup {None}, at : Stages, then : Stages \ {"create", "registry"},
   status : Statuses \cup {None},
   list : Lists, read : Contents \cup Classifications]

Typed ==
  /\ state \in [Jobs -> JobRecords] /\ files \in [Jobs -> FileRecords]
  /\ registry \in Lists
  /\ lock \in [Jobs -> Commands \cup {None}]
  /\ proc \in [Commands -> Processes]
  /\ \A p \in Commands : proc[p].command # "none" => proc[p].job \in Jobs
  /\ started.all \in 0 .. MaxCommands
  /\ overlapped \subseteq Jobs /\ unlisted \subseteq Jobs
  /\ repairs \in [Jobs -> {0, 1}]

(* What a command has read, also when another works on the same Job.         *)
Stage(p) == IF proc[p].at = "registry" THEN proc[p].then ELSE proc[p].at

ReadOK(p) ==
  /\ Stage(p) \in {"converted", "validate", "validated", "patched", "authorization"} =>
       proc[p].read \in SUBSET Issues
  /\ Stage(p) \in {"classification", "outcome"} => proc[p].read \in Classifications

ReadInv == \A p \in Commands : ReadOK(p)

(* Who may be about to write the registry: the holder of the lock, or the    *)
(* one command that created the Job, and both with the status on disk.       *)
Alone(j) == \A p, q \in Commands : On(p, j) /\ On(q, j) => p = q

RegistryInv ==
  \A j \in Jobs :
    /\ state[j].status = "absent" => \A p \in Commands : ~On(p, j)
    /\ state[j].status = "RECEIVED" => Alone(j)
    /\ lock[j] # None => At(lock[j], "registry") /\ JobOf(lock[j]) = j
    /\ \A p \in Commands : On(p, j) /\ proc[p].at = "create" => state[j].status = "RECEIVED"
    /\ \A p \in Commands : On(p, j) /\ proc[p].at = "registry" =>
         /\ proc[p].status = state[j].status
         /\ lock[j] = p \/ state[j].status = "RECEIVED"

(* Where a command is with its Job, as long as no other works on it.         *)
ReadsArtifact(p, j) ==
  /\ \/ proc[p].command = "migrate" /\ state[j].artifact = "app"
     \/ proc[p].command = "apply-patch" /\ state[j].artifact = "patched"
  /\ proc[p].read = Artifact(j)

StageOK(p, j) ==
  /\ Stage(p) = "create" => proc[p].command \in {"create", "migrate"}
  /\ Stage(p) \in {"update", "authorize", "load", "source", "convert", "converted"} \cup Skips =>
       proc[p].command = "migrate" /\ state[j].artifact = None
  /\ Stage(p) = "create" => state[j].artifact = None
  /\ Stage(p) = "update" => state[j].status = "RECEIVED"
  /\ Stage(p) = "authorize" => state[j].status = "UPDATE_CHECKED"
  /\ Stage(p) = "load" => state[j].status = "AUTHORIZED"
  /\ Stage(p) \in {"source"} \cup Skips => state[j].status = "VERSION_CLASSIFIED"
  /\ Stage(p) \in {"convert", "converted"} => state[j].status = "SOURCE_LOADED"
  /\ Stage(p) = "converted" => proc[p].read = files[j].app
  /\ Stage(p) \in {"validate", "validated"} =>
       state[j].status \in {"CONVERTED", "AI_REPAIRED"} /\ ReadsArtifact(p, j)
  /\ Stage(p) \in {"validated", "classified", "ready"} => LatestReport(j) = IssuesOf(j)
  /\ Stage(p) = "classified" => state[j].status = "VALIDATED" /\ ReadsArtifact(p, j)
  /\ Stage(p) = "ready" =>
       state[j].status = "ISSUES_CLASSIFIED" /\ IssuesOf(j) \cap Blocking = {}
  /\ Stage(p) \in {"classification", "outcome"} =>
       state[j].status = "ISSUES_CLASSIFIED" /\ proc[p].command = "classify"
  /\ Stage(p) = "outcome" => files[j].classification = proc[p].read
  /\ Stage(p) \in {"patch", "patched"} =>
       state[j].status = "AI_REPAIR_REQUIRED" /\ proc[p].command = "apply-patch"
  /\ Stage(p) = "patched" => proc[p].read = files[j].patched /\ repairs[j] = 1
  /\ Stage(p) \in {"authorization", "authorized"} =>
       /\ state[j].status \in ClassifiedStatuses
       /\ proc[p].read = files[j].validation /\ DOMAIN files[j].classification = files[j].validation
  /\ Stage(p) = "authorized" => files[j].evidence = files[j].validation

(* What a Job's files say of each other.                                     *)
Fresh == {"absent", "RECEIVED", "UPDATE_CHECKED", "AUTHORIZED", "VERSION_CLASSIFIED", "SOURCE_LOADED"}
Passing == {"READY_TO_SAVE", "DRY_RUN_SUCCEEDED"}
Reported == {"VALIDATED", "ISSUES_CLASSIFIED"} \cup Passing

JobOK(j) ==
  /\ state[j].status \in Fresh => state[j].artifact = None
  /\ state[j].status \in {"CONVERTED", "AI_REPAIRED"} \cup Reported => state[j].digest = Artifact(j)
  /\ state[j].status \in Reported => LatestReport(j) = IssuesOf(j)
  /\ state[j].status \in Passing => IssuesOf(j) \cap Blocking = {}
  /\ repairs[j] = 0 => /\ state[j].status # "AI_REPAIRED"
                       /\ state[j].status = "CONVERTED" => state[j].artifact = "app"
                       /\ state[j].status \in Reported \cup ClassifiedStatuses
                            \cup {"READY_TO_SAVE_DIAGNOSTIC_COPY"} =>
                          state[j].artifact = "app" /\ files[j].validation = IssuesOf(j)
  /\ state[j].status \in {"AI_REPAIR_REQUIRED", "AI_REPAIRED"} =>
       /\ files[j].classification # None
       /\ \A i \in DOMAIN files[j].classification : files[j].classification[i] = "repairable"
  /\ state[j].status = "BLOCKED_CONVERTER_DEFECT" =>
       \E i \in DOMAIN files[j].classification : files[j].classification[i] = "converter"
  /\ repairs[j] = 0 => IssuesAuthorized(j)

FlowInv ==
  \A j \in Jobs \ overlapped :
    Alone(j) /\ JobOK(j) /\ \A p \in Commands : On(p, j) => StageOK(p, j)

IInv == Typed /\ ReadInv /\ RegistryInv /\ FlowInv /\ Listed
-----------------------------------------------------------------------------
(* The status graph.                                                         *)
LEMMA StatusesAre ==
  /\ Terminal \subseteq Statuses
  /\ {"RECEIVED", "UPDATE_CHECKED", "AUTHORIZED", "VERSION_CLASSIFIED", "SOURCE_LOADED",
      "SOURCE_CHANGED", "CONVERTED", "VALIDATED", "ISSUES_CLASSIFIED", "AI_REPAIR_REQUIRED",
      "AI_REPAIRED", "BLOCKED_CONVERTER_DEFECT", "NEEDS_REVIEW", "READY_TO_SAVE",
      "READY_TO_SAVE_DIAGNOSTIC_COPY"} \subseteq Statuses
  /\ "absent" \notin Statuses
BY DEF Statuses, Terminal, Transitions

-----------------------------------------------------------------------------
(* A step of one command on one Job.                                         *)
Local(p, j) ==
  /\ \A i \in Jobs \ {j} : state'[i] = state[i] /\ files'[i] = files[i] /\ repairs'[i] = repairs[i]
  /\ \A q \in Commands \ {p} : proc'[q] = proc[q]

LEMMA FlowKeeps ==
  ASSUME FlowInv, NEW p \in Commands, NEW j \in Jobs, Local(p, j),
         overlapped \subseteq overlapped', \A i \in Jobs \ {j} : ~On(p, i) /\ ~On(p, i)',
         j \notin overlapped' =>
           /\ \A q \in Commands \ {p} : ~On(q, j)
           /\ JobOK(j)' /\ (On(p, j)' => StageOK(p, j)')
  PROVE  FlowInv'
<1> SUFFICES ASSUME NEW i \in Jobs, i \notin overlapped'
             PROVE  Alone(i)' /\ JobOK(i)' /\ \A q \in Commands : On(q, i)' => StageOK(q, i)'
  BY DEF FlowInv
<1>1. \A q \in Commands \ {p} : On(q, i)' <=> On(q, i)
  BY DEF Local, On, Busy
<1>2. CASE i = j
  <2>1. \A q \in Commands \ {p} : ~On(q, i)'
    BY <1>1, <1>2
  <2>2. Alone(i)'
    BY <2>1 DEF Alone
  <2> QED
    BY <1>2, <2>1, <2>2
<1>3. CASE i # j
  <2>1. Alone(i) /\ JobOK(i) /\ \A q \in Commands : On(q, i) => StageOK(q, i)
    BY DEF FlowInv
  <2>2. Alone(i)'
    BY <1>1, <1>3, <2>1 DEF Alone
  <2>3. state'[i] = state[i] /\ files'[i] = files[i] /\ repairs'[i] = repairs[i]
    BY <1>3 DEF Local
  <2>4. JobOK(i)'
    BY <2>1, <2>3 DEF JobOK, Artifact, LatestReport, IssuesOf, IssuesAuthorized
  <2>5. ASSUME NEW q \in Commands, On(q, i)' PROVE StageOK(q, i)'
    <3>1. q # p /\ proc'[q] = proc[q] /\ StageOK(q, i)
      BY <1>1, <1>3, <2>1, <2>5 DEF Local
    <3> QED
      BY <2>3, <3>1 DEF StageOK, Stage, ReadsArtifact, Artifact, LatestReport, IssuesOf
  <2> QED
    BY <2>2, <2>4, <2>5
<1> QED
  BY <1>2, <1>3

LEMMA OfJob ==
  ASSUME IInv, NEW p \in Commands, Busy(p)
  PROVE  /\ JobOf(p) \in Jobs /\ On(p, JobOf(p)) /\ proc[p] \in Processes
         /\ \A i \in Jobs \ {JobOf(p)} : ~On(p, i)
         /\ state[JobOf(p)] \in JobRecords /\ files[JobOf(p)] \in FileRecords
         /\ repairs[JobOf(p)] \in {0, 1}
         /\ JobOf(p) \notin overlapped =>
              /\ \A q \in Commands \ {p} : ~On(q, JobOf(p))
              /\ JobOK(JobOf(p)) /\ StageOK(p, JobOf(p))
<1>1. JobOf(p) \in Jobs /\ proc[p] \in Processes
  BY DEF IInv, Typed, Busy, JobOf
<1>2. On(p, JobOf(p)) /\ \A i \in Jobs \ {JobOf(p)} : ~On(p, i)
  BY DEF On, JobOf
<1>3. JobOf(p) \notin overlapped =>
        Alone(JobOf(p)) /\ JobOK(JobOf(p)) /\ StageOK(p, JobOf(p))
  BY <1>1, <1>2 DEF IInv, FlowInv
<1>4. JobOf(p) \notin overlapped => \A q \in Commands \ {p} : ~On(q, JobOf(p))
  BY <1>2, <1>3 DEF Alone
<1>5. /\ state[JobOf(p)] \in JobRecords /\ files[JobOf(p)] \in FileRecords
      /\ repairs[JobOf(p)] \in {0, 1}
  BY <1>1 DEF IInv, Typed
<1> QED
  BY <1>1, <1>2, <1>3, <1>4, <1>5

(* A step that changes neither a status nor the registry.                    *)
LEMMA FileStepKeeps ==
  ASSUME IInv, NEW p \in Commands, NEW j, j = JobOf(p), Busy(p), Typed', Local(p, j),
         UNCHANGED <<state, registry, lock, overlapped, unlisted>>,
         proc[p].at \notin {"create", "registry"}, proc'[p].at \notin {"create", "registry"},
         proc'[p].command = proc[p].command, proc'[p].job = proc[p].job,
         ReadOK(p)', j \notin overlapped => JobOK(j)' /\ StageOK(p, j)'
  PROVE  IInv'
<1>1. /\ j \in Jobs /\ On(p, j) /\ \A i \in Jobs \ {j} : ~On(p, i)
      /\ j \notin overlapped => \A q \in Commands \ {p} : ~On(q, j)
  BY OfJob
<1>2. \A q \in Commands, i \in Jobs : On(q, i)' <=> On(q, i)
  BY DEF On, Busy, Local
<1>3. FlowInv'
  BY <1>1, <1>2, FlowKeeps DEF IInv
<1>4. \A q \in Commands : q # p => proc'[q] = proc[q]
  BY DEF Local
<1>5. RegistryInv'
  <2> SUFFICES ASSUME NEW i \in Jobs
               PROVE  /\ state[i].status = "absent" => \A q \in Commands : ~On(q, i)
                      /\ state[i].status = "RECEIVED" => Alone(i)'
                      /\ lock[i] # None => At(lock[i], "registry")' /\ JobOf(lock[i])' = i
                      /\ \A q \in Commands : On(q, i) /\ proc'[q].at = "create" =>
                           state[i].status = "RECEIVED"
                      /\ \A q \in Commands : On(q, i) /\ proc'[q].at = "registry" =>
                           /\ proc'[q].status = state[i].status
                           /\ lock[i] = q \/ state[i].status = "RECEIVED"
    BY <1>2 DEF RegistryInv
  <2>1. /\ state[i].status = "absent" => \A q \in Commands : ~On(q, i)
        /\ state[i].status = "RECEIVED" => Alone(i)
        /\ lock[i] # None => At(lock[i], "registry") /\ JobOf(lock[i]) = i
        /\ \A q \in Commands : On(q, i) /\ proc[q].at = "create" => state[i].status = "RECEIVED"
        /\ \A q \in Commands : On(q, i) /\ proc[q].at = "registry" =>
             /\ proc[q].status = state[i].status
             /\ lock[i] = q \/ state[i].status = "RECEIVED"
    BY DEF IInv, RegistryInv
  <2>2. lock[i] # None => lock[i] \in Commands \ {p}
    BY <2>1 DEF IInv, Typed, At
  <2>3. lock[i] # None => At(lock[i], "registry")' /\ JobOf(lock[i])' = i
    BY <1>4, <2>1, <2>2 DEF At, Busy, JobOf
  <2>4. state[i].status = "RECEIVED" => Alone(i)'
    BY <1>2, <2>1 DEF Alone
  <2> QED
    BY <1>4, <2>1, <2>3, <2>4
<1>6. Listed'
  <2>1. \A i \in Jobs : Updating(i)' <=> Updating(i)
    BY <1>2, <1>4 DEF Updating
  <2> QED
    BY <2>1 DEF IInv, Listed
<1>7. ReadInv'
  BY <1>4 DEF IInv, ReadInv, ReadOK, Stage
<1> QED
  BY <1>3, <1>5, <1>6, <1>7 DEF IInv

(* A status transition.                                                      *)
Thens == Stages \ {"create", "registry"}

LEMMA TransitionIs ==
  ASSUME IInv, NEW p \in Commands, NEW j, j = JobOf(p), Busy(p),
         NEW to \in Statuses, NEW patched \in JobRecords, NEW then \in Thens,
         Transition(p, to, patched, then)
  PROVE  /\ Typed' /\ Local(p, j) /\ lock[j] = None /\ lock' = [lock EXCEPT ![j] = p]
         /\ state'[j].status = to
         /\ state'[j].mode = patched.mode /\ state'[j].artifact = patched.artifact
         /\ state'[j].digest = patched.digest
         /\ proc'[p].at = "registry" /\ proc'[p].then = then /\ proc'[p].status = to
         /\ proc'[p].command = proc[p].command /\ proc'[p].job = j /\ proc'[p].read = proc[p].read
         /\ UNCHANGED <<files, registry, started, overlapped, unlisted, repairs>>
<1>1. j \in Jobs /\ Typed /\ proc[p] \in Processes
  BY OfJob DEF IInv
<1>2. /\ lock[j] = None /\ lock' = [lock EXCEPT ![j] = p]
      /\ state' = [state EXCEPT ![j] = [patched EXCEPT !.status = to]]
      /\ proc' = [proc EXCEPT ![p].at = "registry", ![p].then = then, ![p].status = to,
                              ![p].list = registry]
      /\ UNCHANGED <<files, registry, started, overlapped, unlisted, repairs>>
  BY DEF Transition
<1>3. /\ state'[j] = [patched EXCEPT !.status = to] /\ state'[j].status = to
      /\ state'[j].mode = patched.mode /\ state'[j].artifact = patched.artifact
      /\ state'[j].digest = patched.digest /\ state' \in [Jobs -> JobRecords]
      /\ \A i \in Jobs \ {j} : state'[i] = state[i]
  BY <1>1, <1>2 DEF Typed, JobRecords, Marks
<1>4. /\ proc'[p].at = "registry" /\ proc'[p].then = then /\ proc'[p].status = to
      /\ proc'[p].command = proc[p].command /\ proc'[p].job = proc[p].job
      /\ proc'[p].read = proc[p].read /\ proc'[p].list = registry
      /\ proc'[p] \in Processes
  <2>1. proc'[p] = [proc[p] EXCEPT !.at = "registry", !.then = then, !.status = to,
                                   !.list = registry]
    BY <1>1, <1>2 DEF Typed
  <2>2. "registry" \in Stages /\ then \in Stages \ {"create", "registry"} /\ registry \in Lists
    BY <1>1 DEF Typed, Stages, Thens
  <2> QED
    BY <1>1, <2>1, <2>2 DEF Processes
<1>5. proc' \in [Commands -> Processes] /\ \A q \in Commands \ {p} : proc'[q] = proc[q]
  BY <1>1, <1>2, <1>4 DEF Typed
<1>6. \A q \in Commands : proc'[q].command # "none" => proc'[q].job \in Jobs
  BY <1>1, <1>4, <1>5 DEF Typed
<1>7. lock' \in [Jobs -> Commands \cup {None}]
  BY <1>1, <1>2 DEF Typed
<1> QED
  BY <1>1, <1>2, <1>3, <1>4, <1>5, <1>6, <1>7 DEF Typed, Local, JobOf

LEMMA TransitionKeeps ==
  ASSUME IInv, NEW p \in Commands, NEW j, j = JobOf(p), Busy(p),
         NEW to \in Statuses \ {"RECEIVED"}, NEW patched \in JobRecords, NEW then \in Thens,
         Transition(p, to, patched, then), proc[p].at \notin {"create", "registry"},
         ReadOK(p)', j \notin overlapped => JobOK(j)' /\ StageOK(p, j)'
  PROVE  IInv'
<1>1. /\ j \in Jobs /\ On(p, j) /\ \A i \in Jobs \ {j} : ~On(p, i)
      /\ j \notin overlapped => \A q \in Commands \ {p} : ~On(q, j)
  BY OfJob
<1>2. /\ Typed' /\ Local(p, j) /\ lock[j] = None /\ lock' = [lock EXCEPT ![j] = p]
      /\ state'[j].status = to
      /\ proc'[p].at = "registry" /\ proc'[p].status = to
      /\ proc'[p].command = proc[p].command /\ proc'[p].job = j
      /\ UNCHANGED <<files, registry, started, overlapped, unlisted, repairs>>
  <2>1. to \in Statuses
    OBVIOUS
  <2> QED
    BY <2>1, TransitionIs
<1>3. \A q \in Commands, i \in Jobs : On(q, i)' <=> On(q, i)
  BY <1>1, <1>2 DEF On, Busy, Local
<1>4. FlowInv'
  BY <1>1, <1>2, <1>3, FlowKeeps DEF IInv
<1>5. \A q \in Commands : q # p => proc'[q] = proc[q]
  BY <1>2 DEF Local
<1>6. \A i \in Jobs : i # j => state'[i] = state[i] /\ lock'[i] = lock[i]
  BY <1>1, <1>2 DEF Local, IInv, Typed
<1>7. lock'[j] = p /\ "absent" # to
  BY <1>1, <1>2, StatusesAre DEF IInv, Typed
<1>8. \A i \in Jobs :
        /\ state[i].status = "absent" => \A q \in Commands : ~On(q, i)
        /\ state[i].status = "RECEIVED" => Alone(i)
        /\ lock[i] # None => At(lock[i], "registry") /\ JobOf(lock[i]) = i
        /\ \A q \in Commands : On(q, i) /\ proc[q].at = "create" => state[i].status = "RECEIVED"
        /\ \A q \in Commands : On(q, i) /\ proc[q].at = "registry" =>
             /\ proc[q].status = state[i].status
             /\ lock[i] = q \/ state[i].status = "RECEIVED"
  BY DEF IInv, RegistryInv
<1>9. \A i \in Jobs : Alone(i) => Alone(i)'
  BY <1>3 DEF Alone
(* No other command is about to write what it knew of this Job.              *)
<1>10. \A q \in Commands \ {p} : On(q, j) => proc[q].at \notin {"create", "registry"}
  <2> SUFFICES ASSUME NEW q \in Commands \ {p}, On(q, j), proc[q].at \in {"create", "registry"}
               PROVE  FALSE
    OBVIOUS
  <2>1. lock[j] # q
    BY <1>2, NothingAssumption
  <2>2. state[j].status = "RECEIVED"
    BY <1>1, <1>8, <2>1
  <2>3. Alone(j)
    BY <1>1, <1>8, <2>2
  <2> QED
    BY <1>1, <2>3 DEF Alone
<1>11. RegistryInv'
  <2> SUFFICES ASSUME NEW i \in Jobs
               PROVE  /\ state'[i].status = "absent" => \A q \in Commands : ~On(q, i)'
                      /\ state'[i].status = "RECEIVED" => Alone(i)'
                      /\ lock'[i] # None => At(lock[i], "registry")' /\ JobOf(lock[i])' = i
                      /\ \A q \in Commands : On(q, i)' /\ proc'[q].at = "create" =>
                           state'[i].status = "RECEIVED"
                      /\ \A q \in Commands : On(q, i)' /\ proc'[q].at = "registry" =>
                           /\ proc'[q].status = state'[i].status
                           /\ lock'[i] = q \/ state'[i].status = "RECEIVED"
    BY DEF RegistryInv
  <2>1. CASE i = j
    <3>1. At(p, "registry")' /\ JobOf(p)' = j
      BY <1>1, <1>2 DEF At, Busy, On, JobOf
    <3> QED
      BY <1>2, <1>3, <1>5, <1>7, <1>10, <2>1, <3>1 DEF At, Busy, JobOf
  <2>2. CASE i # j
    <3>1. lock'[i] # None => At(lock[i], "registry")' /\ JobOf(lock[i])' = i
      <4> SUFFICES ASSUME lock'[i] # None PROVE At(lock[i], "registry")' /\ JobOf(lock[i])' = i
        OBVIOUS
      <4>1. lock'[i] = lock[i] /\ lock[i] \in Commands /\ JobOf(lock[i]) = i
            /\ At(lock[i], "registry")
        BY <1>6, <1>8, <2>2 DEF IInv, Typed
      <4>2. lock[i] # p
        BY <2>2, <4>1
      <4> QED
        BY <1>5, <4>1, <4>2 DEF At, Busy, JobOf
    <3>2. ASSUME NEW q \in Commands, On(q, i)' PROVE q # p /\ proc'[q] = proc[q] /\ On(q, i)
      BY <1>1, <1>3, <1>5, <2>2, <3>2
    <3> QED
      BY <1>3, <1>6, <1>8, <1>9, <2>2, <3>1, <3>2
  <2> QED
    BY <2>1, <2>2
<1>12. Listed'
  <2> SUFFICES ASSUME NEW i \in Jobs, i \notin unlisted
               PROVE  Updating(i)' \/ registry[i] = state'[i].status
    BY <1>2 DEF Listed
  <2>1. CASE i = j
    BY <1>1, <1>2, <1>3, <2>1 DEF Updating
  <2>2. CASE i # j
    <3>1. Updating(i) \/ registry[i] = state[i].status
      BY DEF IInv, Listed
    <3>2. Updating(i) => Updating(i)'
      BY <1>1, <1>3, <1>5, <2>2 DEF Updating
    <3> QED
      BY <1>6, <2>2, <3>1, <3>2
  <2> QED
    BY <2>1, <2>2
<1>13. ReadInv'
  BY <1>5 DEF IInv, ReadInv, ReadOK, Stage
<1> QED
  BY <1>2, <1>4, <1>11, <1>12, <1>13 DEF IInv

(* A transition that leaves the artifact alone.                              *)
SameCase(j) ==
  /\ state'[j].artifact = state[j].artifact /\ state'[j].digest = state[j].digest
  /\ state'[j].mode = state[j].mode
  /\ files'[j] = files[j] /\ repairs'[j] = repairs[j]

LEMMA SameCaseReads ==
  ASSUME NEW j, SameCase(j)
  PROVE  /\ Artifact(j)' = Artifact(j) /\ LatestReport(j)' = LatestReport(j)
         /\ IssuesOf(j)' = IssuesOf(j)
BY DEF SameCase, Artifact, LatestReport, IssuesOf

LEMMA MoveIs ==
  ASSUME IInv, NEW p \in Commands, NEW j, j = JobOf(p), Busy(p),
         NEW to \in Statuses, NEW then \in Thens, Move(p, to, then)
  PROVE  /\ SameCase(j) /\ state'[j].status = to /\ Stage(p)' = then
         /\ proc'[p].command = proc[p].command /\ proc'[p].read = proc[p].read
<1>1. PICK patched : patched = state[j]
  OBVIOUS
<1>2. Transition(p, to, patched, then)
  BY <1>1 DEF Move, Transition
<1>3. patched \in JobRecords
  BY <1>1, OfJob
<1>4. /\ state'[j].status = to
      /\ state'[j].mode = patched.mode /\ state'[j].artifact = patched.artifact
      /\ state'[j].digest = patched.digest
      /\ proc'[p].at = "registry" /\ proc'[p].then = then
      /\ proc'[p].command = proc[p].command /\ proc'[p].read = proc[p].read
      /\ files' = files /\ repairs' = repairs
  BY <1>2, <1>3, TransitionIs
<1> QED
  BY <1>1, <1>4 DEF SameCase, Stage

LEMMA MoveKeeps ==
  ASSUME IInv, NEW p \in Commands, NEW j, j = JobOf(p), Busy(p),
         NEW to \in Statuses \ {"RECEIVED"}, NEW then \in Thens, Move(p, to, then),
         proc[p].at \notin {"create", "registry"},
         ReadOK(p)', j \notin overlapped => JobOK(j)' /\ StageOK(p, j)'
  PROVE  IInv'
<1>1. PICK patched : patched = state[j]
  OBVIOUS
<1>2. Transition(p, to, patched, then)
  BY <1>1 DEF Move, Transition
<1>3. patched \in JobRecords
  BY <1>1, OfJob
<1> QED
  BY <1>2, <1>3, TransitionKeeps

(* The steps before there is an output.                                      *)
FreshStages == {"update", "authorize", "load", "source"} \cup Skips
Refusals == {"AUTH_FAILED", "SOURCE_PERMISSION_DENIED", "FAILED"} \cup Skips
FreshMove(to, then) ==
  \/ to = "UPDATE_CHECKED" /\ then = "authorize"
  \/ to = "AUTHORIZED" /\ then = "load"
  \/ to = "VERSION_CLASSIFIED" /\ then \in {"source"} \cup Skips
  \/ to = "SOURCE_LOADED" /\ then = "convert"
  \/ to \in Refusals /\ then = "end"

LEMMA FreshMoveKeeps ==
  ASSUME IInv, NEW p \in Commands, NEW j, j = JobOf(p), Busy(p), proc[p].at \in FreshStages,
         NEW to, NEW then, FreshMove(to, then), Move(p, to, then)
  PROVE  IInv'
<1>1. to \in Statuses \ {"RECEIVED"} /\ then \in Thens /\ proc[p].at \notin {"create", "registry"}
  BY StatusesAre DEF Thens, Stages, FreshMove, FreshStages, Refusals, Skips, Terminal
<1>2. /\ SameCase(j) /\ state'[j].status = to /\ Stage(p)' = then
      /\ proc'[p].command = proc[p].command
  BY <1>1, MoveIs
<1>3. ASSUME j \notin overlapped PROVE JobOK(j)' /\ StageOK(p, j)'
  <2>1. Stage(p) = proc[p].at /\ StageOK(p, j)
    BY <1>1, <1>3, OfJob DEF Stage
  <2>2. proc[p].command = "migrate" /\ state[j].artifact = None
    BY <2>1 DEF StageOK, FreshStages
  <2>3. /\ state'[j].artifact = None /\ proc'[p].command = "migrate"
        /\ state'[j].status = to /\ Stage(p)' = then
    BY <1>2, <2>2 DEF SameCase
  <2>4. JobOK(j)'
    BY <2>3 DEF JobOK, FreshMove, Refusals, Skips, IssuesAuthorized, Fresh, Reported, Passing,
                ClassifiedStatuses
  <2>5. StageOK(p, j)'
    BY <2>3 DEF StageOK, FreshMove, Refusals, Skips
  <2> QED
    BY <2>4, <2>5
<1>4. ReadOK(p)'
  BY <1>2 DEF ReadOK, FreshMove, Skips
<1> QED
  BY <1>1, <1>3, <1>4, MoveKeeps

LEMMA TerminalsSkip == ASSUME NEW reason PROVE TerminalForVersion(reason) \in Skips
BY DEF TerminalForVersion, Skips

LEMMA LoadingKeeps ==
  ASSUME IInv, NEW p \in Commands, NEW j, j = JobOf(p),
         \/ CheckUpdate(p) \/ Authorize(p) \/ RefuseSource(p) \/ ClassifyVersion(p)
         \/ SkipSource(p) \/ LoadSource(p)
  PROVE  IInv'
<1>1. ASSUME NEW to, NEW then, FreshMove(to, then), Busy(p), proc[p].at \in FreshStages,
             Move(p, to, then)
      PROVE  IInv'
  BY <1>1, FreshMoveKeeps
<1>2. CASE CheckUpdate(p)
  BY <1>1, <1>2 DEF CheckUpdate, At, FreshMove, FreshStages
<1>3. CASE Authorize(p)
  <2>1. Busy(p) /\ proc[p].at = "authorize"
    BY <1>3 DEF Authorize, At
  <2>2. CASE Move(p, "AUTHORIZED", "load")
    BY <1>1, <2>1, <2>2 DEF FreshMove, FreshStages
  <2>3. CASE \E to \in {"AUTH_FAILED", "FAILED"} : Move(p, to, "end")
    <3>1. PICK to \in {"AUTH_FAILED", "FAILED"} : Move(p, to, "end")
      BY <2>3
    <3> QED
      BY <1>1, <2>1, <3>1 DEF FreshMove, FreshStages, Refusals
  <2> QED
    BY <1>3, <2>2, <2>3 DEF Authorize
<1>4. CASE RefuseSource(p)
  <2>1. PICK to \in {"SOURCE_PERMISSION_DENIED", "FAILED"} : Move(p, to, "end")
    BY <1>4 DEF RefuseSource
  <2> QED
    BY <1>1, <1>4, <2>1 DEF RefuseSource, At, FreshMove, FreshStages, Refusals
<1>5. CASE ClassifyVersion(p)
  <2>1. PICK source \in Sources :
          Move(p, "VERSION_CLASSIFIED",
               IF Convertible(source.metadata, source.work) THEN "source"
               ELSE TerminalForVersion(Reason(source.metadata, source.work)))
    BY <1>5 DEF ClassifyVersion
  <2>2. PICK then : then = IF Convertible(source.metadata, source.work) THEN "source"
                           ELSE TerminalForVersion(Reason(source.metadata, source.work))
    OBVIOUS
  <2>3. Move(p, "VERSION_CLASSIFIED", then) /\ then \in {"source"} \cup Skips
    BY <2>1, <2>2, TerminalsSkip
  <2> QED
    BY <1>1, <1>5, <2>3 DEF ClassifyVersion, At, FreshMove, FreshStages
<1>6. CASE SkipSource(p)
  <2>1. PICK terminal \in Skips : At(p, terminal) /\ Move(p, terminal, "end")
    BY <1>6 DEF SkipSource, Skips
  <2> QED
    BY <1>1, <2>1 DEF At, FreshMove, FreshStages, Refusals
<1>7. CASE LoadSource(p)
  BY <1>1, <1>7 DEF LoadSource, At, FreshMove, FreshStages
<1> QED
  BY <1>2, <1>3, <1>4, <1>5, <1>6, <1>7

(* Steps that write another file of the Job.                                *)
LEMMA FileTyped ==
  ASSUME IInv, NEW p \in Commands, NEW j, j = JobOf(p), Busy(p),
         NEW g \in FileRecords, NEW c \in Processes, c.job = proc[p].job,
         files' = [files EXCEPT ![j] = g], proc' = [proc EXCEPT ![p] = c],
         UNCHANGED <<state, registry, lock, started, overlapped, unlisted>>,
         repairs' \in [Jobs -> {0, 1}], \A i \in Jobs \ {j} : repairs'[i] = repairs[i]
  PROVE  Typed' /\ Local(p, j) /\ files'[j] = g /\ proc'[p] = c
<1>1. j \in Jobs /\ Typed
  BY OfJob DEF IInv
<1>2. files' \in [Jobs -> FileRecords] /\ files'[j] = g /\ \A i \in Jobs \ {j} : files'[i] = files[i]
  BY <1>1 DEF Typed
<1>3. /\ proc' \in [Commands -> Processes] /\ proc'[p] = c
      /\ \A q \in Commands \ {p} : proc'[q] = proc[q]
  BY <1>1 DEF Typed
<1>4. \A q \in Commands : proc'[q].command # "none" => proc'[q].job \in Jobs
  <2>1. proc'[p].job \in Jobs
    BY <1>1, <1>3 DEF JobOf
  <2> QED
    BY <1>1, <1>3, <2>1 DEF Typed
<1> QED
  BY <1>1, <1>2, <1>3, <1>4 DEF Typed, Local

LEMMA ConvertKeeps ==
  ASSUME IInv, NEW p \in Commands, NEW j, j = JobOf(p), Convert(p)
  PROVE  IInv'
<1>1. PICK content \in SUBSET CaseIssues, diagnostics \in SUBSET Diagnostics :
        /\ files' = [files EXCEPT ![JobOf(p)].app = content, ![JobOf(p)].diagnostics = diagnostics]
        /\ proc' = [proc EXCEPT ![p].at = "converted", ![p].read = content]
  BY DEF Convert
<1>2. /\ Busy(p) /\ proc[p].at = "convert"
      /\ UNCHANGED <<state, registry, lock, started, overlapped, unlisted, repairs>>
  BY DEF Convert, At
<1>3. /\ j \in Jobs /\ proc[p] \in Processes /\ files[j] \in FileRecords
      /\ files \in [Jobs -> FileRecords] /\ proc \in [Commands -> Processes]
      /\ repairs \in [Jobs -> {0, 1}]
  BY <1>2, OfJob DEF IInv, Typed
<1>4. PICK g : g = [files[j] EXCEPT !.app = content, !.diagnostics = diagnostics]
  OBVIOUS
<1>5. PICK c : c = [proc[p] EXCEPT !.at = "converted", !.read = content]
  OBVIOUS
<1>6. content \in SUBSET Issues /\ diagnostics \in SUBSET Issues
  BY DEF Issues
<1>7. g \in FileRecords /\ g.app = content /\ g.diagnostics = diagnostics
  BY <1>3, <1>4, <1>6 DEF FileRecords, Contents
<1>8. /\ c \in Processes /\ c.job = proc[p].job /\ c.command = proc[p].command
      /\ c.at = "converted" /\ c.read = content
  <2>1. "converted" \in Stages /\ content \in Contents \cup Classifications
    BY <1>6 DEF Stages, Contents
  <2> QED
    BY <1>3, <1>5, <2>1 DEF Processes
<1>9. files' = [files EXCEPT ![j] = g] /\ proc' = [proc EXCEPT ![p] = c]
  BY <1>1, <1>3, <1>4, <1>5
<1>10. Typed' /\ Local(p, j) /\ files'[j] = g /\ proc'[p] = c
  BY <1>2, <1>3, <1>7, <1>8, <1>9, FileTyped
<1>11. ReadOK(p)'
  BY <1>6, <1>8, <1>10 DEF ReadOK, Stage
<1>12. ASSUME j \notin overlapped PROVE JobOK(j)' /\ StageOK(p, j)'
  <2>1. Stage(p) = "convert" /\ StageOK(p, j)
    BY <1>2, <1>12, OfJob DEF Stage
  <2>2. /\ proc[p].command = "migrate" /\ state[j].artifact = None
        /\ state[j].status = "SOURCE_LOADED"
    BY <2>1 DEF StageOK
  <2>3. JobOK(j)'
    BY <1>2, <2>2 DEF JobOK, IssuesAuthorized, Fresh, Reported, Passing, ClassifiedStatuses
  <2>4. StageOK(p, j)'
    BY <1>2, <1>7, <1>8, <1>10, <2>2 DEF StageOK, Skips, Stage
  <2> QED
    BY <2>3, <2>4
<1> QED
  BY <1>2, <1>8, <1>10, <1>11, <1>12, FileStepKeeps

(* What is written in one of the files that describe a case, and what is not. *)
Reports == {"validation", "afterRepair", "evidence"}

Wrote(j, file, content) ==
  /\ files'[j].app = files[j].app /\ files'[j].patched = files[j].patched
  /\ files'[j].diagnostics = files[j].diagnostics
  /\ files'[j].validation = IF file = "validation" THEN content ELSE files[j].validation
  /\ files'[j].afterRepair = IF file = "afterRepair" THEN content ELSE files[j].afterRepair
  /\ files'[j].evidence = IF file = "evidence" THEN content ELSE files[j].evidence
  /\ files'[j].classification =
       IF file = "classification" THEN content ELSE files[j].classification

LEMMA WriteFileIs ==
  ASSUME IInv, NEW p \in Commands, NEW j, j = JobOf(p), Busy(p),
         NEW file \in Reports \cup {"classification"}, NEW content, NEW step \in Thens,
         file \in Reports => content \in SUBSET Issues,
         file = "classification" => content \in Classifications,
         WriteFile(p, file, content, step)
  PROVE  /\ Typed' /\ Local(p, j) /\ Wrote(j, file, content)
         /\ proc'[p].at = step /\ proc'[p].command = proc[p].command
         /\ proc'[p].job = proc[p].job /\ proc'[p].read = proc[p].read
         /\ UNCHANGED <<state, registry, lock, overlapped, unlisted, repairs>>
<1>1. /\ files' = [files EXCEPT ![JobOf(p)][file] = content]
      /\ proc' = [proc EXCEPT ![p].at = step]
      /\ UNCHANGED <<state, registry, lock, started, overlapped, unlisted, repairs>>
  BY DEF WriteFile
<1>2. /\ j \in Jobs /\ proc[p] \in Processes /\ files[j] \in FileRecords
      /\ files \in [Jobs -> FileRecords] /\ proc \in [Commands -> Processes]
      /\ repairs \in [Jobs -> {0, 1}]
  BY OfJob DEF IInv, Typed
<1>3. PICK g : g = [files[j] EXCEPT ![file] = content]
  OBVIOUS
<1>4. PICK c : c = [proc[p] EXCEPT !.at = step]
  OBVIOUS
<1>5. /\ g \in FileRecords
      /\ g.app = files[j].app /\ g.patched = files[j].patched
      /\ g.diagnostics = files[j].diagnostics
      /\ g.validation = IF file = "validation" THEN content ELSE files[j].validation
      /\ g.afterRepair = IF file = "afterRepair" THEN content ELSE files[j].afterRepair
      /\ g.evidence = IF file = "evidence" THEN content ELSE files[j].evidence
      /\ g.classification = IF file = "classification" THEN content ELSE files[j].classification
  <2>1. CASE file = "validation"
    BY <1>2, <1>3, <2>1 DEF FileRecords, Contents, Reports
  <2>2. CASE file = "afterRepair"
    BY <1>2, <1>3, <2>2 DEF FileRecords, Contents, Reports
  <2>3. CASE file = "evidence"
    BY <1>2, <1>3, <2>3 DEF FileRecords, Contents, Reports
  <2>4. CASE file = "classification"
    BY <1>2, <1>3, <2>4 DEF FileRecords, Contents
  <2> QED
    BY <2>1, <2>2, <2>3, <2>4 DEF Reports
<1>6. /\ c \in Processes /\ c.job = proc[p].job /\ c.command = proc[p].command
      /\ c.at = step /\ c.read = proc[p].read
  BY <1>2, <1>4 DEF Processes, Thens
<1>7. files' = [files EXCEPT ![j] = g] /\ proc' = [proc EXCEPT ![p] = c]
  BY <1>1, <1>2, <1>3, <1>4
<1>8. Typed' /\ Local(p, j) /\ files'[j] = g /\ proc'[p] = c
  <2>1. g \in FileRecords /\ c \in Processes /\ c.job = proc[p].job
    BY <1>5, <1>6
  <2>2. repairs' \in [Jobs -> {0, 1}] /\ \A i \in Jobs \ {j} : repairs'[i] = repairs[i]
    BY <1>1, <1>2
  <2>3. UNCHANGED <<state, registry, lock, started, overlapped, unlisted>>
    BY <1>1
  <2>4. Typed' /\ Local(p, j)
    BY <1>7, <2>1, <2>2, <2>3, FileTyped
  <2> QED
    BY <1>2, <1>7, <2>4
<1>9. Wrote(j, file, content)
  BY <1>5, <1>8 DEF Wrote
<1> QED
  BY <1>1, <1>6, <1>8, <1>9

LEMMA ValidateKeeps ==
  ASSUME IInv, NEW p \in Commands, NEW j, j = JobOf(p), Validate(p)
  PROVE  IInv'
<1>1. Busy(p) /\ proc[p].at = "validate" /\ WriteFile(p, Report(p), Found(p), "validated")
  BY DEF Validate, At
<1>2. ReadOK(p) /\ Stage(p) = "validate" /\ files[j].diagnostics \in SUBSET Issues
  BY <1>1, OfJob DEF IInv, ReadInv, Stage, FileRecords
<1>3. PICK file, content : file = Report(p) /\ content = Found(p)
  OBVIOUS
<1>4. file \in {"validation", "afterRepair"} /\ content = proc[p].read \cup files[j].diagnostics
  BY <1>3 DEF Report, Found
<1>5. content \in SUBSET Issues /\ proc[p].read \in SUBSET Issues
  BY <1>2, <1>4 DEF ReadOK
<1>6. WriteFile(p, file, content, "validated") /\ "validated" \in Thens
  BY <1>1, <1>3 DEF Thens, Stages
<1>7. /\ Typed' /\ Local(p, j) /\ Wrote(j, file, content)
      /\ proc'[p].at = "validated" /\ proc'[p].command = proc[p].command
      /\ proc'[p].job = proc[p].job /\ proc'[p].read = proc[p].read
      /\ UNCHANGED <<state, registry, lock, overlapped, unlisted, repairs>>
  BY <1>1, <1>4, <1>5, <1>6, WriteFileIs DEF Reports
<1>8. ReadOK(p)'
  BY <1>5, <1>7 DEF ReadOK, Stage
<1>9. ASSUME j \notin overlapped PROVE JobOK(j)' /\ StageOK(p, j)'
  <2>1. JobOK(j) /\ StageOK(p, j)
    BY <1>1, <1>9, OfJob
  <2>2. state[j].status \in {"CONVERTED", "AI_REPAIRED"} /\ ReadsArtifact(p, j)
    BY <1>2, <2>1 DEF StageOK
  <2>3. Artifact(j)' = Artifact(j) /\ IssuesOf(j)' = IssuesOf(j)
    BY <1>7 DEF Wrote, Artifact, IssuesOf
  <2>4. ReadsArtifact(p, j)' /\ content = IssuesOf(j)
    BY <1>4, <1>7, <2>2, <2>3 DEF ReadsArtifact, IssuesOf
  <2>5. LatestReport(j)' = IssuesOf(j)
    BY <1>3, <1>7, <2>2, <2>4 DEF ReadsArtifact, Report, Wrote, LatestReport
  <2>6. JobOK(j)'
    BY <1>4, <1>7, <2>1, <2>2, <2>3 DEF JobOK, Wrote, IssuesAuthorized, Fresh, Reported, Passing,
                                  ClassifiedStatuses
  <2>7. StageOK(p, j)'
    BY <1>7, <2>2, <2>3, <2>4, <2>5 DEF StageOK, Stage, Skips
  <2> QED
    BY <2>6, <2>7
<1> QED
  BY <1>1, <1>7, <1>8, <1>9, FileStepKeeps

LEMMA WriteClassificationKeeps ==
  ASSUME IInv, NEW p \in Commands, NEW j, j = JobOf(p), WriteClassification(p)
  PROVE  IInv'
<1>1. /\ Busy(p) /\ proc[p].at = "classification"
      /\ WriteFile(p, "classification", proc[p].read, "outcome")
  BY DEF WriteClassification, At
<1>2. Stage(p) = "classification" /\ proc[p].read \in Classifications
  BY <1>1 DEF IInv, ReadInv, ReadOK, Stage
<1>3. PICK content : content = proc[p].read
  OBVIOUS
<1>4. WriteFile(p, "classification", content, "outcome") /\ content \in Classifications
  BY <1>1, <1>2, <1>3
<1>5. "outcome" \in Thens /\ "classification" \notin Reports
  BY DEF Thens, Stages, Reports
<1>6. /\ Typed' /\ Local(p, j) /\ Wrote(j, "classification", content)
      /\ proc'[p].at = "outcome" /\ proc'[p].command = proc[p].command
      /\ proc'[p].job = proc[p].job /\ proc'[p].read = proc[p].read
      /\ UNCHANGED <<state, registry, lock, overlapped, unlisted, repairs>>
  BY <1>1, <1>4, <1>5, WriteFileIs
<1>7. ReadOK(p)'
  BY <1>2, <1>6 DEF ReadOK, Stage
<1>8. ASSUME j \notin overlapped PROVE JobOK(j)' /\ StageOK(p, j)'
  <2>1. JobOK(j) /\ StageOK(p, j)
    BY <1>1, <1>8, OfJob
  <2>2. state[j].status = "ISSUES_CLASSIFIED" /\ proc[p].command = "classify"
    BY <1>2, <2>1 DEF StageOK
  <2>3. /\ Artifact(j)' = Artifact(j) /\ IssuesOf(j)' = IssuesOf(j)
        /\ LatestReport(j)' = LatestReport(j)
    BY <1>6 DEF Wrote, Artifact, IssuesOf, LatestReport
  <2>4. JobOK(j)'
    BY <1>6, <2>1, <2>2, <2>3 DEF JobOK, Wrote, IssuesAuthorized, Fresh, Reported, Passing,
                                  ClassifiedStatuses
  <2>5. StageOK(p, j)'
    BY <1>3, <1>6, <2>2 DEF StageOK, Stage, Skips, Wrote
  <2> QED
    BY <2>4, <2>5
<1> QED
  BY <1>1, <1>6, <1>7, <1>8, FileStepKeeps

LEMMA WriteAuthorizationKeeps ==
  ASSUME IInv, NEW p \in Commands, NEW j, j = JobOf(p), WriteAuthorization(p)
  PROVE  IInv'
<1>1. /\ Busy(p) /\ proc[p].at = "authorization"
      /\ WriteFile(p, "evidence", proc[p].read, "authorized")
  BY DEF WriteAuthorization, At
<1>2. Stage(p) = "authorization" /\ proc[p].read \in SUBSET Issues
  BY <1>1 DEF IInv, ReadInv, ReadOK, Stage
<1>3. PICK content : content = proc[p].read
  OBVIOUS
<1>4. WriteFile(p, "evidence", content, "authorized") /\ content \in SUBSET Issues
  BY <1>1, <1>2, <1>3
<1>5. "authorized" \in Thens /\ "evidence" \in Reports
  BY DEF Thens, Stages, Reports
<1>6. /\ Typed' /\ Local(p, j) /\ Wrote(j, "evidence", content)
      /\ proc'[p].at = "authorized" /\ proc'[p].command = proc[p].command
      /\ proc'[p].job = proc[p].job /\ proc'[p].read = proc[p].read
      /\ UNCHANGED <<state, registry, lock, overlapped, unlisted, repairs>>
  BY <1>1, <1>4, <1>5, WriteFileIs
<1>7. ReadOK(p)'
  BY <1>6 DEF ReadOK, Stage
<1>8. ASSUME j \notin overlapped PROVE JobOK(j)' /\ StageOK(p, j)'
  <2>1. JobOK(j) /\ StageOK(p, j)
    BY <1>1, <1>8, OfJob
  <2>2. /\ state[j].status \in ClassifiedStatuses /\ proc[p].read = files[j].validation
        /\ DOMAIN files[j].classification = files[j].validation
    BY <1>2, <2>1 DEF StageOK
  <2>3. /\ Artifact(j)' = Artifact(j) /\ IssuesOf(j)' = IssuesOf(j)
        /\ LatestReport(j)' = LatestReport(j)
    BY <1>6 DEF Wrote, Artifact, IssuesOf, LatestReport
  <2>4. JobOK(j)'
    BY <1>6, <2>1, <2>2, <2>3 DEF JobOK, Wrote, IssuesAuthorized, Fresh, Reported, Passing,
                                  ClassifiedStatuses
  <2>5. StageOK(p, j)'
    BY <1>3, <1>6, <2>2 DEF StageOK, Stage, Skips, Wrote
  <2> QED
    BY <2>4, <2>5
<1> QED
  BY <1>1, <1>6, <1>7, <1>8, FileStepKeeps

LEMMA RecordValidatedKeeps ==
  ASSUME IInv, NEW p \in Commands, NEW j, j = JobOf(p), RecordValidated(p)
  PROVE  IInv'
<1>1. Busy(p) /\ proc[p].at = "validated" /\ Move(p, "VALIDATED", "classified")
  BY DEF RecordValidated, At
<1>2. "VALIDATED" \in Statuses \ {"RECEIVED"} /\ "classified" \in Thens
  BY StatusesAre DEF Thens, Stages
<1>3. /\ SameCase(j) /\ state'[j].status = "VALIDATED" /\ Stage(p)' = "classified"
      /\ proc'[p].command = proc[p].command /\ proc'[p].read = proc[p].read
  BY <1>1, <1>2, MoveIs
<1>4. ReadOK(p)'
  BY <1>3 DEF ReadOK
<1>5. ASSUME j \notin overlapped PROVE JobOK(j)' /\ StageOK(p, j)'
  <2>1. Stage(p) = "validated" /\ JobOK(j) /\ StageOK(p, j)
    BY <1>1, <1>5, OfJob DEF Stage
  <2>2. /\ state[j].status \in {"CONVERTED", "AI_REPAIRED"} /\ ReadsArtifact(p, j)
        /\ LatestReport(j) = IssuesOf(j)
    BY <2>1 DEF StageOK
  <2>3. /\ Artifact(j)' = Artifact(j) /\ LatestReport(j)' = LatestReport(j)
        /\ IssuesOf(j)' = IssuesOf(j)
    BY <1>3, SameCaseReads
  <2>4. repairs[j] = 0 => state[j].artifact = "app" /\ files[j].validation = IssuesOf(j)
    BY <2>1, <2>2 DEF JobOK, LatestReport
  <2>5. JobOK(j)'
    BY <1>3, <2>1, <2>2, <2>3, <2>4 DEF JobOK, SameCase, IssuesAuthorized, Fresh, Reported,
                                        Passing, ClassifiedStatuses
  <2>6. StageOK(p, j)'
    BY <1>3, <2>2, <2>3 DEF StageOK, SameCase, ReadsArtifact, Skips
  <2> QED
    BY <2>5, <2>6
<1> QED
  BY <1>1, <1>2, <1>4, <1>5, MoveKeeps

LEMMA RecordIssuesKeeps ==
  ASSUME IInv, NEW p \in Commands, NEW j, j = JobOf(p), RecordIssues(p)
  PROVE  IInv'
<1>1. PICK then : then = IF Passed(p) THEN "ready" ELSE "end"
  OBVIOUS
<1>2. Busy(p) /\ proc[p].at = "classified" /\ Move(p, "ISSUES_CLASSIFIED", then)
  BY <1>1 DEF RecordIssues, At
<1>3. "ISSUES_CLASSIFIED" \in Statuses \ {"RECEIVED"} /\ then \in {"ready", "end"} \cap Thens
  BY <1>1, StatusesAre DEF Thens, Stages
<1>4. /\ SameCase(j) /\ state'[j].status = "ISSUES_CLASSIFIED" /\ Stage(p)' = then
      /\ proc'[p].command = proc[p].command /\ proc'[p].read = proc[p].read
  BY <1>2, <1>3, MoveIs
<1>5. ReadOK(p)'
  BY <1>3, <1>4 DEF ReadOK
<1>6. ASSUME j \notin overlapped PROVE JobOK(j)' /\ StageOK(p, j)'
  <2>1. Stage(p) = "classified" /\ JobOK(j) /\ StageOK(p, j)
    BY <1>2, <1>6, OfJob DEF Stage
  <2>2. /\ state[j].status = "VALIDATED" /\ ReadsArtifact(p, j) /\ LatestReport(j) = IssuesOf(j)
    BY <2>1 DEF StageOK
  <2>3. /\ Artifact(j)' = Artifact(j) /\ LatestReport(j)' = LatestReport(j)
        /\ IssuesOf(j)' = IssuesOf(j)
    BY <1>4, SameCaseReads
  <2>4. then = "ready" => IssuesOf(j) \cap Blocking = {}
    BY <1>1, <2>2 DEF Passed, Found, ReadsArtifact, IssuesOf
  <2>5. JobOK(j)'
    BY <1>4, <2>1, <2>2, <2>3 DEF JobOK, SameCase, IssuesAuthorized, Fresh, Reported, Passing,
                                  ClassifiedStatuses
  <2>6. StageOK(p, j)'
    BY <1>3, <1>4, <2>2, <2>3, <2>4 DEF StageOK, Skips
  <2> QED
    BY <2>5, <2>6
<1> QED
  BY <1>2, <1>3, <1>5, <1>6, MoveKeeps

LEMMA ReadyKeeps ==
  ASSUME IInv, NEW p \in Commands, NEW j, j = JobOf(p), Ready(p)
  PROVE  IInv'
<1>1. PICK to : to = IF state[JobOf(p)].mode = "platform" THEN "READY_TO_SAVE"
                     ELSE "DRY_RUN_SUCCEEDED"
  OBVIOUS
<1>2. Busy(p) /\ proc[p].at = "ready" /\ Move(p, to, "end")
  BY <1>1 DEF Ready, At
<1>3. to \in (Statuses \ {"RECEIVED"}) \cap Passing /\ "end" \in Thens
  BY <1>1, StatusesAre DEF Thens, Stages, Passing, Terminal
<1>4. /\ SameCase(j) /\ state'[j].status = to /\ Stage(p)' = "end"
      /\ proc'[p].command = proc[p].command /\ proc'[p].read = proc[p].read
  BY <1>2, <1>3, MoveIs
<1>5. ReadOK(p)'
  BY <1>4 DEF ReadOK
<1>6. ASSUME j \notin overlapped PROVE JobOK(j)' /\ StageOK(p, j)'
  <2>1. Stage(p) = "ready" /\ JobOK(j) /\ StageOK(p, j)
    BY <1>2, <1>6, OfJob DEF Stage
  <2>2. state[j].status = "ISSUES_CLASSIFIED" /\ IssuesOf(j) \cap Blocking = {}
    BY <2>1 DEF StageOK
  <2>3. /\ Artifact(j)' = Artifact(j) /\ LatestReport(j)' = LatestReport(j)
        /\ IssuesOf(j)' = IssuesOf(j)
    BY <1>4, SameCaseReads
  <2>4. JobOK(j)'
    BY <1>3, <1>4, <2>1, <2>2, <2>3 DEF JobOK, SameCase, IssuesAuthorized, Fresh, Reported,
                                        Passing, ClassifiedStatuses
  <2>5. StageOK(p, j)'
    BY <1>4 DEF StageOK, Skips
  <2> QED
    BY <2>4, <2>5
<1> QED
  BY <1>2, <1>3, <1>5, <1>6, MoveKeeps

LEMMA RecordOutcomeKeeps ==
  ASSUME IInv, NEW p \in Commands, NEW j, j = JobOf(p), RecordOutcome(p)
  PROVE  IInv'
<1>1. PICK to : to = StatusOf(proc[p].read)
  OBVIOUS
<1>2. Busy(p) /\ proc[p].at = "outcome" /\ Move(p, to, "end")
  BY <1>1 DEF RecordOutcome, At
<1>3. to \in (Statuses \ {"RECEIVED"}) \cap ClassifiedStatuses /\ "end" \in Thens
  BY <1>1, StatusesAre DEF Thens, Stages, StatusOf, ClassifiedStatuses
<1>4. /\ SameCase(j) /\ state'[j].status = to /\ Stage(p)' = "end"
      /\ proc'[p].command = proc[p].command /\ proc'[p].read = proc[p].read
  BY <1>2, <1>3, MoveIs
<1>5. ReadOK(p)'
  BY <1>4 DEF ReadOK
<1>6. ASSUME j \notin overlapped PROVE JobOK(j)' /\ StageOK(p, j)'
  <2>1. Stage(p) = "outcome" /\ JobOK(j) /\ StageOK(p, j) /\ proc[p].read \in Classifications
    BY <1>2, <1>6, OfJob DEF Stage, IInv, ReadInv, ReadOK
  <2>2. state[j].status = "ISSUES_CLASSIFIED" /\ files[j].classification = proc[p].read
    BY <2>1 DEF StageOK
  <2>3. /\ Artifact(j)' = Artifact(j) /\ LatestReport(j)' = LatestReport(j)
        /\ IssuesOf(j)' = IssuesOf(j)
    BY <1>4, SameCaseReads
  <2>4. /\ files[j].classification # None
        /\ to = "AI_REPAIR_REQUIRED" =>
             \A i \in DOMAIN files[j].classification : files[j].classification[i] = "repairable"
        /\ to = "BLOCKED_CONVERTER_DEFECT" =>
             \E i \in DOMAIN files[j].classification : files[j].classification[i] = "converter"
    BY <1>1, <2>1, <2>2, NothingAssumption DEF StatusOf
  <2>5. JobOK(j)'
    BY <1>3, <1>4, <2>1, <2>2, <2>3, <2>4 DEF JobOK, SameCase, IssuesAuthorized, Fresh, Reported,
                                              Passing, ClassifiedStatuses
  <2>6. StageOK(p, j)'
    BY <1>4 DEF StageOK, Skips
  <2> QED
    BY <2>5, <2>6
<1> QED
  BY <1>2, <1>3, <1>5, <1>6, MoveKeeps

LEMMA RecordAuthorizationKeeps ==
  ASSUME IInv, NEW p \in Commands, NEW j, j = JobOf(p), RecordAuthorization(p)
  PROVE  IInv'
<1>1. /\ Busy(p) /\ proc[p].at = "authorized"
      /\ Move(p, "READY_TO_SAVE_DIAGNOSTIC_COPY", "end")
  BY DEF RecordAuthorization, At
<1>2. "READY_TO_SAVE_DIAGNOSTIC_COPY" \in Statuses \ {"RECEIVED"} /\ "end" \in Thens
  BY StatusesAre DEF Thens, Stages
<1>3. /\ SameCase(j) /\ state'[j].status = "READY_TO_SAVE_DIAGNOSTIC_COPY" /\ Stage(p)' = "end"
      /\ proc'[p].command = proc[p].command /\ proc'[p].read = proc[p].read
  BY <1>1, <1>2, MoveIs
<1>4. ReadOK(p)'
  BY <1>3 DEF ReadOK
<1>5. ASSUME j \notin overlapped PROVE JobOK(j)' /\ StageOK(p, j)'
  <2>1. Stage(p) = "authorized" /\ JobOK(j) /\ StageOK(p, j)
    BY <1>1, <1>5, OfJob DEF Stage
  <2>2. /\ state[j].status \in ClassifiedStatuses /\ files[j].evidence = files[j].validation
        /\ DOMAIN files[j].classification = files[j].validation
    BY <2>1 DEF StageOK
  <2>3. /\ Artifact(j)' = Artifact(j) /\ LatestReport(j)' = LatestReport(j)
        /\ IssuesOf(j)' = IssuesOf(j)
    BY <1>3, SameCaseReads
  <2>4. repairs[j] = 0 => state[j].artifact = "app" /\ files[j].validation = IssuesOf(j)
    BY <2>1, <2>2 DEF JobOK
  <2>5. JobOK(j)'
    BY <1>3, <2>2, <2>3, <2>4 DEF JobOK, SameCase, IssuesAuthorized, Fresh, Reported,
                                  Passing, ClassifiedStatuses
  <2>6. StageOK(p, j)'
    BY <1>3 DEF StageOK, Skips
  <2> QED
    BY <2>5, <2>6
<1> QED
  BY <1>1, <1>2, <1>4, <1>5, MoveKeeps

(* The Job names another artifact.                                           *)
LEMMA RecordConvertedKeeps ==
  ASSUME IInv, NEW p \in Commands, NEW j, j = JobOf(p), RecordConverted(p)
  PROVE  IInv'
<1>1. PICK patched : patched = [state[JobOf(p)] EXCEPT !.artifact = "app",
                                                       !.digest = files[JobOf(p)].app]
  OBVIOUS
<1>2. Busy(p) /\ proc[p].at = "converted" /\ Transition(p, "CONVERTED", patched, "validate")
  BY <1>1 DEF RecordConverted, At
<1>3. "CONVERTED" \in Statuses \ {"RECEIVED"} /\ "CONVERTED" \in Statuses /\ "validate" \in Thens
  BY StatusesAre DEF Thens, Stages
<1>4. state[j] \in JobRecords /\ files[j].app \in Contents
  BY <1>2, OfJob DEF FileRecords
<1>5. /\ patched \in JobRecords /\ patched.artifact = "app" /\ patched.digest = files[j].app
  BY <1>1, <1>4 DEF JobRecords
<1>6. /\ state'[j].status = "CONVERTED" /\ state'[j].artifact = patched.artifact
      /\ state'[j].digest = patched.digest
      /\ proc'[p].at = "registry" /\ proc'[p].then = "validate"
      /\ proc'[p].command = proc[p].command /\ proc'[p].read = proc[p].read
      /\ files' = files /\ repairs' = repairs
  BY <1>2, <1>3, <1>5, TransitionIs
<1>7. Stage(p)' = "validate"
  BY <1>6 DEF Stage
<1>8. ReadOK(p)'
  BY <1>2, <1>6, <1>7 DEF IInv, ReadInv, ReadOK, Stage
<1>9. ASSUME j \notin overlapped PROVE JobOK(j)' /\ StageOK(p, j)'
  <2>1. Stage(p) = "converted" /\ JobOK(j) /\ StageOK(p, j)
    BY <1>2, <1>9, OfJob DEF Stage
  <2>2. proc[p].command = "migrate" /\ proc[p].read = files[j].app
    BY <2>1 DEF StageOK
  <2>3. Artifact(j)' = files[j].app
    BY <1>5, <1>6 DEF Artifact
  <2>4. JobOK(j)'
    BY <1>5, <1>6, <2>3 DEF JobOK, IssuesAuthorized, Fresh, Reported, Passing, ClassifiedStatuses
  <2>5. StageOK(p, j)'
    BY <1>5, <1>6, <1>7, <2>2, <2>3 DEF StageOK, ReadsArtifact, Skips
  <2> QED
    BY <2>4, <2>5
<1>10. proc[p].at \notin {"create", "registry"}
  BY <1>2
<1> QED
  BY <1>2, <1>3, <1>5, <1>8, <1>9, <1>10, TransitionKeeps

LEMMA RecordPatchedKeeps ==
  ASSUME IInv, NEW p \in Commands, NEW j, j = JobOf(p), RecordPatched(p)
  PROVE  IInv'
<1>1. PICK patched : patched = [state[JobOf(p)] EXCEPT !.artifact = "patched",
                                                       !.digest = files[JobOf(p)].patched]
  OBVIOUS
<1>2. Busy(p) /\ proc[p].at = "patched" /\ Transition(p, "AI_REPAIRED", patched, "validate")
  BY <1>1 DEF RecordPatched, At
<1>3. /\ "AI_REPAIRED" \in Statuses \ {"RECEIVED"} /\ "AI_REPAIRED" \in Statuses
      /\ "validate" \in Thens
  BY StatusesAre DEF Thens, Stages
<1>4. state[j] \in JobRecords /\ files[j].patched \in Contents
  BY <1>2, OfJob DEF FileRecords
<1>5. /\ patched \in JobRecords /\ patched.artifact = "patched"
      /\ patched.digest = files[j].patched
  BY <1>1, <1>4 DEF JobRecords
<1>6. /\ state'[j].status = "AI_REPAIRED" /\ state'[j].artifact = patched.artifact
      /\ state'[j].digest = patched.digest
      /\ proc'[p].at = "registry" /\ proc'[p].then = "validate"
      /\ proc'[p].command = proc[p].command /\ proc'[p].read = proc[p].read
      /\ files' = files /\ repairs' = repairs
  BY <1>2, <1>3, <1>5, TransitionIs
<1>7. Stage(p)' = "validate"
  BY <1>6 DEF Stage
<1>8. ReadOK(p)'
  BY <1>2, <1>6, <1>7 DEF IInv, ReadInv, ReadOK, Stage
<1>9. ASSUME j \notin overlapped PROVE JobOK(j)' /\ StageOK(p, j)'
  <2>1. Stage(p) = "patched" /\ JobOK(j) /\ StageOK(p, j)
    BY <1>2, <1>9, OfJob DEF Stage
  <2>2. /\ proc[p].command = "apply-patch" /\ proc[p].read = files[j].patched
        /\ repairs[j] = 1 /\ state[j].status = "AI_REPAIR_REQUIRED"
    BY <2>1 DEF StageOK
  <2>3. Artifact(j)' = files[j].patched
    BY <1>5, <1>6 DEF Artifact
  <2>4. JobOK(j)'
    BY <1>5, <1>6, <2>1, <2>2, <2>3 DEF JobOK, IssuesAuthorized, Fresh, Reported, Passing,
                                        ClassifiedStatuses
  <2>5. StageOK(p, j)'
    BY <1>5, <1>6, <1>7, <2>2, <2>3 DEF StageOK, ReadsArtifact, Skips
  <2> QED
    BY <2>4, <2>5
<1>10. proc[p].at \notin {"create", "registry"}
  BY <1>2
<1> QED
  BY <1>2, <1>3, <1>5, <1>8, <1>9, <1>10, TransitionKeeps

LEMMA PatchKeeps ==
  ASSUME IInv, NEW p \in Commands, NEW j, j = JobOf(p), Patch(p)
  PROVE  IInv'
<1>1. PICK content \in SUBSET CaseIssues :
        /\ files' = [files EXCEPT ![JobOf(p)].patched = content]
        /\ proc' = [proc EXCEPT ![p].at = "patched", ![p].read = content]
  BY DEF Patch
<1>2. /\ Busy(p) /\ proc[p].at = "patch" /\ repairs' = [repairs EXCEPT ![JobOf(p)] = 1]
      /\ UNCHANGED <<state, registry, lock, started, overlapped, unlisted>>
  BY DEF Patch, At
<1>3. /\ j \in Jobs /\ proc[p] \in Processes /\ files[j] \in FileRecords
      /\ files \in [Jobs -> FileRecords] /\ proc \in [Commands -> Processes]
      /\ repairs \in [Jobs -> {0, 1}]
  BY <1>2, OfJob DEF IInv, Typed
<1>4. PICK g : g = [files[j] EXCEPT !.patched = content]
  OBVIOUS
<1>5. PICK c : c = [proc[p] EXCEPT !.at = "patched", !.read = content]
  OBVIOUS
<1>6. content \in SUBSET Issues
  BY DEF Issues
<1>7. /\ g \in FileRecords /\ g.patched = content /\ g.diagnostics = files[j].diagnostics
      /\ g.validation = files[j].validation /\ g.classification = files[j].classification
  BY <1>3, <1>4, <1>6 DEF FileRecords, Contents
<1>8. /\ c \in Processes /\ c.job = proc[p].job /\ c.command = proc[p].command
      /\ c.at = "patched" /\ c.read = content
  <2>1. "patched" \in Stages /\ content \in Contents \cup Classifications
    BY <1>6 DEF Stages, Contents
  <2> QED
    BY <1>3, <1>5, <2>1 DEF Processes
<1>9. files' = [files EXCEPT ![j] = g] /\ proc' = [proc EXCEPT ![p] = c]
  BY <1>1, <1>3, <1>4, <1>5
<1>10. /\ repairs' \in [Jobs -> {0, 1}] /\ repairs'[j] = 1
       /\ \A i \in Jobs \ {j} : repairs'[i] = repairs[i]
  BY <1>2, <1>3
<1>11. Typed' /\ Local(p, j) /\ files'[j] = g /\ proc'[p] = c
  BY <1>2, <1>3, <1>7, <1>8, <1>9, <1>10, FileTyped
<1>12. ReadOK(p)'
  BY <1>6, <1>8, <1>11 DEF ReadOK, Stage
<1>13. ASSUME j \notin overlapped PROVE JobOK(j)' /\ StageOK(p, j)'
  <2>1. Stage(p) = "patch" /\ JobOK(j) /\ StageOK(p, j)
    BY <1>2, <1>13, OfJob DEF Stage
  <2>2. proc[p].command = "apply-patch" /\ state[j].status = "AI_REPAIR_REQUIRED"
    BY <2>1 DEF StageOK
  <2>3. JobOK(j)'
    BY <1>2, <1>7, <1>10, <1>11, <2>1, <2>2 DEF JobOK, IssuesAuthorized, Fresh, Reported, Passing,
                                                ClassifiedStatuses
  <2>4. StageOK(p, j)'
    BY <1>2, <1>7, <1>8, <1>10, <1>11, <2>2 DEF StageOK, Skips, Stage
  <2> QED
    BY <2>3, <2>4
<1> QED
  BY <1>2, <1>8, <1>11, <1>12, <1>13, FileStepKeeps

-----------------------------------------------------------------------------
(* Steps that end the update of the registry, or the command.                *)
LEMMA IdleIsTyped == Idle \in Processes /\ NoList \in Lists
<1>1. NoList \in Lists
  BY DEF NoList, Lists, Marks
<1>2. "idle" \in Stages /\ "idle" \in Stages \ {"create", "registry"}
  BY DEF Stages
<1>3. None \in Contents \cup Classifications
  BY DEF Contents
<1> QED
  BY <1>1, <1>2, <1>3 DEF Idle, Processes

LEMMA UnlockKeeps ==
  ASSUME IInv, NEW p \in Commands, NEW j, j = JobOf(p), Busy(p), Unlock(p),
         UNCHANGED <<state, files, started, overlapped, repairs>>,
         NEW c \in Processes, proc' = [proc EXCEPT ![p] = c], c.at \notin {"create", "registry"},
         c.command # "none" => c.job = j,
         registry' \in Lists, unlisted' \subseteq Jobs, ReadOK(p)',
         j \notin overlapped /\ On(p, j)' => StageOK(p, j)'
  PROVE  /\ Typed' /\ ReadInv' /\ RegistryInv' /\ FlowInv'
         /\ \A i \in Jobs \ {j} : Updating(i) => Updating(i)'
         /\ proc[p].at \notin {"create", "registry"} => (Updating(j) => Updating(j)')
<1>1. /\ j \in Jobs /\ On(p, j) /\ \A i \in Jobs \ {j} : ~On(p, i)
      /\ j \notin overlapped => JobOK(j) /\ \A q \in Commands \ {p} : ~On(q, j)
      /\ Typed
  BY OfJob DEF IInv
<1>2. /\ proc'[p] = c /\ \A q \in Commands \ {p} : proc'[q] = proc[q]
      /\ proc' \in [Commands -> Processes]
  BY <1>1 DEF Typed
<1>3. /\ \A i \in Jobs : lock'[i] = IF lock[i] = p THEN None ELSE lock[i]
      /\ lock' \in [Jobs -> Commands \cup {None}]
  BY <1>1 DEF Unlock, Typed
<1>4. /\ \A q \in Commands \ {p}, i \in Jobs : On(q, i)' <=> On(q, i)
      /\ \A i \in Jobs : On(p, i)' => i = j
  BY <1>1, <1>2 DEF On, Busy
<1>5. Typed'
  <2>1. \A q \in Commands : proc'[q].command # "none" => proc'[q].job \in Jobs
    BY <1>1, <1>2 DEF Typed
  <2> QED
    BY <1>1, <1>2, <1>3, <2>1 DEF Typed
<1>6. ReadInv'
  BY <1>2 DEF IInv, ReadInv, ReadOK, Stage
<1>7. FlowInv'
  <2>1. Local(p, j)
    BY <1>1, <1>2 DEF Local
  <2>2. j \notin overlapped => JobOK(j)'
    BY <1>1 DEF JobOK, Artifact, LatestReport, IssuesOf, IssuesAuthorized
  <2>3. \A i \in Jobs \ {j} : ~On(p, i) /\ ~On(p, i)'
    BY <1>1, <1>4
  <2>4. FlowInv /\ overlapped' = overlapped
    BY DEF IInv
  <2> QED
    BY <1>1, <2>1, <2>2, <2>3, <2>4, FlowKeeps
<1>8. RegistryInv'
  <2> SUFFICES ASSUME NEW i \in Jobs
               PROVE  /\ state'[i].status = "absent" => \A q \in Commands : ~On(q, i)'
                      /\ state'[i].status = "RECEIVED" => Alone(i)'
                      /\ lock'[i] # None => At(lock[i], "registry")' /\ JobOf(lock[i])' = i
                      /\ \A q \in Commands : On(q, i)' /\ proc'[q].at = "create" =>
                           state'[i].status = "RECEIVED"
                      /\ \A q \in Commands : On(q, i)' /\ proc'[q].at = "registry" =>
                           /\ proc'[q].status = state'[i].status
                           /\ lock'[i] = q \/ state'[i].status = "RECEIVED"
    BY DEF RegistryInv
  <2>1. /\ state[i].status = "absent" => \A q \in Commands : ~On(q, i)
        /\ state[i].status = "RECEIVED" => Alone(i)
        /\ lock[i] # None => At(lock[i], "registry") /\ JobOf(lock[i]) = i
        /\ \A q \in Commands : On(q, i) /\ proc[q].at = "create" => state[i].status = "RECEIVED"
        /\ \A q \in Commands : On(q, i) /\ proc[q].at = "registry" =>
             /\ proc[q].status = state[i].status
             /\ lock[i] = q \/ state[i].status = "RECEIVED"
    BY DEF IInv, RegistryInv
  <2>2. \A q \in Commands : On(q, i)' => On(q, i)
    BY <1>1, <1>4
  <2>3. Alone(i) => Alone(i)'
    BY <2>2 DEF Alone
  <2>4. lock'[i] # None => At(lock[i], "registry")' /\ JobOf(lock[i])' = i
    <3> SUFFICES ASSUME lock'[i] # None PROVE At(lock[i], "registry")' /\ JobOf(lock[i])' = i
      OBVIOUS
    <3>1. lock'[i] = lock[i] /\ lock[i] \in Commands \ {p} /\ JobOf(lock[i]) = i
          /\ At(lock[i], "registry")
      BY <1>1, <1>3, <2>1 DEF Typed
    <3> QED
      BY <1>2, <3>1 DEF At, Busy, JobOf
  <2>5. ASSUME NEW q \in Commands, On(q, i)', proc'[q].at \in {"create", "registry"}
        PROVE  q # p /\ proc'[q] = proc[q] /\ On(q, i)
    BY <1>2, <2>2, <2>5
  <2> QED
    BY <1>3, <2>1, <2>2, <2>3, <2>4, <2>5
<1>9. \A i \in Jobs \ {j} : Updating(i) => Updating(i)'
  BY <1>1, <1>2, <1>4 DEF Updating
<1>10. proc[p].at \notin {"create", "registry"} => (Updating(j) => Updating(j)')
  BY <1>1, <1>2, <1>4 DEF Updating
<1> QED
  BY <1>5, <1>6, <1>7, <1>8, <1>9, <1>10

LEMMA StopKeeps ==
  ASSUME IInv, NEW p \in Commands, NEW j, j = JobOf(p), Stop(p)
  PROVE  IInv'
<1>1. /\ Busy(p) /\ Unlock(p) /\ proc' = [proc EXCEPT ![p] = Idle]
      /\ unlisted' = IF proc[p].at \in {"create", "registry"} THEN unlisted \cup {j} ELSE unlisted
      /\ UNCHANGED <<state, files, registry, started, overlapped, repairs>>
  BY DEF Stop
<1>2. PICK c : c = Idle
  OBVIOUS
<1>3. c \in Processes /\ c.at = "idle" /\ c.command = "none"
  BY <1>2, IdleIsTyped DEF Idle
<1>4. j \in Jobs /\ Typed /\ proc'[p] = c
  BY <1>1, <1>2, OfJob DEF IInv, Typed
<1>5. ReadOK(p)' /\ ~On(p, j)'
  BY <1>3, <1>4 DEF ReadOK, Stage, On, Busy
<1>6. registry' \in Lists /\ unlisted' \subseteq Jobs
  BY <1>1, <1>4 DEF Typed
<1>7. /\ Typed' /\ ReadInv' /\ RegistryInv' /\ FlowInv'
      /\ \A i \in Jobs \ {j} : Updating(i) => Updating(i)'
      /\ proc[p].at \notin {"create", "registry"} => (Updating(j) => Updating(j)')
  <2>1. proc' = [proc EXCEPT ![p] = c] /\ c.at \notin {"create", "registry"}
    BY <1>1, <1>2, <1>3
  <2>2. UNCHANGED <<state, files, started, overlapped, repairs>>
    BY <1>1
  <2> QED
    BY <1>1, <1>3, <1>5, <1>6, <2>1, <2>2, UnlockKeeps
<1>8. Listed'
  BY <1>1, <1>7 DEF IInv, Listed
<1> QED
  BY <1>7, <1>8 DEF IInv

LEMMA WriteRegistryKeeps ==
  ASSUME IInv, NEW p \in Commands, NEW j, j = JobOf(p), WriteRegistry(p)
  PROVE  IInv'
<1>1. PICK c : c = IF proc[p].then = "end" THEN Idle
                   ELSE [proc[p] EXCEPT !.at = proc[p].then, !.then = "idle", !.status = None,
                                        !.list = NoList]
  OBVIOUS
<1>2. /\ Busy(p) /\ proc[p].at = "registry" /\ Unlock(p) /\ registry' = Entries(p)
      /\ unlisted' = (unlisted \ {j}) \cup {i \in Jobs \ {j} : registry[i] # proc[p].list[i]}
      /\ UNCHANGED <<state, files, started, overlapped, repairs>>
  BY DEF WriteRegistry, At
<1>3. j \in Jobs /\ Typed /\ proc[p] \in Processes /\ On(p, j) /\ ReadOK(p)
  BY <1>2, OfJob DEF IInv, ReadInv
<1>4. proc' = [proc EXCEPT ![p] = c]
  BY <1>1, <1>3 DEF WriteRegistry, Typed
<1>5. c \in Processes /\ c.at \notin {"create", "registry"}
  <2>1. CASE proc[p].then = "end"
    BY <1>1, <2>1, IdleIsTyped DEF Idle
  <2>2. CASE proc[p].then # "end"
    <3>1. proc[p].then \in Stages \ {"create", "registry"} /\ "idle" \in Stages
      BY <1>3 DEF Processes, Stages
    <3>2. c = [proc[p] EXCEPT !.at = proc[p].then, !.then = "idle", !.status = None,
                              !.list = NoList]
      BY <1>1, <2>2
    <3> QED
      BY <1>3, <3>1, <3>2, IdleIsTyped DEF Processes
  <2> QED
    BY <2>1, <2>2
<1>6. proc'[p] = c
  BY <1>3, <1>4 DEF Typed
<1>7. /\ c.command # "none" => /\ c.job = j /\ c.at = proc[p].then /\ c.command = proc[p].command
                               /\ c.read = proc[p].read
      /\ c.command = "none" => c.at = "idle"
  <2>1. CASE proc[p].then = "end"
    BY <1>1, <2>1 DEF Idle
  <2>2. CASE proc[p].then # "end"
    <3>1. c = [proc[p] EXCEPT !.at = proc[p].then, !.then = "idle", !.status = None,
                              !.list = NoList]
      BY <1>1, <2>2
    <3> QED
      BY <1>2, <1>3, <3>1 DEF Processes, JobOf, Busy
  <2> QED
    BY <2>1, <2>2
<1>8. Stage(p) = proc[p].then /\ Stage(p)' = c.at
  BY <1>2, <1>5, <1>6 DEF Stage
<1>9. ReadOK(p)'
  <2>1. CASE c.command = "none"
    BY <1>7, <1>8, <2>1 DEF ReadOK
  <2>2. CASE c.command # "none"
    BY <1>3, <1>6, <1>7, <1>8, <2>2 DEF ReadOK
  <2> QED
    BY <2>1, <2>2
<1>10. j \notin overlapped /\ On(p, j)' => StageOK(p, j)'
  <2> SUFFICES ASSUME j \notin overlapped, On(p, j)' PROVE StageOK(p, j)'
    OBVIOUS
  <2>1. StageOK(p, j)
    BY <1>2, OfJob
  <2>2. Stage(p)' = Stage(p) /\ proc'[p].command = proc[p].command /\ proc'[p].read = proc[p].read
    BY <1>6, <1>7, <1>8 DEF On, Busy
  <2> QED
    BY <1>2, <2>1, <2>2 DEF StageOK, ReadsArtifact, Artifact, LatestReport, IssuesOf
<1>11. proc[p].list \in Lists /\ proc[p].status = state[j].status /\ state[j].status \in Marks
  BY <1>2, <1>3 DEF Processes, IInv, RegistryInv, Typed, JobRecords
<1>12. /\ registry' \in Lists /\ registry'[j] = state[j].status
       /\ \A i \in Jobs \ {j} : registry'[i] = proc[p].list[i]
  BY <1>2, <1>3, <1>11 DEF Entries, Lists
<1>13. unlisted' \subseteq Jobs
  BY <1>2, <1>3 DEF Typed
<1>14. /\ Typed' /\ ReadInv' /\ RegistryInv' /\ FlowInv'
       /\ \A i \in Jobs \ {j} : Updating(i) => Updating(i)'
  BY <1>2, <1>4, <1>5, <1>7, <1>9, <1>10, <1>12, <1>13, UnlockKeeps
<1>15. Listed'
  <2> SUFFICES ASSUME NEW i \in Jobs, i \notin unlisted'
               PROVE  Updating(i)' \/ registry'[i] = state[i].status
    BY <1>2 DEF Listed
  <2>1. CASE i = j
    BY <1>12, <2>1
  <2>2. CASE i # j
    <3>1. i \notin unlisted /\ registry'[i] = registry[i]
      BY <1>2, <1>12, <2>2
    <3>2. Updating(i) \/ registry[i] = state[i].status
      BY <3>1 DEF IInv, Listed
    <3> QED
      BY <1>14, <2>2, <3>1, <3>2
  <2> QED
    BY <2>1, <2>2
<1> QED
  BY <1>14, <1>15 DEF IInv

-----------------------------------------------------------------------------
(* A new Job is entered.                                                     *)
LEMMA CreateKeeps ==
  ASSUME IInv, NEW p \in Commands, NEW j, j = JobOf(p), Create(p)
  PROVE  IInv'
<1>1. PICK then : then = IF proc[p].command = "create" THEN "end" ELSE "update"
  OBVIOUS
<1>2. /\ Busy(p) /\ proc[p].at = "create"
      /\ UNCHANGED <<state, files, registry, lock, started, overlapped, unlisted, repairs>>
  BY DEF Create, At
<1>3. PICK c : c = [proc[p] EXCEPT !.at = "registry", !.status = "RECEIVED", !.list = registry,
                                   !.then = then]
  OBVIOUS
<1>4. /\ j \in Jobs /\ Typed /\ proc[p] \in Processes /\ On(p, j)
      /\ \A i \in Jobs \ {j} : ~On(p, i)
  BY <1>2, OfJob DEF IInv
<1>5. proc' = [proc EXCEPT ![p] = c]
  BY <1>1, <1>3, <1>4 DEF Create, Typed
<1>6. /\ c \in Processes /\ c.command = proc[p].command /\ c.job = proc[p].job
      /\ c.at = "registry" /\ c.then = then /\ c.status = "RECEIVED" /\ c.read = proc[p].read
  <2>1. /\ "registry" \in Stages /\ then \in Stages \ {"create", "registry"}
        /\ registry \in Lists /\ "RECEIVED" \in Statuses \cup {None}
    BY <1>1, <1>4, StatusesAre DEF Stages, Typed
  <2> QED
    BY <1>3, <1>4, <2>1 DEF Processes
<1>7. /\ proc'[p] = c /\ proc' \in [Commands -> Processes]
      /\ \A q \in Commands \ {p} : proc'[q] = proc[q]
  BY <1>4, <1>5, <1>6 DEF Typed
<1>8. \A q \in Commands, i \in Jobs : On(q, i)' <=> On(q, i)
  BY <1>6, <1>7 DEF On, Busy
<1>9. Typed'
  <2>1. \A q \in Commands : proc'[q].command # "none" => proc'[q].job \in Jobs
    BY <1>4, <1>6, <1>7 DEF Typed
  <2> QED
    BY <1>2, <1>4, <1>7, <2>1 DEF Typed
<1>10. Stage(p)' = then
  BY <1>6, <1>7 DEF Stage
<1>11. ReadInv'
  BY <1>1, <1>7, <1>10 DEF IInv, ReadInv, ReadOK, Stage
<1>12. state[j].status = "RECEIVED"
  BY <1>2, <1>4 DEF IInv, RegistryInv
<1>13. FlowInv'
  <2>1. ASSUME j \notin overlapped
        PROVE  /\ \A q \in Commands \ {p} : ~On(q, j)
               /\ JobOK(j)' /\ StageOK(p, j)'
    <3>1. /\ Stage(p) = "create" /\ JobOK(j) /\ StageOK(p, j)
          /\ \A q \in Commands \ {p} : ~On(q, j)
      BY <1>2, <2>1, OfJob DEF Stage
    <3>2. proc[p].command \in {"create", "migrate"} /\ state[j].artifact = None
      BY <3>1 DEF StageOK
    <3>3. JobOK(j)'
      BY <1>2, <3>1 DEF JobOK, Artifact, LatestReport, IssuesOf, IssuesAuthorized
    <3>4. StageOK(p, j)'
      BY <1>1, <1>2, <1>6, <1>7, <1>10, <1>12, <3>2 DEF StageOK, Skips
    <3> QED
      BY <3>1, <3>3, <3>4
  <2>2. Local(p, j)
    BY <1>2, <1>7 DEF Local
  <2>3. \A i \in Jobs \ {j} : ~On(p, i) /\ ~On(p, i)'
    BY <1>4, <1>8
  <2>4. FlowInv /\ overlapped' = overlapped
    BY <1>2 DEF IInv
  <2> QED
    BY <1>4, <2>1, <2>2, <2>3, <2>4, FlowKeeps
<1>14. RegistryInv'
  <2> SUFFICES ASSUME NEW i \in Jobs
               PROVE  /\ state[i].status = "absent" => \A q \in Commands : ~On(q, i)
                      /\ state[i].status = "RECEIVED" => Alone(i)'
                      /\ lock[i] # None => At(lock[i], "registry")' /\ JobOf(lock[i])' = i
                      /\ \A q \in Commands : On(q, i) /\ proc'[q].at = "create" =>
                           state[i].status = "RECEIVED"
                      /\ \A q \in Commands : On(q, i) /\ proc'[q].at = "registry" =>
                           /\ proc'[q].status = state[i].status
                           /\ lock[i] = q \/ state[i].status = "RECEIVED"
    BY <1>2, <1>8 DEF RegistryInv
  <2>1. /\ state[i].status = "absent" => \A q \in Commands : ~On(q, i)
        /\ state[i].status = "RECEIVED" => Alone(i)
        /\ lock[i] # None => At(lock[i], "registry") /\ JobOf(lock[i]) = i
        /\ \A q \in Commands : On(q, i) /\ proc[q].at = "create" => state[i].status = "RECEIVED"
        /\ \A q \in Commands : On(q, i) /\ proc[q].at = "registry" =>
             /\ proc[q].status = state[i].status
             /\ lock[i] = q \/ state[i].status = "RECEIVED"
    BY DEF IInv, RegistryInv
  <2>2. lock[i] # None => At(lock[i], "registry")' /\ JobOf(lock[i])' = i
    <3> SUFFICES ASSUME lock[i] # None PROVE At(lock[i], "registry")' /\ JobOf(lock[i])' = i
      OBVIOUS
    <3>1. lock'[i] = lock[i] /\ lock[i] \in Commands \ {p} /\ JobOf(lock[i]) = i
          /\ At(lock[i], "registry")
      BY <1>2, <1>4, <2>1 DEF Typed, At
    <3> QED
      BY <1>7, <3>1 DEF At, Busy, JobOf
  <2>3. state[i].status = "RECEIVED" => Alone(i)'
    BY <1>8, <2>1 DEF Alone
  <2>4. ASSUME NEW q \in Commands, On(q, i)
        PROVE  /\ proc'[q].at = "create" => state[i].status = "RECEIVED"
               /\ proc'[q].at = "registry" =>
                    /\ proc'[q].status = state[i].status
                    /\ lock[i] = q \/ state[i].status = "RECEIVED"
    <3>1. CASE q = p
      <4>1. i = j
        BY <1>4, <2>4, <3>1
      <4> QED
        BY <1>6, <1>7, <1>12, <3>1, <4>1
    <3>2. CASE q # p
      BY <1>7, <2>1, <2>4, <3>2
    <3> QED
      BY <3>1, <3>2
  <2> QED
    BY <2>1, <2>2, <2>3, <2>4
<1>15. Listed'
  <2>1. \A i \in Jobs : Updating(i) => Updating(i)'
    BY <1>6, <1>7, <1>8 DEF Updating
  <2> QED
    BY <1>2, <2>1 DEF IInv, Listed
<1> QED
  BY <1>9, <1>11, <1>13, <1>14, <1>15 DEF IInv

(* A command begins.                                                         *)
LEMMA BeginIs ==
  ASSUME IInv, NEW p \in Commands, NEW j \in Jobs,
         NEW command \in {"migrate", "create", "classify", "apply-patch", "authorize"},
         NEW step \in Stages, NEW read \in Contents \cup Classifications,
         Begin(p, command, j, step, read),
         state' \in [Jobs -> JobRecords], UNCHANGED <<files, registry, lock, unlisted, repairs>>
  PROVE  /\ Typed' /\ \A q \in Commands \ {p} : proc'[q] = proc[q]
         /\ proc'[p].command = command /\ proc'[p].job = j /\ proc'[p].at = step
         /\ proc'[p].read = read
         /\ ~Busy(p) /\ overlapped \subseteq overlapped'
         /\ j \notin overlapped' => \A q \in Commands : ~On(q, j)
<1>1. /\ ~Busy(p) /\ started.all < MaxCommands /\ started'.all = started.all + 1
      /\ overlapped' = overlapped \cup {i \in {j} : \E q \in Commands : On(q, i)}
      /\ proc' = [proc EXCEPT ![p] = [Idle EXCEPT !.command = command, !.job = j, !.at = step,
                                                   !.read = read]]
  BY DEF Begin
<1>2. Typed
  BY DEF IInv
<1>3. PICK c : c = [Idle EXCEPT !.command = command, !.job = j, !.at = step, !.read = read]
  OBVIOUS
<1>4. /\ c \in Processes /\ c.command = command /\ c.job = j /\ c.at = step /\ c.read = read
  BY <1>3, IdleIsTyped DEF Processes
<1>5. /\ proc'[p] = c /\ proc' \in [Commands -> Processes]
      /\ \A q \in Commands \ {p} : proc'[q] = proc[q]
  BY <1>1, <1>2, <1>3, <1>4 DEF Typed
<1>6. started'.all \in 0 .. MaxCommands
  BY <1>1, <1>2, PipelineAssumption DEF Typed
<1>7. overlapped' \subseteq Jobs
  BY <1>1, <1>2 DEF Typed
<1>8. \A q \in Commands : proc'[q].command # "none" => proc'[q].job \in Jobs
  BY <1>2, <1>4, <1>5 DEF Typed
<1>9. Typed'
  BY <1>2, <1>5, <1>6, <1>7, <1>8 DEF Typed
<1> QED
  BY <1>1, <1>4, <1>5, <1>9

LEMMA BeginKeeps ==
  ASSUME IInv, NEW p \in Commands, NEW j \in Jobs,
         NEW command \in {"migrate", "create", "classify", "apply-patch", "authorize"},
         NEW step \in Stages \ {"create", "registry"}, NEW read \in Contents \cup Classifications,
         Begin(p, command, j, step, read),
         UNCHANGED <<state, files, registry, lock, unlisted, repairs>>,
         state[j].status \notin {"absent", "RECEIVED"}, ReadOK(p)',
         j \notin overlapped' => StageOK(p, j)'
  PROVE  IInv'
<1>1. Typed
  BY DEF IInv
<1>2. state' \in [Jobs -> JobRecords] /\ step \in Stages
  BY <1>1 DEF Typed
<1>3. /\ Typed' /\ \A q \in Commands \ {p} : proc'[q] = proc[q]
      /\ proc'[p].command = command /\ proc'[p].job = j /\ proc'[p].at = step
      /\ ~Busy(p) /\ overlapped \subseteq overlapped'
      /\ j \notin overlapped' => \A q \in Commands : ~On(q, j)
  BY <1>2, BeginIs
<1>4. /\ \A q \in Commands \ {p}, i \in Jobs : On(q, i)' <=> On(q, i)
      /\ \A i \in Jobs : ~On(p, i)
      /\ \A i \in Jobs : On(p, i)' <=> i = j
  BY <1>3 DEF On, Busy
<1>5. ReadInv'
  BY <1>3 DEF IInv, ReadInv, ReadOK, Stage
<1>6. FlowInv'
  <2>1. ASSUME j \notin overlapped' PROVE JobOK(j)'
    <3>1. JobOK(j)
      BY <1>3, <2>1 DEF IInv, FlowInv
    <3> QED
      BY <3>1 DEF JobOK, Artifact, LatestReport, IssuesOf, IssuesAuthorized
  <2>2. Local(p, j)
    BY <1>3 DEF Local
  <2>3. \A i \in Jobs \ {j} : ~On(p, i) /\ ~On(p, i)'
    BY <1>4
  <2>4. FlowInv
    BY DEF IInv
  <2> QED
    BY <1>3, <2>1, <2>2, <2>3, <2>4, FlowKeeps
<1>7. RegistryInv'
  <2> SUFFICES ASSUME NEW i \in Jobs
               PROVE  /\ state[i].status = "absent" => \A q \in Commands : ~On(q, i)'
                      /\ state[i].status = "RECEIVED" => Alone(i)'
                      /\ lock[i] # None => At(lock[i], "registry")' /\ JobOf(lock[i])' = i
                      /\ \A q \in Commands : On(q, i)' /\ proc'[q].at = "create" =>
                           state[i].status = "RECEIVED"
                      /\ \A q \in Commands : On(q, i)' /\ proc'[q].at = "registry" =>
                           /\ proc'[q].status = state[i].status
                           /\ lock[i] = q \/ state[i].status = "RECEIVED"
    BY DEF RegistryInv
  <2>1. /\ state[i].status = "absent" => \A q \in Commands : ~On(q, i)
        /\ state[i].status = "RECEIVED" => Alone(i)
        /\ lock[i] # None => At(lock[i], "registry") /\ JobOf(lock[i]) = i
        /\ \A q \in Commands : On(q, i) /\ proc[q].at = "create" => state[i].status = "RECEIVED"
        /\ \A q \in Commands : On(q, i) /\ proc[q].at = "registry" =>
             /\ proc[q].status = state[i].status
             /\ lock[i] = q \/ state[i].status = "RECEIVED"
    BY DEF IInv, RegistryInv
  <2>2. lock[i] # None => At(lock[i], "registry")' /\ JobOf(lock[i])' = i
    <3> SUFFICES ASSUME lock[i] # None PROVE At(lock[i], "registry")' /\ JobOf(lock[i])' = i
      OBVIOUS
    <3>1. lock'[i] = lock[i] /\ lock[i] \in Commands \ {p} /\ JobOf(lock[i]) = i
          /\ At(lock[i], "registry")
      BY <1>1, <1>3, <2>1 DEF Typed, At
    <3> QED
      BY <1>3, <3>1 DEF At, Busy, JobOf
  <2>3. state[i].status = "RECEIVED" => Alone(i)'
    <3> SUFFICES ASSUME state[i].status = "RECEIVED" PROVE Alone(i)'
      OBVIOUS
    <3>1. i # j /\ Alone(i)
      BY <2>1
    <3>2. \A q \in Commands : On(q, i)' => On(q, i)
      BY <1>4, <3>1
    <3> QED
      BY <3>1, <3>2 DEF Alone
  <2>4. ASSUME NEW q \in Commands, On(q, i)', proc'[q].at \in {"create", "registry"}
        PROVE  q # p /\ proc'[q] = proc[q] /\ On(q, i)
    BY <1>3, <1>4, <2>4
  <2>5. state[i].status = "absent" => \A q \in Commands : ~On(q, i)'
    BY <1>4, <2>1
  <2> QED
    BY <2>1, <2>2, <2>3, <2>4, <2>5
<1>8. Listed'
  <2>1. \A i \in Jobs : Updating(i) => Updating(i)'
    BY <1>3, <1>4 DEF Updating
  <2> QED
    BY <2>1 DEF IInv, Listed
<1> QED
  BY <1>3, <1>5, <1>6, <1>7, <1>8 DEF IInv

LEMMA StartMigrateKeeps ==
  ASSUME IInv, NEW p \in Commands, NEW j \in Jobs, NEW command \in {"migrate", "create"},
         NEW mode \in Modes, StartMigrate(p, j, command, mode)
  PROVE  IInv'
<1>1. /\ state[j].status = "absent" /\ Begin(p, command, j, "create", None)
      /\ state' = [state EXCEPT ![j].status = "RECEIVED", ![j].mode = mode]
      /\ UNCHANGED <<files, registry, lock, unlisted, repairs>>
  BY DEF StartMigrate
<1>2. Typed
  BY DEF IInv
<1>3. /\ state' \in [Jobs -> JobRecords] /\ state'[j].status = "RECEIVED"
      /\ state'[j].artifact = state[j].artifact /\ state'[j].digest = state[j].digest
      /\ \A i \in Jobs \ {j} : state'[i] = state[i]
  BY <1>1, <1>2, StatusesAre DEF Typed, JobRecords, Marks
<1>4. /\ "create" \in Stages /\ None \in Contents \cup Classifications
      /\ command \in {"migrate", "create", "classify", "apply-patch", "authorize"}
  BY DEF Stages, Contents
<1>5. /\ Typed' /\ \A q \in Commands \ {p} : proc'[q] = proc[q]
      /\ proc'[p].command = command /\ proc'[p].job = j /\ proc'[p].at = "create"
      /\ ~Busy(p) /\ overlapped \subseteq overlapped'
      /\ j \notin overlapped' => \A q \in Commands : ~On(q, j)
  BY <1>1, <1>3, <1>4, BeginIs
<1>6. /\ \A q \in Commands \ {p}, i \in Jobs : On(q, i)' <=> On(q, i)
      /\ \A i \in Jobs : ~On(p, i)
      /\ \A i \in Jobs : On(p, i)' <=> i = j
  BY <1>5 DEF On, Busy
<1>7. \A q \in Commands : ~On(q, j)
  BY <1>1 DEF IInv, RegistryInv
<1>8. Stage(p)' = "create"
  BY <1>5 DEF Stage
<1>9. ReadInv'
  BY <1>5, <1>8 DEF IInv, ReadInv, ReadOK, Stage
<1>10. FlowInv'
  <2>1. ASSUME j \notin overlapped' PROVE JobOK(j)' /\ StageOK(p, j)'
    <3>1. JobOK(j)
      BY <1>5, <2>1 DEF IInv, FlowInv
    <3>2. state[j].artifact = None
      BY <1>1, <3>1 DEF JobOK, Fresh
    <3>3. JobOK(j)'
      BY <1>3, <3>2 DEF JobOK, IssuesAuthorized, Fresh, Reported, Passing, ClassifiedStatuses
    <3>4. StageOK(p, j)'
      BY <1>3, <1>5, <1>8, <3>2 DEF StageOK, Skips
    <3> QED
      BY <3>3, <3>4
  <2>2. Local(p, j)
    BY <1>1, <1>3, <1>5 DEF Local
  <2>3. \A i \in Jobs \ {j} : ~On(p, i) /\ ~On(p, i)'
    BY <1>6
  <2>4. FlowInv
    BY DEF IInv
  <2> QED
    BY <1>5, <1>7, <2>1, <2>2, <2>3, <2>4, FlowKeeps
<1>11. RegistryInv'
  <2> SUFFICES ASSUME NEW i \in Jobs
               PROVE  /\ state'[i].status = "absent" => \A q \in Commands : ~On(q, i)'
                      /\ state'[i].status = "RECEIVED" => Alone(i)'
                      /\ lock[i] # None => At(lock[i], "registry")' /\ JobOf(lock[i])' = i
                      /\ \A q \in Commands : On(q, i)' /\ proc'[q].at = "create" =>
                           state'[i].status = "RECEIVED"
                      /\ \A q \in Commands : On(q, i)' /\ proc'[q].at = "registry" =>
                           /\ proc'[q].status = state'[i].status
                           /\ lock[i] = q \/ state'[i].status = "RECEIVED"
    BY <1>1 DEF RegistryInv
  <2>1. /\ state[i].status = "absent" => \A q \in Commands : ~On(q, i)
        /\ state[i].status = "RECEIVED" => Alone(i)
        /\ lock[i] # None => At(lock[i], "registry") /\ JobOf(lock[i]) = i
        /\ \A q \in Commands : On(q, i) /\ proc[q].at = "create" => state[i].status = "RECEIVED"
        /\ \A q \in Commands : On(q, i) /\ proc[q].at = "registry" =>
             /\ proc[q].status = state[i].status
             /\ lock[i] = q \/ state[i].status = "RECEIVED"
    BY DEF IInv, RegistryInv
  <2>2. lock[i] # None => At(lock[i], "registry")' /\ JobOf(lock[i])' = i
    <3> SUFFICES ASSUME lock[i] # None PROVE At(lock[i], "registry")' /\ JobOf(lock[i])' = i
      OBVIOUS
    <3>1. lock'[i] = lock[i] /\ lock[i] \in Commands \ {p} /\ JobOf(lock[i]) = i
          /\ At(lock[i], "registry")
      BY <1>1, <1>2, <1>5, <2>1 DEF Typed, At
    <3> QED
      BY <1>5, <3>1 DEF At, Busy, JobOf
  <2>3. CASE i = j
    <3>1. \A q \in Commands : On(q, i)' <=> q = p
      BY <1>6, <1>7, <2>3
    <3>2. Alone(i)'
      BY <3>1 DEF Alone
    <3> QED
      BY <1>3, <1>5, <2>2, <2>3, <3>1, <3>2
  <2>4. CASE i # j
    <3>1. state'[i] = state[i] /\ \A q \in Commands : On(q, i)' <=> On(q, i)
      BY <1>3, <1>6, <2>4
    <3>2. Alone(i) => Alone(i)'
      BY <3>1 DEF Alone
    <3>3. \A q \in Commands : On(q, i) => proc'[q] = proc[q]
      BY <1>5, <1>6
    <3> QED
      BY <2>1, <2>2, <3>1, <3>2, <3>3
  <2> QED
    BY <2>3, <2>4
<1>12. Listed'
  <2> SUFFICES ASSUME NEW i \in Jobs, i \notin unlisted
               PROVE  Updating(i)' \/ registry[i] = state'[i].status
    BY <1>1 DEF Listed
  <2>1. CASE i = j
    BY <1>5, <1>6, <2>1 DEF Updating
  <2>2. CASE i # j
    <3>1. Updating(i) \/ registry[i] = state[i].status
      BY DEF IInv, Listed
    <3>2. Updating(i) => Updating(i)'
      BY <1>5, <1>6, <2>2 DEF Updating
    <3> QED
      BY <1>3, <2>2, <3>1, <3>2
  <2> QED
    BY <2>1, <2>2
<1> QED
  BY <1>5, <1>9, <1>10, <1>11, <1>12 DEF IInv

LEMMA StartClassifyKeeps ==
  ASSUME IInv, NEW p \in Commands, NEW j \in Jobs, StartClassify(p, j)
  PROVE  IInv'
<1>1. /\ state[j].status = "ISSUES_CLASSIFIED" /\ files[j].validation # None
      /\ UNCHANGED <<state, files, registry, lock, unlisted, repairs>>
  BY DEF StartClassify
<1>2. PICK classification \in [files[j].validation -> Verdicts] :
        Begin(p, "classify", j, "classification", classification)
  BY DEF StartClassify
<1>3. Typed /\ files[j].validation \in SUBSET Issues /\ state \in [Jobs -> JobRecords]
  BY <1>1 DEF IInv, Typed, FileRecords, Contents
<1>4. classification \in Classifications
  BY <1>3 DEF Classifications, Issues
<1>5. "classification" \in Stages \ {"create", "registry"} /\ "classification" \in Stages
  BY DEF Stages
<1>6. state' \in [Jobs -> JobRecords]
  BY <1>1, <1>3
<1>7. /\ proc'[p].command = "classify" /\ proc'[p].at = "classification"
      /\ proc'[p].read = classification
  BY <1>1, <1>2, <1>4, <1>5, <1>6, BeginIs
<1>8. Stage(p)' = "classification"
  BY <1>7 DEF Stage
<1>9. ReadOK(p)' /\ StageOK(p, j)'
  BY <1>1, <1>4, <1>7, <1>8 DEF ReadOK, StageOK, Skips
<1> QED
  BY <1>1, <1>2, <1>4, <1>5, <1>9, BeginKeeps

LEMMA StartPatchKeeps ==
  ASSUME IInv, NEW p \in Commands, NEW j \in Jobs, StartPatch(p, j)
  PROVE  IInv'
<1>1. /\ state[j].status = "AI_REPAIR_REQUIRED" /\ Begin(p, "apply-patch", j, "patch", None)
      /\ UNCHANGED <<state, files, registry, lock, unlisted, repairs>>
  BY DEF StartPatch
<1>2. /\ "patch" \in Stages \ {"create", "registry"} /\ "patch" \in Stages
      /\ None \in Contents \cup Classifications
  BY DEF Stages, Contents
<1>3. state' \in [Jobs -> JobRecords]
  BY <1>1 DEF IInv, Typed
<1>4. proc'[p].command = "apply-patch" /\ proc'[p].at = "patch"
  BY <1>1, <1>2, <1>3, BeginIs
<1>5. Stage(p)' = "patch"
  BY <1>4 DEF Stage
<1>6. ReadOK(p)' /\ StageOK(p, j)'
  BY <1>1, <1>4, <1>5 DEF ReadOK, StageOK, Skips
<1> QED
  BY <1>1, <1>2, <1>6, BeginKeeps

LEMMA StartAuthorizationKeeps ==
  ASSUME IInv, NEW p \in Commands, NEW j \in Jobs, StartAuthorization(p, j)
  PROVE  IInv'
<1>1. /\ state[j].status \in ClassifiedStatuses
      /\ files[j].classification # None
      /\ DOMAIN files[j].classification = files[j].validation
      /\ Begin(p, "authorize", j, "authorization", files[j].validation)
      /\ UNCHANGED <<state, files, registry, lock, unlisted, repairs>>
  BY DEF StartAuthorization
<1>2. files[j].validation \in SUBSET Issues
  <2>1. files[j].classification \in Classifications
    BY <1>1 DEF IInv, Typed, FileRecords
  <2> QED
    BY <1>1, <2>1 DEF Classifications, Issues
<1>3. PICK read \in SUBSET Issues : read = files[j].validation
  BY <1>2
<1>4. /\ "authorization" \in Stages \ {"create", "registry"} /\ "authorization" \in Stages
      /\ read \in Contents \cup Classifications
      /\ state[j].status \notin {"absent", "RECEIVED"}
  BY <1>1 DEF Stages, Contents, ClassifiedStatuses
<1>5. state' \in [Jobs -> JobRecords] /\ Begin(p, "authorize", j, "authorization", read)
  BY <1>1, <1>3 DEF IInv, Typed
<1>6. /\ proc'[p].command = "authorize" /\ proc'[p].at = "authorization"
      /\ proc'[p].read = read
  BY <1>1, <1>4, <1>5, BeginIs
<1>7. Stage(p)' = "authorization"
  BY <1>6 DEF Stage
<1>8. ReadOK(p)' /\ StageOK(p, j)'
  BY <1>1, <1>3, <1>6, <1>7 DEF ReadOK, StageOK, Skips, ClassifiedStatuses
<1> QED
  BY <1>1, <1>4, <1>5, <1>8, BeginKeeps

-----------------------------------------------------------------------------
LEMMA InitHolds == ASSUME Init PROVE IInv
<1>1. /\ state = [j \in Jobs |-> NoJob] /\ files = [j \in Jobs |-> NoFiles]
      /\ registry = NoList /\ lock = [j \in Jobs |-> None]
      /\ proc = [p \in Commands |-> Idle] /\ started = [all |-> 0, overlapping |-> 0]
      /\ overlapped = {} /\ unlisted = {} /\ repairs = [j \in Jobs |-> 0]
  BY DEF Init
<1>2. NoJob \in JobRecords /\ NoJob.status = "absent" /\ NoJob.artifact = None
  BY DEF NoJob, JobRecords, Marks, Modes, Contents
<1>3. NoFiles \in FileRecords
  BY DEF NoFiles, FileRecords, Contents
<1>4. \A p \in Commands : ~Busy(p) /\ proc[p].at = "idle" /\ proc[p] \in Processes
  BY <1>1, IdleIsTyped DEF Busy, Idle
<1>5. Typed
  <2>1. started.all \in 0 .. MaxCommands
    BY <1>1, PipelineAssumption
  <2>2. state \in [Jobs -> JobRecords] /\ files \in [Jobs -> FileRecords]
    BY <1>1, <1>2, <1>3
  <2>3. proc \in [Commands -> Processes] /\ \A p \in Commands : proc[p].command = "none"
    BY <1>1, IdleIsTyped DEF Idle
  <2> QED
    BY <1>1, <2>1, <2>2, <2>3, IdleIsTyped DEF Typed
<1>6. ReadInv
  BY <1>4 DEF ReadInv, ReadOK, Stage
<1>7. \A p \in Commands, j \in Jobs : ~On(p, j)
  BY <1>4 DEF On
<1>8. \A j \in Jobs : state[j] = NoJob
  BY <1>1
<1>9. RegistryInv
  BY <1>1, <1>2, <1>7, <1>8 DEF RegistryInv, Alone
<1>10. FlowInv
  <2>1. \A j \in Jobs : JobOK(j)
    BY <1>2, <1>8 DEF JobOK, IssuesAuthorized, Fresh, Reported, Passing, ClassifiedStatuses
  <2>2. \A j \in Jobs : Alone(j)
    BY <1>7 DEF Alone
  <2> QED
    BY <1>7, <2>1, <2>2 DEF FlowInv
<1>11. Listed
  BY <1>1, <1>2, <1>8 DEF Listed, NoList
<1> QED
  BY <1>5, <1>6, <1>9, <1>10, <1>11 DEF IInv

LEMMA StutterKeeps == ASSUME IInv, UNCHANGED vars PROVE IInv'
BY DEF vars, IInv, Typed, ReadInv, ReadOK, Stage, RegistryInv, Alone, On, Busy, At, JobOf, FlowInv,
       JobOK, StageOK, ReadsArtifact, Artifact, LatestReport, IssuesOf, IssuesAuthorized, Listed,
       Updating

LEMMA StartKeeps ==
  ASSUME IInv, NEW p \in Commands, NEW j \in Jobs, Start(p, j)
  PROVE  IInv'
<1>1. ASSUME NEW mode \in {"platform", "local-file"}, StartMigrate(p, j, "migrate", mode)
      PROVE  IInv'
  BY <1>1, StartMigrateKeeps DEF Modes
<1>2. CASE StartMigrate(p, j, "create", "platform")
  BY <1>2, StartMigrateKeeps DEF Modes
<1>3. CASE StartClassify(p, j)
  BY <1>3, StartClassifyKeeps
<1>4. CASE StartPatch(p, j)
  BY <1>4, StartPatchKeeps
<1>5. CASE StartAuthorization(p, j)
  BY <1>5, StartAuthorizationKeeps
<1> QED
  BY <1>1, <1>2, <1>3, <1>4, <1>5 DEF Start

LEMMA StepKeeps == ASSUME IInv, NEW p \in Commands, Step(p) PROVE IInv'
<1> PICK j : j = JobOf(p)
  OBVIOUS
<1>1. CASE \/ CheckUpdate(p) \/ Authorize(p) \/ RefuseSource(p) \/ ClassifyVersion(p)
           \/ SkipSource(p) \/ LoadSource(p)
  BY <1>1, LoadingKeeps
<1>2. CASE Create(p)
  BY <1>2, CreateKeeps
<1>3. CASE WriteRegistry(p)
  BY <1>3, WriteRegistryKeeps
<1>4. CASE Convert(p)
  BY <1>4, ConvertKeeps
<1>5. CASE RecordConverted(p)
  BY <1>5, RecordConvertedKeeps
<1>6. CASE Validate(p)
  BY <1>6, ValidateKeeps
<1>7. CASE RecordValidated(p)
  BY <1>7, RecordValidatedKeeps
<1>8. CASE RecordIssues(p)
  BY <1>8, RecordIssuesKeeps
<1>9. CASE Ready(p)
  BY <1>9, ReadyKeeps
<1>10. CASE WriteClassification(p)
  BY <1>10, WriteClassificationKeeps
<1>11. CASE RecordOutcome(p)
  BY <1>11, RecordOutcomeKeeps
<1>12. CASE Patch(p)
  BY <1>12, PatchKeeps
<1>13. CASE RecordPatched(p)
  BY <1>13, RecordPatchedKeeps
<1>14. CASE WriteAuthorization(p)
  BY <1>14, WriteAuthorizationKeeps
<1>15. CASE RecordAuthorization(p)
  BY <1>15, RecordAuthorizationKeeps
<1> QED
  BY <1>1, <1>2, <1>3, <1>4, <1>5, <1>6, <1>7, <1>8, <1>9, <1>10, <1>11, <1>12, <1>13, <1>14,
     <1>15 DEF Step

(* The inductive invariant of the pipeline: wherever the commands of a Job   *)
(* stand between two writes, its files and what the commands read agree as   *)
(* long as one command works on the Job, and the registry is about to be     *)
(* corrected, or correct, or known to be out of date.                        *)
THEOREM PipelineInvariant == Spec => []IInv
<1>1. Init => IInv
  BY InitHolds
<1>2. IInv /\ [Next]_vars => IInv'
  <2> SUFFICES ASSUME IInv, [Next]_vars PROVE IInv'
    OBVIOUS
  <2>1. CASE UNCHANGED vars
    BY <2>1, StutterKeeps
  <2>2. CASE Next
    <3>1. PICK p \in Commands : (\E j \in Jobs : Start(p, j)) \/ Step(p) \/ Stop(p)
      BY <2>2 DEF Next
    <3>2. CASE \E j \in Jobs : Start(p, j)
      BY <3>2, StartKeeps
    <3>3. CASE Step(p)
      BY <3>3, StepKeeps
    <3>4. CASE Stop(p)
      <4>1. PICK j : j = JobOf(p)
        OBVIOUS
      <4> QED
        BY <3>4, <4>1, StopKeeps
    <3> QED
      BY <3>1, <3>2, <3>3, <3>4
  <2> QED
    BY <2>1, <2>2
<1> QED
  BY <1>1, <1>2, PTL DEF Spec

(* Every reachable state is well typed, and a Job's lock is held by the one  *)
(* command that is about to write the registry for it (JobStore.transition). *)
THEOREM TypeCorrect == Spec => []TypeOK
<1>1. IInv => TypeOK
  <2> SUFFICES ASSUME IInv PROVE TypeOK
    OBVIOUS
  <2>1. ASSUME NEW j \in Jobs
        PROVE  /\ state[j].status \in Statuses \cup {"absent"}
               /\ state[j].mode \in {"platform", "local-file"}
               /\ state[j].artifact \in {None, "app", "patched"}
               /\ registry[j] \in Statuses \cup {"absent"}
    BY DEF IInv, Typed, JobRecords, Marks, Modes, Lists
  <2>2. \A j \in Jobs : lock[j] # None => At(lock[j], "registry") /\ JobOf(lock[j]) = j
    BY DEF IInv, RegistryInv
  <2>3. overlapped \cup unlisted \subseteq Jobs /\ started.all <= MaxCommands
    BY PipelineAssumption DEF IInv, Typed
  <2> QED
    BY <2>1, <2>2, <2>3 DEF TypeOK
<1> QED
  BY <1>1, PipelineInvariant, PTL

(* A Job that counts as validated, or is ready because its validation        *)
(* passed, has a report of exactly the artifact its state names, with the    *)
(* digest of it: runPlatformMigration and apply-patch in handleJob, for any  *)
(* number of commands, kills and repairs, unless two commands overlapped.    *)
THEOREM ReportsMatch == Spec => []ReportMatchesArtifact
<1>1. IInv => ReportMatchesArtifact
  BY DEF IInv, FlowInv, JobOK, Reported, Passing, ReportMatchesArtifact
<1> QED
  BY <1>1, PipelineInvariant, PTL

(* A patch is applied only to a Job all of whose issues are classified as    *)
(* repairable, wherever job classify was cut (handleJob).                    *)
THEOREM RepairableIsPatched == Spec => []OnlyRepairableIsPatched
<1>1. IInv => OnlyRepairableIsPatched
  BY DEF IInv, FlowInv, JobOK, OnlyRepairableIsPatched
<1> QED
  BY <1>1, PipelineInvariant, PTL

(* A diagnostic copy of a case no patch was applied to is authorized with    *)
(* the issues of what is saved, all of them classified                       *)
(* (authorizeKnownIssuesDiagnosticSave).                                     *)
THEOREM EvidenceHolds == Spec => []EvidenceIsCurrent
<1>1. IInv => EvidenceIsCurrent
  BY DEF IInv, FlowInv, JobOK, EvidenceIsCurrent
<1> QED
  BY <1>1, PipelineInvariant, PTL

(* The registry has the status of every Job but of those whose last update   *)
(* is under way, was cut, or was overwritten by another Job's                *)
(* (updateRegistry in job-store.js), for any number of Jobs and commands.    *)
THEOREM RegistryIsCurrent == Spec => []Listed
<1>1. IInv => Listed
  BY DEF IInv
<1> QED
  BY <1>1, PipelineInvariant, PTL

-----------------------------------------------------------------------------
(* A case is converted only when a work was read, none of its objects shows  *)
(* the V5 format or the legacy V4 event format, and no metadata field claims *)
(* another generation: classifyCaseVersion, whatever the order of its tests. *)
THEOREM ConvertibleIsV4 ==
  ASSUME NEW metadata, NEW work, Convertible(metadata, work)
  PROVE  /\ work # NoWork
         /\ ~Shows(work, "v5EventAst") /\ ~Shows(work, "legacyEventOn")
         /\ ~MetadataIsV5(metadata) /\ MetadataKind(metadata) # "OUT_OF_SCOPE"
<1>1. /\ ~Conflict(metadata, work)
      /\ ~MetadataIsV5(metadata) /\ PhysicalKind(work) # "V5"
      /\ MetadataKind(metadata) # "OUT_OF_SCOPE"
  BY Zenon DEF Convertible, ConvertibleReasons, Reason
<1>2. ~Shows(work, "v5EventAst")
  <2>1. PhysicalKind(work) # "AMBIGUOUS"
    BY <1>1 DEF Conflict
  <2>2. QED
    BY <1>1, <2>1 DEF PhysicalKind
<1>3. ~Shows(work, "legacyEventOn") /\ work # NoWork
  <2>1. CASE PhysicalKind(work) = "V4"
    <3>1. NewFormat(work)
      BY <1>1, <2>1 DEF Convertible, ConvertibleReasons, Reason
    <3>2. work # NoWork
      BY <1>2, <2>1 DEF PhysicalKind, Shows
    <3>3. QED
      BY <3>1, <3>2 DEF NewFormat
  <2>2. CASE PhysicalKind(work) # "V4"
    <3>1. work # NoWork
      BY <1>1, <2>2 DEF Convertible, ConvertibleReasons, Reason
    <3>2. ~Shows(work, "legacyEventOn")
      BY <1>2, <2>2 DEF PhysicalKind
    <3>3. QED
      BY <3>1, <3>2
  <2>3. QED
    BY <2>1, <2>2
<1>4. QED
  BY <1>1, <1>2, <1>3

-----------------------------------------------------------------------------
(* The passes of evaluateField and normalizeWorkInfoProjections, and the     *)
(* three lists made of their results, come to what an equivalent environment *)
(* is: each field matches by its own rule.                                   *)
LEMMA FieldMatches ==
  ASSUME NEW source, NEW target, NEW asserted, RegistryOK,
         NEW path \in DOMAIN Policy
  PROVE  Disposition(source, target, asserted, path) \notin {"BLOCKED", "REQUIRES_USER_BINDING"}
           <=> Matches(source, target, asserted, path)
<1>1. CASE path = PreDisable
  <2>1. path \notin DOMAIN Settings
    BY <1>1 DEF RegistryOK
  <2>2. Disposition(source, target, asserted, path) = DefaultFalse(source, target, path)
    BY <1>1, <2>1 DEF Disposition, Projected, Evaluated
  <2>3. QED
    BY <1>1, <2>2 DEF DefaultFalse, Matches
<1>2. CASE path # PreDisable /\ Policy[path] = "REMAP_FOR_TARGET"
  <2> DEFINE projects == /\ path \in DOMAIN Settings
                         /\ Has(source, Settings[path]) /\ Has(target, Settings[path])
  <2>1. Evaluated(source, target, asserted, path) =
          IF Has(source, path) /\ ~Has(target, path) THEN "BLOCKED" ELSE "NORMALIZED"
    BY <1>2 DEF Evaluated
  <2>2. ASSUME Has(source, path), ~Has(target, path)
        PROVE  Projected(source, target, asserted, path) <=> projects
    <3>1. projects => Evaluated(source, target, asserted, Settings[path]) = "NORMALIZED"
      BY DEF RegistryOK, Evaluated
    <3>2. QED
      BY <2>2, <3>1 DEF Projected
  <2>3. Matches(source, target, asserted, path) <=>
          (Has(source, path) => Has(target, path) \/ projects)
    BY <1>2 DEF Matches, RegistryOK, Policies, Bindings
  <2>4. QED
    BY <2>1, <2>2, <2>3 DEF Disposition
<1>3. CASE path # PreDisable /\ Policy[path] # "REMAP_FOR_TARGET"
  <2>1. path \notin DOMAIN Settings
    BY <1>3 DEF RegistryOK
  <2>2. Disposition(source, target, asserted, path) = Evaluated(source, target, asserted, path)
    BY <2>1 DEF Disposition, Projected
  <2>3. CASE Policy[path] = Unregistered
    BY <1>3, <2>2, <2>3 DEF Matches, Evaluated, RegistryOK, Policies, Bindings
  <2>4. CASE Policy[path] = "IGNORE_FOR_PARITY"
    BY <1>3, <2>2, <2>4 DEF Matches, Evaluated, RegistryOK, Policies, Bindings
  <2>5. CASE Policy[path] \in {"COPY_EXACT", "REDACT_AND_COMPARE"}
    BY <1>3, <2>2, <2>5 DEF Matches, Evaluated, RegistryOK, Policies, Bindings
  <2>6. CASE Policy[path] = "USE_TARGET_BINDING"
    <3>1. Evaluated(source, target, asserted, path) = TargetBinding(source, target, asserted, path)
      BY <1>3, <2>6 DEF Evaluated
    <3>2. QED
      BY <1>3, <2>2, <2>6, <3>1 DEF Matches, TargetBinding, RegistryOK, Policies, Bindings
  <2>7. CASE Policy[path] = "REQUIRE_USER_BINDING"
    <3>1. Evaluated(source, target, asserted, path) = UserBinding(source, asserted, path)
      BY <1>3, <2>7 DEF Evaluated
    <3>2. QED
      BY <1>3, <2>2, <2>7, <3>1 DEF Matches, UserBinding, RegistryOK, Policies, Bindings
  <2>8. QED
    BY <1>3, <2>3, <2>4, <2>5, <2>6, <2>7 DEF RegistryOK, Policies, Bindings
<1>4. QED
  BY <1>1, <1>2, <1>3

LEMMA GateByFields ==
  ASSUME NEW source, NEW target, NEW asserted
  PROVE  Equivalent(source, target, asserted) <=>
           \A path \in Fields(source, target) :
             Disposition(source, target, asserted, path)
               \notin {"BLOCKED", "REQUIRES_USER_BINDING"}
<1>1. Equivalent(source, target, asserted) <=>
        /\ Disposed(source, target, asserted, "BLOCKED") = {}
        /\ Disposed(source, target, asserted, "REQUIRES_USER_BINDING") = {}
  BY DEF Equivalent, GateStatus
<1>2. QED
  BY <1>1 DEF Disposed

(* The dispositions of evaluateEnvironmentGate, the projections and the      *)
(* status they add up to say exactly that every field matches by its rule.   *)
THEOREM GateIsEquivalence ==
  ASSUME NEW source, NEW target, NEW asserted, RegistryOK,
         Fields(source, target) \subseteq DOMAIN Policy
  PROVE  Equivalent(source, target, asserted) <=>
           \A path \in Fields(source, target) : Matches(source, target, asserted, path)
BY FieldMatches, GateByFields

(* What a user asserts can only answer for bindings: it never makes another  *)
(* field block, never unblocks one, and an environment that was equivalent   *)
(* stays so when more is asserted (bindingAssertion in evaluateField).       *)
THEOREM AssertionsAnswerForBindings ==
  ASSUME NEW source, NEW target, NEW before, NEW after, before \subseteq after, RegistryOK,
         Fields(source, target) \subseteq DOMAIN Policy
  PROVE  /\ Disposed(source, target, before, "BLOCKED") = Disposed(source, target, after, "BLOCKED")
         /\ Equivalent(source, target, before) => Equivalent(source, target, after)
<1>1. ASSUME NEW path \in DOMAIN Policy
      PROVE  Evaluated(source, target, before, path) = "BLOCKED" <=>
               Evaluated(source, target, after, path) = "BLOCKED"
  <2>1. TargetBinding(source, target, before, path) # "BLOCKED"
    BY DEF TargetBinding
  <2>2. TargetBinding(source, target, after, path) # "BLOCKED"
    BY DEF TargetBinding
  <2>3. UserBinding(source, before, path) # "BLOCKED" /\ UserBinding(source, after, path) # "BLOCKED"
    BY DEF UserBinding
  <2>4. QED
    BY <2>1, <2>2, <2>3 DEF Evaluated
<1>2. ASSUME NEW path \in Fields(source, target)
      PROVE  Disposition(source, target, before, path) = "BLOCKED" <=>
               Disposition(source, target, after, path) = "BLOCKED"
  <2>1. Projected(source, target, before, path) <=> Projected(source, target, after, path)
    <3>1. ASSUME path \in DOMAIN Settings
          PROVE  Evaluated(source, target, before, Settings[path]) =
                   Evaluated(source, target, after, Settings[path])
      BY <3>1 DEF RegistryOK, Evaluated
    <3>2. QED
      BY <3>1 DEF Projected
  <2>2. Evaluated(source, target, before, path) = "BLOCKED" <=>
          Evaluated(source, target, after, path) = "BLOCKED"
    BY <1>1
  <2>3. QED
    BY <2>1, <2>2 DEF Disposition
<1>3. ASSUME NEW path, Matches(source, target, before, path)
      PROVE  Matches(source, target, after, path)
  BY <1>3 DEF Matches
<1>4. QED
  BY <1>2, <1>3, GateIsEquivalence DEF Disposed

-----------------------------------------------------------------------------
(* The budget of an Issue Cluster, from createBudget on, stays within its    *)
(* limits and its status tells what the attempts do (submitRepairProposal,   *)
(* authorizeTargetRepair).                                                   *)
THEOREM BudgetStaysConsistent ==
  /\ Consistent(NewBudget)
  /\ \A b, cause, confident, scope, stopped :
       Consistent(b) /\ ProposalAccepted(scope, cause, confident, b)
         => Consistent(AfterAttempt(scope, stopped, b))
  /\ \A b : Consistent(b) /\ ExtensionAccepted(b) => Consistent(AfterExtension(b))
<1>1. Consistent(NewBudget)
  BY DEF Consistent, NewBudget, Budget, AutomaticLimit, ExtensionLimit
<1>2. ASSUME NEW b, NEW cause, NEW confident, NEW scope, NEW stopped,
             Consistent(b), ProposalAccepted(scope, cause, confident, b)
      PROVE  Consistent(AfterAttempt(scope, stopped, b))
  BY <1>2 DEF Consistent, ProposalAccepted, AfterAttempt, Budget, AutomaticLimit, ExtensionLimit
<1>3. ASSUME NEW b, Consistent(b), ExtensionAccepted(b)
      PROVE  Consistent(AfterExtension(b))
  BY <1>3 DEF Consistent, ExtensionAccepted, AfterExtension, Budget, AutomaticLimit, ExtensionLimit
<1>4. QED
  BY <1>1, <1>2, <1>3

(* The decision of a diagnosis and the rule for proposals agree: what is     *)
(* allowed is accepted under an initial authorization, and what is accepted  *)
(* was not stopped, but for a frozen budget, which a proposal thaws.         *)
THEOREM DecisionsAndProposalsAgree ==
  ASSUME NEW b, Consistent(b), NEW cause \in Causes, NEW confident \in BOOLEAN
  PROVE  /\ Decision(cause, confident, b) = "AUTO_REPAIR_ALLOWED"
              => ProposalAccepted("INITIAL", cause, confident, b)
         /\ \A scope \in {"INITIAL", "EXTENSION"} :
              ProposalAccepted(scope, cause, confident, b) /\ ~Frozen(b)
                => Decision(cause, confident, b) # "AUTO_REPAIR_STOPPED"
BY DEF Consistent, Budget, Decision, ProposalAccepted, Exhausted, Frozen, ExtensionRequired,
       AutomaticLimit, ExtensionLimit, Repairable

(* A decision satisfies its own contract except in one case, where           *)
(* submitDiagnosis throws: a cause nobody here can repair, found when the    *)
(* initial attempts are used up and the extension is not.                    *)
THEOREM DecisionIsValidUnlessUnrecordable ==
  ASSUME NEW b, Consistent(b), NEW cause \in Causes, NEW confident \in BOOLEAN
  PROVE  DecisionIsValid(cause, confident, b) <=> ~Unrecordable(cause, b)
BY DEF Consistent, Budget, DecisionIsValid, Decision, BudgetState, RemainingAttempts, Unrecordable,
       Exhausted, Frozen, ExtensionRequired, AutomaticLimit, ExtensionLimit, Repairable, Elsewhere

-----------------------------------------------------------------------------
(* One issue, read in the first format and read after migration: the owner's *)
(* row of the map agrees with what the readers of the first format make of   *)
(* the owner.                                                                *)
LEMMA IssueMigrates ==
  ASSUME NEW issue, issue.owner \in Owners, issue.repairAllowed \in BOOLEAN
  PROVE  /\ MigratedIssue(issue).id = issue.id
         /\ MigratedIssue(issue).cause = LegacyIssueCause(issue)
         /\ MigratedIssue(issue).autoRepairAllowed = LegacyAutoRepair(issue)
         /\ issue.id \in WellFormed <=> IssueAccepted(MigratedIssue(issue))
<1> DEFINE row == MigratedRow(issue)
           legal == {"CONVERTER", "SOURCE_DATA", "PLATFORM_RUNTIME", "AUTHORIZATION", "UNKNOWN"}
<1>1. /\ row[1] = LegacyIssueCause(issue) /\ row[1] \in legal
      /\ row[2] = Responsible[row[1]]
      /\ LegacyAutoRepair(issue) => row[1] = "SOURCE_DATA"
  <2>1. CASE issue.owner = "CONVERTER"
    BY <2>1 DEF MigratedRow, LegacyMap, LegacyIssueCause, LegacyAutoRepair, Responsible
  <2>2. CASE issue.owner = "SOURCE" /\ issue.repairAllowed
    BY <2>2 DEF MigratedRow, LegacyMap, LegacyIssueCause, LegacyAutoRepair, Responsible
  <2>3. CASE issue.owner = "SOURCE" /\ ~issue.repairAllowed
    BY <2>3 DEF MigratedRow, LegacyMap, LegacyIssueCause, LegacyAutoRepair, Responsible
  <2>4. CASE issue.owner = "PLATFORM"
    BY <2>4 DEF MigratedRow, LegacyMap, LegacyIssueCause, LegacyAutoRepair, Responsible
  <2>5. CASE issue.owner = "AUTHORIZATION"
    BY <2>5 DEF MigratedRow, LegacyMap, LegacyIssueCause, LegacyAutoRepair, Responsible
  <2>6. CASE issue.owner = "UNKNOWN"
    BY <2>6 DEF MigratedRow, LegacyMap, LegacyIssueCause, LegacyAutoRepair, Responsible
  <2>7. QED
    BY <2>1, <2>2, <2>3, <2>4, <2>5, <2>6 DEF Owners
<1>2. row[3] = Repaired[row[1]]
  <2>1. /\ Repaired["CONVERTER"] = "NONE" /\ Repaired["SOURCE_DATA"] = "V5_ARTIFACT"
        /\ Repaired["PLATFORM_RUNTIME"] = "NONE" /\ Repaired["UNKNOWN"] = "NONE"
        /\ Repaired["AUTHORIZATION"] = "AUTHORIZATION_PREREQUISITE"
    BY DEF Repaired, Repairable, Causes
  <2>2. CASE issue.owner = "SOURCE"
    BY <2>1, <2>2 DEF MigratedRow, LegacyMap
  <2>3. CASE issue.owner # "SOURCE"
    BY <2>1, <2>3 DEF MigratedRow, LegacyMap, Owners
  <2>4. QED
    BY <2>2, <2>3
<1> HIDE DEF row
<1>3. /\ MigratedIssue(issue).id = issue.id
      /\ MigratedIssue(issue).cause = row[1]
      /\ MigratedIssue(issue).responsibleParty = row[2]
      /\ MigratedIssue(issue).repairTarget = row[3]
      /\ MigratedIssue(issue).autoRepairAllowed = LegacyAutoRepair(issue)
  BY DEF MigratedIssue, LegacyAutoRepair, row
<1>4. issue.id \in WellFormed <=> IssueAccepted(MigratedIssue(issue))
  <2>1. legal \subseteq Causes
    BY DEF Causes
  <2>2. Responsible["SOURCE_DATA"] = "WORKFLOW_AI" /\ "SOURCE_DATA" \in Repairable
    BY DEF Responsible, Repairable
  <2> HIDE DEF legal
  <2>3. QED
    BY <1>1, <1>2, <1>3, <2>1, <2>2 DEF IssueAccepted
<1>5. QED
  BY <1>1, <1>3, <1>4

(* A classification of the first format that was accepted and names real     *)
(* owners is accepted after its migration, as far as its ids are ones the    *)
(* second format allows, and decides the same: migrateIssueClassification-   *)
(* V1ToV2 and `job classify`.                                                *)
THEOREM MigrationKeepsDecision ==
  ASSUME NEW issues, NEW report,
         \A i \in DOMAIN issues : issues[i] \in LegacyIssues /\ issues[i].owner \notin Inherited,
         LegacyAccepted(issues, report)
  PROVE  /\ (\A i \in DOMAIN issues : issues[i].id \in WellFormed)
              <=> Accepted(Migrated(issues), report)
         /\ Status(Migrated(issues)) = LegacyStatus(issues)
<1>1. ASSUME NEW i \in DOMAIN issues
      PROVE  issues[i].owner \in Owners /\ issues[i].repairAllowed \in BOOLEAN
  BY DEF LegacyIssues
<1>2. DOMAIN Migrated(issues) = DOMAIN issues
  BY DEF Migrated
<1>3. ASSUME NEW i \in DOMAIN issues
      PROVE  /\ Migrated(issues)[i].id = issues[i].id
             /\ Migrated(issues)[i].cause = LegacyIssueCause(issues[i])
             /\ Migrated(issues)[i].autoRepairAllowed = LegacyAutoRepair(issues[i])
             /\ issues[i].id \in WellFormed <=> IssueAccepted(Migrated(issues)[i])
  <2>1. Migrated(issues)[i] = MigratedIssue(issues[i])
    BY DEF Migrated
  <2>2. QED
    BY <1>1, <2>1, IssueMigrates
<1>4. ClassifiesAll(Migrated(issues), report)
  <2>1. ClassifiesAll(issues, report)
    BY DEF LegacyAccepted
  <2>2. {Migrated(issues)[i].id : i \in DOMAIN Migrated(issues)} = {issues[i].id : i \in DOMAIN issues}
    BY <1>2, <1>3
  <2>3. QED
    BY <1>2, <1>3, <2>1, <2>2 DEF ClassifiesAll
<1>5. (\A i \in DOMAIN issues : issues[i].id \in WellFormed)
        <=> Accepted(Migrated(issues), report)
  BY <1>2, <1>3, <1>4 DEF Accepted
<1>6. Status(Migrated(issues)) = LegacyStatus(issues)
  <2>1. [i \in DOMAIN Migrated(issues) |-> Migrated(issues)[i].cause]
          = [i \in DOMAIN issues |-> LegacyIssueCause(issues[i])]
    BY <1>2, <1>3
  <2>2. [i \in DOMAIN Migrated(issues) |-> Migrated(issues)[i].autoRepairAllowed]
          = [i \in DOMAIN issues |-> LegacyAutoRepair(issues[i])]
    BY <1>2, <1>3
  <2>3. QED
    BY <2>1, <2>2 DEF Status, LegacyStatus
<1>7. QED
  BY <1>5, <1>6

(* A Job goes to automatic repair exactly if every issue is one the policy   *)
(* lets be repaired, in either format: the converter defect that is tested   *)
(* first cannot be among them, since acceptance ties `repairable` to the     *)
(* owner or the cause.                                                       *)
THEOREM RepairMeansAllRepairable ==
  ASSUME NEW issues, NEW report
  PROVE  /\ LegacyAccepted(issues, report) =>
              (LegacyStatus(issues) = "AI_REPAIR_REQUIRED"
                 <=> DOMAIN issues # {} /\ \A i \in DOMAIN issues : LegacyAutoRepair(issues[i]))
         /\ Accepted(issues, report) =>
              (Status(issues) = "AI_REPAIR_REQUIRED"
                 <=> DOMAIN issues # {} /\ \A i \in DOMAIN issues : issues[i].autoRepairAllowed)
<1>1. ASSUME NEW i \in DOMAIN issues, LegacyAutoRepair(issues[i])
      PROVE  LegacyIssueCause(issues[i]) # "CONVERTER"
  BY <1>1 DEF LegacyAutoRepair, LegacyIssueCause
<1>2. ASSUME NEW i \in DOMAIN issues, Accepted(issues, report), issues[i].autoRepairAllowed
      PROVE  issues[i].cause # "CONVERTER"
  BY <1>2 DEF Accepted, IssueAccepted, Repairable
<1>3. LegacyStatus(issues) = "AI_REPAIR_REQUIRED"
        <=> DOMAIN issues # {} /\ \A i \in DOMAIN issues : LegacyAutoRepair(issues[i])
  BY <1>1 DEF LegacyStatus, Classified
<1>4. ASSUME Accepted(issues, report)
      PROVE  Status(issues) = "AI_REPAIR_REQUIRED"
               <=> DOMAIN issues # {} /\ \A i \in DOMAIN issues : issues[i].autoRepairAllowed
  BY <1>2, <1>4 DEF Status, Classified
<1>5. QED
  BY <1>3, <1>4

(* The refusal of a diagnostic copy for an unsupported cause is dead code    *)
(* for the second format; for the first it takes an owner that is no owner   *)
(* but a name every object answers to (diagnosticOwnerBucket).               *)
THEOREM OnlyInheritedOwnersLackBucket ==
  ASSUME NamesOK
  PROVE  /\ \A issues, report :
              (\A i \in DOMAIN issues : issues[i] \in LegacyIssues) /\ LegacyAccepted(issues, report)
                => \A i \in DOMAIN issues :
                     Bucket(LegacyIssueCause(issues[i])) = NoBucket
                       <=> issues[i].owner \in Inherited
         /\ \A issues, report :
              Accepted(issues, report) =>
                \A i \in DOMAIN issues : Bucket(issues[i].cause) # NoBucket
<1>1. ASSUME NEW cause \in Causes
      PROVE  Bucket(cause) # NoBucket
  BY DEF NamesOK, Bucket, Causes, Repairable
<1>2. ASSUME NEW name \in Inherited
      PROVE  Bucket(name) = NoBucket
  BY DEF NamesOK, Bucket, Causes, Repairable
<1>3. ASSUME NEW issue \in LegacyIssues
      PROVE  Bucket(LegacyIssueCause(issue)) = NoBucket <=> issue.owner \in Inherited
  <2>1. CASE issue.owner \in Inherited
    <3>1. LegacyIssueCause(issue) = issue.owner
      BY <2>1 DEF NamesOK, Owners, LegacyIssueCause
    <3>2. QED
      BY <1>2, <2>1, <3>1
  <2>2. CASE issue.owner \notin Inherited
    <3>1. issue.owner \in Owners
      BY <2>2 DEF LegacyIssues
    <3>2. LegacyIssueCause(issue) \in Causes
      BY <3>1 DEF Owners, LegacyIssueCause, Causes
    <3>3. QED
      BY <1>1, <2>2, <3>2
  <2>3. QED
    BY <2>1, <2>2
<1>4. QED
  BY <1>1, <1>3 DEF Accepted, IssueAccepted

-----------------------------------------------------------------------------
(* Lengths and elements of the paths an operation makes.                     *)
LEMMA UptoPath ==
  ASSUME SegmentsOK, NEW path \in Seq(Labels), NEW n \in 0 .. Len(path)
  PROVE  /\ Upto(path, n) \in Seq(Labels) /\ Len(Upto(path, n)) = n
         /\ \A i \in 1 .. n : Upto(path, n)[i] = path[i]
BY DEF Upto

(* What a splice moves keeps every label but an index.                       *)
LEMMA MovedPath ==
  ASSUME NEW path \in Seq(Labels), NEW at \in Seq(Labels), NEW distance \in {-1, 0, 1},
         Len(at) > 1, distance # 0 /\ Len(path) >= Len(at) => at[Len(at)] \in Nat,
         distance # 0 /\ Under(Parent(at), path) /\ Len(path) >= Len(at) => path[Len(at)] \in Nat
  PROVE  /\ Len(Moved(path, at, distance)) = Len(path)
         /\ \A i \in 1 .. Len(path) :
              \/ Moved(path, at, distance)[i] = path[i]
              \/ /\ i = Len(at) /\ distance # 0 /\ Under(Parent(at), path)
                 /\ path[i] \in Nat /\ Moved(path, at, distance)[i] = path[i] + distance
<1>1. CASE /\ distance # 0
           /\ Under(Parent(at), path) /\ Len(path) >= Len(at)
           /\ path[Len(at)] >= at[Len(at)]
  <2>1. Moved(path, at, distance) = [path EXCEPT ![Len(at)] = @ + distance]
    BY <1>1 DEF Moved
  <2>2. Len(at) \in 1 .. Len(path)
    BY <1>1
  <2>3. QED
    BY <1>1, <2>1, <2>2
<1>2. CASE ~(/\ distance # 0
             /\ Under(Parent(at), path) /\ Len(path) >= Len(at)
             /\ path[Len(at)] >= at[Len(at)])
  BY <1>2 DEF Moved
<1>3. QED
  BY <1>1, <1>2

(* Where an operation of a document leads.                                   *)
LEMMA AtPath ==
  ASSUME SegmentsOK, NEW doc, IsDocument(doc), NEW o \in Operations, PatchAllowed(o),
         NEW at, Resolves(doc, o, at)
  PROVE  /\ at \in Seq(Labels) /\ Len(at) > 1 /\ at[1] \in Roots
         /\ \A i \in 1 .. Len(at) : at[i] \notin Denied
         /\ Distance(doc, o, at) \in {-1, 0, 1}
         /\ Distance(doc, o, at) # 0 =>
              IsArray(doc, Parent(at)) /\ at[Len(at)] \in Nat
<1>1. /\ at \in Seq(Labels) /\ Len(at) = Len(o.path) /\ Len(at) > 1
      /\ o.path \in Seq(Segments) /\ o.path[1] \in Roots
  BY DEF Resolves, PatchAllowed, Operations
<1>2. Upto(at, 0) = <<>>
  BY <1>1 DEF Upto
<1>3. at[1] = o.path[1]
  <2>1. ~IsArray(doc, Upto(at, 1 - 1))
    BY <1>2 DEF IsDocument
  <2>2. QED
    BY <1>1, <2>1 DEF Resolves
<1>4. ASSUME NEW i \in 1 .. Len(at)
      PROVE  at[i] \notin Denied
  <2>1. at[i] \in Nat \/ at[i] = o.path[i]
    BY <1>1 DEF Resolves
  <2>2. o.path[i] \notin Denied
    BY <1>1 DEF PatchAllowed, Protected
  <2>3. QED
    BY <2>1, <2>2 DEF SegmentsOK
<1>5. Distance(doc, o, at) \in {-1, 0, 1}
  BY DEF Distance
<1>6. ASSUME Distance(doc, o, at) # 0
      PROVE  IsArray(doc, Parent(at)) /\ at[Len(at)] \in Nat
  <2>1. IsArray(doc, Parent(at))
    BY <1>6 DEF Distance
  <2>2. Len(at) \in 1 .. Len(at)
    BY <1>1
  <2>3. QED
    BY <2>1, <2>2 DEF Resolves, Parent
<1>7. QED
  BY <1>1, <1>3, <1>4, <1>5, <1>6

(* A node that was kept, before and after it was moved.                      *)
LEMMA KeptNode ==
  ASSUME SegmentsOK, NEW doc, IsDocument(doc), NEW o \in Operations, PatchAllowed(o),
         NEW at, Resolves(doc, o, at), NEW node \in Kept(doc, o, at),
         NEW path, path = Moved(node.path, at, Distance(doc, o, at))
  PROVE  /\ node \in doc /\ node.path \in Seq(Labels) /\ Len(path) = Len(node.path)
         /\ \A i \in 1 .. Len(path) :
              \/ path[i] = node.path[i]
              \/ /\ node.path[i] \in Nat /\ path[i] \in Int /\ i > 1
                 /\ Under(Parent(at), node.path)
<1> DEFINE d == Distance(doc, o, at)
<1>1. node \in doc /\ node.path \in Seq(Labels)
  BY DEF Kept, IsDocument, Nodes
<1>2. /\ at \in Seq(Labels) /\ Len(at) > 1 /\ d \in {-1, 0, 1}
      /\ d # 0 => IsArray(doc, Parent(at)) /\ at[Len(at)] \in Nat
  BY AtPath
<1>3. ASSUME d # 0, Under(Parent(at), node.path), Len(node.path) >= Len(at)
      PROVE  node.path[Len(at)] \in Nat
  <2>1. Len(at) \in 1 .. Len(node.path) /\ Len(at) - 1 \in 0 .. Len(at)
    BY <1>1, <1>2, <1>3
  <2>2. Upto(node.path, Len(at) - 1) = Parent(at)
    <3>1. /\ Upto(node.path, Len(at) - 1) \in Seq(Labels)
          /\ Len(Upto(node.path, Len(at) - 1)) = Len(at) - 1
          /\ \A i \in 1 .. Len(at) - 1 : Upto(node.path, Len(at) - 1)[i] = node.path[i]
      <4>1. Len(at) - 1 \in 0 .. Len(node.path)
        BY <1>1, <1>2, <2>1
      <4>2. QED
        BY <1>1, <4>1, UptoPath
    <3>2. /\ Parent(at) \in Seq(Labels) /\ Len(Parent(at)) = Len(at) - 1
      BY <1>2, <2>1, UptoPath DEF Parent
    <3>3. \A i \in 1 .. Len(at) - 1 : node.path[i] = Parent(at)[i]
      BY <1>3, <3>2 DEF Under
    <3>4. QED
      BY <3>1, <3>2, <3>3
  <2>3. IsArray(doc, Upto(node.path, Len(at) - 1))
    BY <1>2, <1>3, <2>2
  <2>4. QED
    BY <1>1, <2>1, <2>3 DEF IsDocument
<1> HIDE DEF d
<1>4. /\ Len(Moved(node.path, at, d)) = Len(node.path)
      /\ \A i \in 1 .. Len(node.path) :
           \/ Moved(node.path, at, d)[i] = node.path[i]
           \/ /\ i = Len(at) /\ d # 0 /\ Under(Parent(at), node.path)
              /\ node.path[i] \in Nat /\ Moved(node.path, at, d)[i] = node.path[i] + d
  BY <1>1, <1>2, <1>3, MovedPath
<1>5. path = Moved(node.path, at, d)
  BY DEF d
<1>6. QED
  BY <1>1, <1>2, <1>4, <1>5

(* validateRepairPatch and applyRepairPatch: an operation that passes the    *)
(* policy sets no field with the name of an identity or a secret.  What is   *)
(* found under such a name afterwards was there before, with the same value  *)
(* and at the same place, up to the indices a splice has moved.              *)
THEOREM ProtectedIsNotSet ==
  ASSUME SegmentsOK, NEW doc, IsDocument(doc), NEW o \in Operations, PatchAllowed(o),
         NEW at, Resolves(doc, o, at),
         NEW node \in Applied(doc, o, at), Protected(node.path)
  PROVE  \E old \in doc :
           /\ old.kind = node.kind /\ Protected(old.path) /\ Len(old.path) = Len(node.path)
           /\ \A i \in 1 .. Len(node.path) :
                old.path[i] = node.path[i] \/ (old.path[i] \in Nat /\ node.path[i] \in Int)
<1>1. /\ at \in Seq(Labels) /\ Len(at) > 1
      /\ \A i \in 1 .. Len(at) : at[i] \notin Denied
  BY AtPath
<1>2. CASE \E old \in Kept(doc, o, at) :
             node = Node(Moved(old.path, at, Distance(doc, o, at)), old.kind)
  <2>1. PICK old \in Kept(doc, o, at) :
               node = Node(Moved(old.path, at, Distance(doc, o, at)), old.kind)
    BY <1>2
  <2>2. node.path = Moved(old.path, at, Distance(doc, o, at)) /\ node.kind = old.kind
    BY <2>1 DEF Node
  <2>3. /\ old \in doc /\ old.path \in Seq(Labels) /\ Len(node.path) = Len(old.path)
        /\ \A i \in 1 .. Len(node.path) :
             node.path[i] = old.path[i] \/ (old.path[i] \in Nat /\ node.path[i] \in Int)
    BY <2>2, KeptNode
  <2>4. Protected(old.path)
    <3>1. PICK i \in 1 .. Len(node.path) : node.path[i] \in Denied
      BY DEF Protected
    <3>2. CASE node.path[i] = old.path[i]
      BY <2>3, <3>1, <3>2 DEF Protected
    <3>3. CASE node.path[i] # old.path[i]
      BY <2>2, <2>3, <3>1, <3>3 DEF SegmentsOK
    <3>4. QED
      BY <3>2, <3>3
  <2>5. QED
    BY <2>2, <2>3, <2>4
<1>3. CASE node \in Created(doc, o, at)
  <2>1. PICK n \in 1 .. Len(at) - 1 : node = Node(Upto(at, n), "object")
    BY <1>3 DEF Created
  <2>2. n \in 0 .. Len(at) /\ node.path = Upto(at, n)
    BY <1>1, <2>1 DEF Node
  <2>3. Len(node.path) = n /\ \A i \in 1 .. n : node.path[i] = at[i]
    BY <1>1, <2>2, UptoPath
  <2>4. QED
    BY <1>1, <2>2, <2>3 DEF Protected
<1>4. CASE o.op # "remove" /\ \E new \in o.value : node = Node(at \o new.path, new.kind)
  <2>1. PICK new \in o.value : node = Node(at \o new.path, new.kind)
    BY <1>4
  <2>2. new.path \in Seq(Labels) /\ ~Protected(new.path) /\ node.path = at \o new.path
    BY <1>4, <2>1 DEF Operations, Nodes, PatchAllowed, Node
  <2>3. PICK i \in 1 .. Len(node.path) : node.path[i] \in Denied
    BY DEF Protected
  <2>4. CASE i <= Len(at)
    BY <1>1, <2>2, <2>3, <2>4
  <2>5. CASE i > Len(at)
    <3>1. i - Len(at) \in 1 .. Len(new.path) /\ node.path[i] = new.path[i - Len(at)]
      BY <1>1, <2>2, <2>3, <2>5
    <3>2. QED
      BY <2>2, <2>3, <3>1 DEF Protected
  <2>6. QED
    BY <1>1, <2>4, <2>5
<1>5. QED
  BY <1>2, <1>3, <1>4 DEF Applied

(* A patch leaves everything outside `case`, `stage` and `server` as it was: *)
(* the array whose elements move lies below a root itself.                   *)
THEOREM OutsideRootsUntouched ==
  ASSUME SegmentsOK, NEW doc, IsDocument(doc), NEW o \in Operations, PatchAllowed(o),
         NEW at, Resolves(doc, o, at),
         NEW path \in Seq(Labels), path = <<>> \/ path[1] \notin Roots, NEW kind
  PROVE  Node(path, kind) \in doc <=> Node(path, kind) \in Applied(doc, o, at)
<1>1. /\ at \in Seq(Labels) /\ Len(at) > 1 /\ at[1] \in Roots
  BY AtPath
<1>2. Len(Parent(at)) = Len(at) - 1 /\ Parent(at)[1] = at[1]
  <2>1. Len(at) - 1 \in 0 .. Len(at) /\ 1 \in 1 .. Len(at) - 1
    BY <1>1
  <2>2. QED
    BY <1>1, <2>1, UptoPath DEF Parent
<1>3. ASSUME NEW other \in Seq(Labels), Under(at, other) \/ Under(Parent(at), other)
      PROVE  Len(other) > 0 /\ other[1] \in Roots
  BY <1>1, <1>2, <1>3 DEF Under
<1>4. ASSUME Node(path, kind) \in doc
      PROVE  Node(path, kind) \in Applied(doc, o, at)
  <2>1. Node(path, kind).path = path /\ Node(path, kind).kind = kind
    BY DEF Node
  <2>2. ~Under(at, path) /\ ~Under(Parent(at), path)
    BY <1>3
  <2>3. Node(path, kind) \in Kept(doc, o, at)
    BY <1>4, <2>1, <2>2 DEF Kept
  <2>4. Moved(path, at, Distance(doc, o, at)) = path
    BY <2>2 DEF Moved
  <2>5. QED
    BY <2>1, <2>3, <2>4 DEF Applied
<1>5. ASSUME Node(path, kind) \in Applied(doc, o, at)
      PROVE  Node(path, kind) \in doc
  <2>1. Node(path, kind).path = path /\ Node(path, kind).kind = kind
    BY DEF Node
  <2>2. CASE \E old \in Kept(doc, o, at) :
               Node(path, kind) = Node(Moved(old.path, at, Distance(doc, o, at)), old.kind)
    <3>1. PICK old \in Kept(doc, o, at) :
                 Node(path, kind) = Node(Moved(old.path, at, Distance(doc, o, at)), old.kind)
      BY <2>2
    <3>2. path = Moved(old.path, at, Distance(doc, o, at)) /\ kind = old.kind
      BY <3>1 DEF Node
    <3>3. /\ old \in doc /\ old.path \in Seq(Labels) /\ Len(path) = Len(old.path)
          /\ \A i \in 1 .. Len(path) :
               path[i] = old.path[i] \/ (i > 1 /\ Under(Parent(at), old.path))
      BY <3>2, KeptNode
    <3>4. ~Under(Parent(at), old.path)
      <4>1. CASE path = <<>>
        BY <1>3, <3>3, <4>1
      <4>2. CASE path # <<>>
        BY <1>3, <3>3, <4>2
      <4>3. QED
        BY <4>1, <4>2
    <3>5. path = old.path
      BY <3>3, <3>4
    <3>6. old = Node(path, kind)
      BY <3>2, <3>3, <3>5 DEF IsDocument, Nodes, Node
    <3>7. QED
      BY <3>3, <3>6
  <2>3. CASE Node(path, kind) \in Created(doc, o, at)
    <3>1. PICK n \in 1 .. Len(at) - 1 : Node(path, kind) = Node(Upto(at, n), "object")
      BY <2>3 DEF Created
    <3>2. n \in 0 .. Len(at) /\ path = Upto(at, n)
      BY <1>1, <3>1 DEF Node
    <3>3. QED
      BY <1>1, <3>1, <3>2, UptoPath
  <2>4. CASE \E new \in o.value : Node(path, kind) = Node(at \o new.path, new.kind)
    <3>1. PICK new \in o.value : Node(path, kind) = Node(at \o new.path, new.kind)
      BY <2>4
    <3>2. new.path \in Seq(Labels) /\ path = at \o new.path
      BY <3>1 DEF Operations, Nodes, Node
    <3>3. Len(path) > 0 /\ path[1] = at[1]
      BY <1>1, <3>2
    <3>4. QED
      BY <1>1, <3>3
  <2>5. QED
    BY <1>5, <2>2, <2>3, <2>4 DEF Applied
<1>6. QED
  BY <1>4, <1>5

-----------------------------------------------------------------------------
(* #request: a write is reported as rejected only on an answer that says so, *)
(* for its sender, his membership or his group; a write other than the two   *)
(* saves only when the platform asks for a login.  Everything else that      *)
(* fails is unknown to Save As, Refresh and repair.                          *)
THEOREM RejectedMeansRefused ==
  ASSUME NEW path, NEW answer, Outcome(path, TRUE, answer) = "REJECTED_BY_PLATFORM"
  PROVE  /\ answer # NoAnswer
         /\ LoginFilter(answer) \/ (~Ok(answer) /\ MemberRejection(path, answer))
         /\ path \notin {"saveAs", "save"} => LoginFilter(answer)
BY DEF Outcome, MemberRejection

(* workRoutingMatches, field by field, says that the domains read are those  *)
(* of the binding and the paths read those of the ownership: the defaults of *)
(* fields that are missing, and a path beside its root flag, come to the     *)
(* same in buildSaveAsDomainRouting and in the comparison.                   *)
THEOREM MatchShowsBuiltRouting ==
  ASSUME NEW source, NEW target, NEW routing
  PROVE  RoutingMatches(Built(DomainBinding(source), PathOwnership(target)), routing)
           <=> /\ DomainBinding(routing) = DomainBinding(source)
               /\ PathOwnership(routing) = PathOwnership(target)
<1> DEFINE built == Built(DomainBinding(source), PathOwnership(target))
<1>1. DOMAIN built = Keys
  BY DEF Built, Keys
<1>2. /\ built.domain = Given(source, "domain", "")
      /\ built.previewDomain = Given(source, "previewDomain", "")
      /\ built.customDomain = Given(source, "customDomain", FALSE)
      /\ built.path = EffectivePath(target, "path")
      /\ built.previewPath = EffectivePath(target, "previewPath")
      /\ built.pubRoot = AtRoot(target, "path")
      /\ built.preRoot = AtRoot(target, "previewPath")
  BY DEF Built, DomainBinding, PathOwnership
<1>3. /\ ObservedValue(routing, "domain") = Given(routing, "domain", "")
      /\ ObservedValue(routing, "previewDomain") = Given(routing, "previewDomain", "")
      /\ ObservedValue(routing, "customDomain") = Given(routing, "customDomain", FALSE)
      /\ ObservedValue(routing, "path") = EffectivePath(routing, "path")
      /\ ObservedValue(routing, "previewPath") = EffectivePath(routing, "previewPath")
      /\ ObservedValue(routing, "pubRoot") = AtRoot(routing, "path")
      /\ ObservedValue(routing, "preRoot") = AtRoot(routing, "previewPath")
  BY DEF ObservedValue
<1> HIDE DEF built
<1>4. RoutingMatches(built, routing)
        <=> /\ Given(routing, "domain", "") = Given(source, "domain", "")
            /\ Given(routing, "previewDomain", "") = Given(source, "previewDomain", "")
            /\ Given(routing, "customDomain", FALSE) = Given(source, "customDomain", FALSE)
            /\ EffectivePath(routing, "path") = EffectivePath(target, "path")
            /\ EffectivePath(routing, "previewPath") = EffectivePath(target, "previewPath")
            /\ AtRoot(routing, "path") = AtRoot(target, "path")
            /\ AtRoot(routing, "previewPath") = AtRoot(target, "previewPath")
  BY <1>1, <1>2, <1>3 DEF RoutingMatches, Keys
<1>5. QED
  BY <1>4 DEF DomainBinding, PathOwnership, built

(* A routing write that took effect is recognised, and leaves the target its *)
(* own paths: one that is repeated after it (resume) or compared with what   *)
(* was frozen (TARGET_DOMAIN_CONFIGURATION_CHANGED) meets itself.            *)
THEOREM StoredRoutingMatches ==
  ASSUME NEW source, NEW target,
         NEW info, NEW settings,
         Stores(info, settings, Built(DomainBinding(source), PathOwnership(target)))
  PROVE  /\ RoutingMatches(Built(DomainBinding(source), PathOwnership(target)),
                           Routing(info, settings))
         /\ PathOwnership(Routing(info, settings)) = PathOwnership(target)
<1> DEFINE built == Built(DomainBinding(source), PathOwnership(target))
           after == Routing(info, settings)
<1>1. /\ built.domain = Given(source, "domain", "")
      /\ built.previewDomain = Given(source, "previewDomain", "")
      /\ built.customDomain = Given(source, "customDomain", FALSE)
      /\ built.path = EffectivePath(target, "path")
      /\ built.previewPath = EffectivePath(target, "previewPath")
      /\ built.pubRoot = AtRoot(target, "path")
      /\ built.preRoot = AtRoot(target, "previewPath")
  BY DEF Built, DomainBinding, PathOwnership
<1>2. \A key \in Keys : key \in DOMAIN after /\ after[key] = built[key]
  BY DEF Stores
<1> HIDE DEF built, after
<1>3. \A key \in Keys : \A default : Given(after, key, default) = built[key]
  BY <1>2 DEF Given
<1>4. AtRoot(after, "path") = AtRoot(target, "path")
  BY <1>1, <1>3 DEF AtRoot, RootOf, Keys
<1>5. AtRoot(after, "previewPath") = AtRoot(target, "previewPath")
  BY <1>1, <1>3 DEF AtRoot, RootOf, Keys
<1>6. EffectivePath(after, "path") = EffectivePath(target, "path")
  BY <1>1, <1>2, <1>4 DEF EffectivePath, Keys
<1>7. EffectivePath(after, "previewPath") = EffectivePath(target, "previewPath")
  BY <1>1, <1>2, <1>5 DEF EffectivePath, Keys
<1>8. PathOwnership(after) = PathOwnership(target)
  BY <1>4, <1>5, <1>6, <1>7 DEF PathOwnership
<1>9. DomainBinding(after) = DomainBinding(source)
  BY <1>1, <1>3 DEF DomainBinding, Keys
<1>10. QED
  BY <1>8, <1>9, MatchShowsBuiltRouting DEF built, after
=============================================================================

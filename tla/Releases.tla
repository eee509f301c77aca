-------------------------------- MODULE Releases --------------------------------
(***************************************************************************)
(* The managed runtimes of one home directory: Workflow, Converter and      *)
(* Knowledge versions that are downloaded from signed channels, activated   *)
(* as a set in current.json, rolled back, and pinned by new Jobs.  Sources: *)
(* src/src/releases/ (update-manager, update-preflight, artifact-installer, *)
(* runtime-registry, release-policy, runtime-compatibility) and the         *)
(* commands of src/src/cli.js that use them.                                *)
(*                                                                          *)
(* A command is a process of its own.  It runs from one await to the next,  *)
(* and other processes run in between; the read and the write of            *)
(* current.json are also apart, since nothing locks the file.  A command    *)
(* can stop anywhere: an error, a refusal (an update policy that asks first *)
(* is one) or a kill all leave what was written before.  A release is       *)
(* immutable, so that a version stands for its descriptor and its artifact; *)
(* the Agent protocol range of a Knowledge release is part of the Workflow  *)
(* versions it accepts.                                                     *)
(***************************************************************************)
EXTENDS Naturals, Sequences

CONSTANTS
  Commands,       \* processes
  None,           \* no version of this kind is active
  Versions,       \* version numbers, compared as numbers
  Bundled,        \* the Workflow version of the launcher
  Accepts,        \* compatibility ranges of a release, by kind and version
  Channel,        \* the payloads published for a kind, one after the other
  Configured,     \* the kinds whose channel the configuration names
  HistoryLimit,   \* entries kept in current.json, 30 in the code
  MaxStarts       \* bound: commands started

Kinds == {"workflow", "converter", "knowledge"}
Order == <<"workflow", "converter", "knowledge">>

ASSUME VersionAssumption ==
  /\ Versions \subseteq Nat /\ Bundled \in Versions /\ None \notin Versions
  /\ Accepts \in [Kinds \X Versions -> [Kinds -> SUBSET Versions]]
Payloads ==
  [latest : Versions, minimum : Versions, revoked : SUBSET Versions, retained : SUBSET Versions]
ASSUME ChannelAssumption ==
  /\ Configured \subseteq Kinds
  /\ Channel \in [Kinds -> Seq(Payloads)]
  /\ \A kind \in Kinds :
       /\ Channel[kind] # <<>>
       /\ \A i \in DOMAIN Channel[kind] :
            Channel[kind][i].latest \in Channel[kind][i].retained
ASSUME ReleaseBounds == HistoryLimit \in Nat \ {0} /\ MaxStarts \in Nat

VARIABLES
  installed,   \* versions with a descriptor on disk, by kind
  current,     \* current.json: the active set and what it replaced, newest first
  published,   \* number of payloads each channel has published
  pc,          \* where a command is, "idle" when there is none
  task,        \* what it was asked to do and the versions it has chosen
  seen,        \* what it has read: versions, and the kinds it has checked or updated
  todo,        \* kinds it still has to install
  file,        \* the current.json it is about to write
  jobs,        \* what new Jobs and Refreshes pin, and how they came to it
  starts,      \* commands started
  missed,      \* what a command has missed: another one wrote current.json
               \* after ("after") or only before ("before") its last check of it
  raced        \* an activation rested on a check that had missed a write

vars ==
  <<installed, current, published, pc, task, seen, todo, file, jobs, starts, missed, raced>>

-----------------------------------------------------------------------------
(* assertRuntimeSet.  `plain` are the kinds known by version only, whose     *)
(* descriptor, and so whose ranges, are missing.                             *)
Sets == [Kinds -> Versions \cup {None}]

Ranges(kind, version) == Accepts[<<kind, version>>]

CompatibleSet(set, plain) ==
  /\ set["workflow"] # None /\ set["converter"] # None =>
       /\ "workflow" \notin plain =>
            set["converter"] \in Ranges("workflow", set["workflow"])["converter"]
       /\ "converter" \notin plain =>
            set["workflow"] \in Ranges("converter", set["converter"])["workflow"]
  /\ set["knowledge"] # None =>
       \A kind \in {"workflow", "converter"} :
         /\ set[kind] # None
         /\ set[kind] \in Ranges("knowledge", set["knowledge"])[kind]

(* Without a managed Workflow the launcher's own runs.                       *)
WithBundled(set) ==
  IF set["workflow"] = None THEN [set EXCEPT !["workflow"] = Bundled] ELSE set
PlainOf(set) == IF set["workflow"] = None THEN {"workflow"} ELSE {}

One(kind, kinds) == IF kind \in kinds THEN <<kind>> ELSE <<>>
InOrder(kinds) == One("workflow", kinds) \o One("converter", kinds) \o One("knowledge", kinds)

Payload(kind) == Channel[kind][published[kind]]

(* evaluateRelease; `workflow` is None when its compatibility is not asked.  *)
(* A version that is not accepted has to be updated.                         *)
Accepted(payload, version) ==
  version # None /\ version \notin payload.revoked /\ version >= payload.minimum
LatestFits(kind, payload, workflow) ==
  kind = "converter" /\ workflow # None =>
    workflow \in Ranges(kind, payload.latest)["workflow"]
Evaluated(kind, payload, version, workflow) ==
  Accepted(payload, version) => LatestFits(kind, payload, workflow)
Installable(payload, version) == Accepted(payload, version) => version < payload.latest

-----------------------------------------------------------------------------
Override(set, new) == [k \in Kinds |-> IF k \in DOMAIN new THEN new[k] ELSE set[k]]

(* activateSet: what is replaced goes to the head of the history.            *)
RecordsAlways(set, kind, version) == set[kind] # None   \* mutant: same version too
Replaces(set, kind, version) == set[kind] \notin {None, version}

Recent(history) ==
  IF Len(history) <= HistoryLimit THEN history ELSE SubSeq(history, 1, HistoryLimit)

Activated(cur, new) ==
  LET Entry(kind) ==
        IF kind \in DOMAIN new /\ Replaces(cur.active, kind, new[kind])
        THEN <<[kind |-> kind, version |-> cur.active[kind]]>> ELSE <<>>
  IN [active |-> Override(cur.active, new),
      history |-> Recent(Entry("knowledge") \o Entry("converter") \o Entry("workflow")
                           \o cur.history)]

(* rollbackTarget: the newest entry of the kind that is still installed.     *)
Returnable(cur, kind) ==
  {i \in DOMAIN cur.history :
     cur.history[i].kind = kind /\ cur.history[i].version \in installed[kind]}
TargetIndex(cur, kind) ==
  CHOOSE i \in Returnable(cur, kind) : \A j \in Returnable(cur, kind) : i <= j
Target(cur, kind) == cur.history[TargetIndex(cur, kind)].version

(* rollback: the entry moves out of the history, the current version into it.*)
RolledBack(cur, kind) ==
  LET index == TargetIndex(cur, kind)
      others == SubSeq(cur.history, 1, index - 1)
                  \o SubSeq(cur.history, index + 1, Len(cur.history))
      replaced == IF cur.active[kind] = None THEN <<>>
                  ELSE <<[kind |-> kind, version |-> cur.active[kind]]>>
  IN [active |-> [cur.active EXCEPT ![kind] = Target(cur, kind)],
      history |-> replaced \o others]

-----------------------------------------------------------------------------
NoVersions == [k \in {} |-> None]
NoTask == [op |-> "none", kinds |-> {}, new |-> NoVersions, choice |-> "none"]
NoneActive == [k \in Kinds |-> None]
NothingSeen == [set |-> NoneActive, running |-> None, next |-> 1, updated |-> {}]

Init ==
  /\ installed = [k \in Kinds |-> {}]
  /\ current = [active |-> NoneActive, history |-> <<>>]
  /\ published = [k \in Kinds |-> 1]
  /\ pc = [p \in Commands |-> "idle"]
  /\ task = [p \in Commands |-> NoTask]
  /\ seen = [p \in Commands |-> NothingSeen]
  /\ todo = [p \in Commands |-> <<>>]
  /\ file = [p \in Commands |-> None]
  /\ jobs = {}
  /\ starts = 0
  /\ missed = [p \in Commands |-> "none"]
  /\ raced = FALSE

(* A new payload becomes the channel's.                                      *)
Publish ==
  /\ \E kind \in Kinds :
       /\ published[kind] < Len(Channel[kind])
       /\ published' = [published EXCEPT ![kind] = @ + 1]
  /\ UNCHANGED <<installed, current, pc, task, seen, todo, file, jobs, starts, missed, raced>>

Goto(p, step) == pc' = [pc EXCEPT ![p] = step]
Remember(p, record) == seen' = [seen EXCEPT ![p] = record]
Choose(p, new) == task' = [task EXCEPT ![p].new = new]
(* A command ends, here as intended.                                         *)
Forget(p) ==
  /\ Goto(p, "idle")
  /\ task' = [task EXCEPT ![p] = NoTask]
  /\ seen' = [seen EXCEPT ![p] = NothingSeen]
  /\ todo' = [todo EXCEPT ![p] = <<>>]
  /\ file' = [file EXCEPT ![p] = None]
Clear(p) == Forget(p) /\ missed' = [missed EXCEPT ![p] = "none"]

(* It throws, at an await or because a check fails, or is killed.            *)
Stop(p) ==
  /\ pc[p] # "idle"
  /\ Clear(p)
  /\ UNCHANGED <<installed, current, published, jobs, starts, raced>>

(* Every command reads current.json as it starts.                            *)
Start(p, op, kinds, new, choice, step) ==
  /\ pc[p] = "idle" /\ starts < MaxStarts
  /\ starts' = starts + 1
  /\ task' = [task EXCEPT ![p] = [op |-> op, kinds |-> kinds, new |-> new, choice |-> choice]]
  /\ Remember(p, [NothingSeen EXCEPT !.set = current.active,
                                     !.running = WithBundled(current.active)["workflow"]])
  /\ Goto(p, step)
  /\ UNCHANGED <<installed, current, published, todo, file, jobs, missed, raced>>

-----------------------------------------------------------------------------
(* UpdateManager.apply: setup and update apply.                              *)
StartApply(p) ==
  \E kinds \in SUBSET Kinds \ {{}} : Start(p, "apply", kinds, NoVersions, "none", "plan")

PlannedVersion(kind, kinds, set) ==
  IF kind \in kinds \cap Configured /\ Installable(Payload(kind), set[kind]) THEN Payload(kind).latest
  ELSE WithBundled(set)[kind]

PlannedSet(kinds, set) == [k \in Kinds |-> PlannedVersion(k, kinds, set)]

PlannedPlain(kinds, set) ==
  IF set["workflow"] = None
     /\ PlannedSet(kinds, set)["workflow"] \notin Payload("workflow").retained
  THEN {"workflow"} ELSE {}

(* #plan, once the channels are read, of which Knowledge's is optional: the  *)
(* set is checked as it was when the command started.  Otherwise the command *)
(* stops.                                                                    *)
AnySet(kinds, set) == TRUE          \* mutant: the planned set is not checked
PlanHolds(kinds, set) ==
  /\ {"workflow", "converter"} \subseteq Configured
  /\ Evaluated("converter", Payload("converter"), set["converter"],
               IF "converter" \in kinds THEN PlannedSet(kinds, set)["workflow"] ELSE None)
  /\ CompatibleSet(PlannedSet(kinds, set), PlannedPlain(kinds, set))
  /\ set["knowledge"] = None /\ "knowledge" \in Configured => "knowledge" \in kinds

Plan(p) ==
  /\ pc[p] = "plan"
  /\ LET set == seen[p].set
         kinds == task[p].kinds
         chosen == {k \in kinds \cap Configured : Installable(Payload(k), set[k])}
     IN /\ PlanHolds(kinds, set)
        /\ Choose(p, [k \in chosen |-> Payload(k).latest])
        /\ todo' = [todo EXCEPT ![p] = InOrder(chosen)]
  /\ Goto(p, "install")
  /\ UNCHANGED <<installed, current, published, seen, file, jobs, starts, missed, raced>>

(* release install: the version asked for, or the latest, of the channel or  *)
(* of the manifest named with the command.                                   *)
StartInstall(p) ==
  \E kind \in Kinds, activate \in {"activate", "keep"} :
    Start(p, "install", {kind}, NoVersions, activate, "evaluate")

EvaluateInstall(p) ==
  /\ pc[p] = "evaluate"
  /\ \E kind \in task[p].kinds :
       /\ Evaluated(kind, Payload(kind), seen[p].set[kind], seen[p].running)
       /\ \E version \in Payload(kind).retained : Choose(p, [k \in {kind} |-> version])
       /\ todo' = [todo EXCEPT ![p] = <<kind>>]
  /\ Goto(p, "install")
  /\ UNCHANGED <<installed, current, published, seen, file, jobs, starts, missed, raced>>

-----------------------------------------------------------------------------
(* ArtifactInstaller.install of the next kind: an installed version is used, *)
(* another is downloaded, checked and renamed into place.  When another      *)
(* command was faster the rename fails, and the command stops.               *)
NextKind(p) == Head(todo[p])

InstallNext(p) ==
  /\ pc[p] = "install" /\ todo[p] # <<>>
  /\ installed' = [installed EXCEPT ![NextKind(p)] = @ \cup {task[p].new[NextKind(p)]}]
  /\ todo' = [todo EXCEPT ![p] = Tail(@)]
  /\ UNCHANGED <<current, published, pc, task, seen, file, jobs, starts, missed, raced>>

(* What follows the last installation.                                       *)
AfterInstall(p) == IF task[p].op = "apply" THEN "commit" ELSE "assert"
KeepsInactive(p) ==
  \/ task[p].op = "install" /\ task[p].choice = "keep"
  \/ task[p].op = "apply" /\ DOMAIN task[p].new = {}

Installed(p) ==
  /\ pc[p] = "install" /\ todo[p] = <<>>
  /\ IF KeepsInactive(p) THEN Clear(p)
     ELSE Goto(p, AfterInstall(p)) /\ UNCHANGED <<task, seen, todo, file, missed>>
  /\ UNCHANGED <<installed, current, published, jobs, starts, raced>>

-----------------------------------------------------------------------------
(* release activate, of an installed version.                                *)
StartActivate(p) ==
  \E kind \in Kinds, version \in Versions :
    /\ version \in installed[kind]
    /\ Start(p, "activate", {kind}, [k \in {kind} |-> version], "none", "assert")

(* One version is activated only into a set it fits, as it is on disk.       *)
AssertHolds(p) == CompatibleSet(Override(current.active, task[p].new), {})

AssertFits(p) ==
  /\ pc[p] = "assert"
  /\ AssertHolds(p)
  /\ missed' = [missed EXCEPT ![p] = IF @ = "none" THEN "none" ELSE "before"]
  /\ Goto(p, "commit")
  /\ UNCHANGED <<installed, current, published, task, seen, todo, file, jobs, starts, raced>>

(* activateSet: every version has a descriptor; read, change, write.         *)
Commit(p) ==
  /\ pc[p] = "commit"
  /\ \A kind \in DOMAIN task[p].new : task[p].new[kind] \in installed[kind]
  /\ file' = [file EXCEPT ![p] = Activated(current, task[p].new)]
  /\ raced' = (raced \/ missed[p] = "after")
  /\ Goto(p, "write")
  /\ UNCHANGED <<installed, current, published, task, seen, todo, jobs, starts, missed>>

(* A Job goes on with the next kind; after its Workflow was updated it has   *)
(* to be restarted.                                                          *)
GoesOn(p) == task[p].op = "job" /\ "workflow" \notin DOMAIN task[p].new

Missing(p) ==
  [q \in Commands |-> CASE q # p /\ pc[q] # "idle" -> "after"
                        [] q = p /\ GoesOn(p) -> missed[p]
                        [] OTHER -> "none"]

Write(p) ==
  /\ pc[p] = "write"
  /\ current' = file[p]
  /\ missed' = Missing(p)
  /\ IF GoesOn(p)
     THEN Goto(p, "check") /\ file' = [file EXCEPT ![p] = None] /\ UNCHANGED <<task, seen, todo>>
     ELSE Forget(p)
  /\ UNCHANGED <<installed, published, jobs, starts, raced>>

-----------------------------------------------------------------------------
(* UpdateManager.rollback: a target exists, the channel still vouches for it *)
(* (a Knowledge channel that is not configured is not asked), and the set it *)
(* makes is compatible.                                                      *)
StartRollback(p) ==
  \E kind \in Kinds :
    /\ Returnable(current, kind) # {}
    /\ Start(p, "rollback", {kind}, [k \in {kind} |-> Target(current, kind)], "none", "vet")

Vet(p) ==
  /\ pc[p] = "vet"
  /\ \A kind \in task[p].kinds :
       IF kind \in Configured
       THEN task[p].new[kind] \in Payload(kind).retained \ Payload(kind).revoked
       ELSE kind = "knowledge"
  /\ Goto(p, "revert")
  /\ UNCHANGED <<installed, current, published, task, seen, todo, file, jobs, starts, missed, raced>>

(* The target is looked up again.                                            *)
Revert(p) ==
  /\ pc[p] = "revert"
  /\ \E kind \in task[p].kinds :
       /\ Returnable(current, kind) # {}
       /\ CompatibleSet(RolledBack(current, kind).active, {})
       /\ file' = [file EXCEPT ![p] = RolledBack(current, kind)]
  /\ Goto(p, "write")
  /\ UNCHANGED <<installed, current, published, task, seen, todo, jobs, starts, missed, raced>>

-----------------------------------------------------------------------------
(* loadConverterForJob and performUpdatePreflight: a new Job or a Refresh,   *)
(* with the Converter of current.json or the one of --converter-path.        *)
StartJob(p) ==
  \E choice \in {"managed", "explicit"} :
    /\ choice = "managed" => current.active["converter"] # None
    /\ Start(p, "job", {}, NoVersions, choice, "load")

(* The Converter that was active at the start is loaded, or any other: the   *)
(* one of --converter-path need not be installed.                            *)
Loadable(p) == IF task[p].choice = "managed" THEN {seen[p].set["converter"]} ELSE Versions

LoadConverter(p) ==
  /\ pc[p] = "load"
  /\ \E version \in Loadable(p) :
       Remember(p, [seen[p] EXCEPT
         !.set = [WithBundled(current.active) EXCEPT !["converter"] = version]])
  /\ Goto(p, "check")
  /\ UNCHANGED <<installed, current, published, task, todo, file, jobs, starts, missed, raced>>

Checked(p) == Order[seen[p].next]

CheckPasses(p) ==
  LET kind == Checked(p)
  IN /\ Accepted(Payload(kind), seen[p].set[kind])
     /\ LatestFits(kind, Payload(kind), seen[p].set["workflow"])

UpdateAvailable(p) == seen[p].set[Checked(p)] < Payload(Checked(p)).latest

(* The version in use is kept, and accepted if there is a channel.  The      *)
(* policy of each kind, and --use-current, say what is done when a newer     *)
(* version is available.                                                     *)
KeepVersion(p) ==
  /\ pc[p] = "check" /\ seen[p].next <= Len(Order)
  /\ Checked(p) \in Configured => CheckPasses(p)
  /\ Remember(p, [seen[p] EXCEPT !.next = @ + 1])
  /\ UNCHANGED <<installed, current, published, pc, task, todo, file, jobs, starts, missed, raced>>

(* The set it is held against is the one on disk; what is not active there   *)
(* is known by the version in use only.                                      *)
Bare(p) == {kind \in {"workflow", "converter"} : current.active[kind] = None}
Baseline(p) ==
  [kind \in Kinds |-> IF kind \in Bare(p) THEN seen[p].set[kind] ELSE current.active[kind]]

(* It is updated at once, if the set stays compatible.                       *)
AutoUpdate(p) ==
  /\ pc[p] = "check" /\ seen[p].next <= Len(Order)
  /\ Checked(p) \in Configured /\ CheckPasses(p) /\ UpdateAvailable(p)
  /\ LET kind == Checked(p)
     IN /\ CompatibleSet([Baseline(p) EXCEPT ![kind] = Payload(kind).latest], Bare(p) \ {kind})
        /\ Choose(p, [k \in {kind} |-> Payload(kind).latest])
        /\ todo' = [todo EXCEPT ![p] = <<kind>>]
        /\ Remember(p, [seen[p] EXCEPT !.next = @ + 1, !.updated = @ \cup {kind}])
  /\ Goto(p, "install")
  /\ UNCHANGED <<installed, current, published, file, jobs, starts, missed, raced>>

(* The set on disk is checked once more, and the updated Converter loaded    *)
(* unless --converter-path named another.                                    *)
KeepsLoaded(p) == seen[p].set["converter"]   \* mutant: the first one stays loaded
LoadedConverter(p) ==
  IF /\ task[p].choice = "managed" /\ "converter" \in seen[p].updated
     /\ current.active["converter"] # None
  THEN current.active["converter"] ELSE seen[p].set["converter"]

FinalCheck(p) ==
  /\ pc[p] = "check" /\ seen[p].next > Len(Order)
  /\ CompatibleSet(Baseline(p), Bare(p))
  /\ Remember(p, [seen[p] EXCEPT !.set = [@ EXCEPT !["converter"] = LoadedConverter(p)]])
  /\ Goto(p, "create")
  /\ UNCHANGED <<installed, current, published, task, todo, file, jobs, starts, missed, raced>>

(* jobs.create: the running Workflow, the loaded Converter and the Knowledge *)
(* that is active now are pinned.                                            *)
Pins(p) ==
  [workflow |-> seen[p].running, converter |-> seen[p].set["converter"],
   knowledge |-> current.active["knowledge"]]

(* What is pinned, the kinds known by version only, by which way, and whether*)
(* no other command wrote current.json since this one started.               *)
Pinned(p, pins, by) ==
  [pins |-> pins, by |-> by, alone |-> missed[p] = "none",
   plain |-> PlainOf(current.active)
               \cup {kind \in {"converter"} : by = "explicit" /\ current.active[kind] = None}]

Create(p, pins, by) ==
  /\ jobs' = jobs \cup {Pinned(p, pins, by)}
  /\ Clear(p)
  /\ UNCHANGED <<installed, current, published, starts, raced>>

CreateJob(p) == pc[p] = "create" /\ Create(p, Pins(p), task[p].choice)

(* refreshRuntimePins: a Refresh pins what is active, all of it managed.     *)
PinRefresh(p) ==
  /\ pc[p] = "create"
  /\ CompatibleSet(current.active, {})
  /\ current.active["converter"] = seen[p].set["converter"]
  /\ \A kind \in Kinds : current.active[kind] # None
  /\ Create(p, current.active, "refresh")

(* job create: a Job that pins what is active, and the running Workflow,     *)
(* without any check.                                                        *)
StartCreate(p) == Start(p, "create", {}, NoVersions, "none", "pin")

PinCurrent(p) ==
  /\ pc[p] = "pin"
  /\ Create(p, [current.active EXCEPT !["workflow"] = seen[p].running], "create")

-----------------------------------------------------------------------------
Next ==
  \/ Publish
  \/ \E p \in Commands :
       \/ StartApply(p) \/ StartInstall(p) \/ StartActivate(p) \/ StartRollback(p)
       \/ StartJob(p) \/ StartCreate(p)
       \/ Plan(p) \/ EvaluateInstall(p) \/ InstallNext(p) \/ Installed(p)
       \/ AssertFits(p) \/ Commit(p) \/ Write(p)
       \/ Vet(p) \/ Revert(p)
       \/ LoadConverter(p) \/ KeepVersion(p) \/ AutoUpdate(p) \/ FinalCheck(p)
       \/ CreateJob(p) \/ PinRefresh(p) \/ PinCurrent(p)
       \/ Stop(p)

Spec == Init /\ [][Next]_vars

-----------------------------------------------------------------------------
TypeOK ==
  /\ \A kind \in Kinds : installed[kind] \subseteq Versions
  /\ current.active \in Sets
  /\ Len(current.history) <= HistoryLimit
  /\ \A i \in DOMAIN current.history :
       current.history[i] \in [kind : Kinds, version : Versions]
  /\ \A p \in Commands :
       /\ pc[p] \in {"idle", "plan", "evaluate", "install", "assert", "commit", "write",
                     "vet", "revert", "load", "check", "create", "pin"}
       /\ \A k \in DOMAIN task[p].new : k \in Kinds /\ task[p].new[k] \in Versions
       /\ seen[p].set \in Sets /\ seen[p].next \in 1 .. Len(Order) + 1
       /\ missed[p] \in {"none", "before", "after"}
  /\ \A job \in jobs : job.pins \in Sets /\ job.pins["workflow"] # None

(* A rollback changes something: the entry it would return to is never the   *)
(* version that is already active, also after activations of the same        *)
(* version, rollbacks of rollbacks, and commands that overlap.               *)
RollbackReturns ==
  \A kind \in Kinds :
    Returnable(current, kind) # {} => Target(current, kind) # current.active[kind]

(* The active runtimes accept each other, whichever commands overlap and     *)
(* wherever one is cut: after every setup, update, activation, rollback and  *)
(* automatic update.  The one way out is an activation whose check missed    *)
(* another command's write, since activateSet does not check the set again;  *)
(* a rollback, whose check is on what it writes, never is.  A Converter      *)
(* alone is not held against the launcher's Workflow until a Job uses it.    *)
SetStaysCompatible ==
  ~raced /\ (current.active["workflow"] # None \/ current.active["knowledge"] # None)
    => CompatibleSet(WithBundled(current.active), PlainOf(current.active))

(* What a Job or a Refresh pins fits together: a Refresh's always; a Job's   *)
(* unless another command wrote current.json while it was prepared, also     *)
(* when updates replaced some runtimes one at a time.  A Converter of        *)
(* --converter-path is held against the others only when none is active, and *)
(* job create only takes over an active set that fits.                       *)
Vouched(job) ==
  CASE job.by = "refresh" -> TRUE
    [] job.by = "managed" -> job.alone
    [] job.by = "explicit" -> job.alone /\ "converter" \in job.plain
    [] job.by = "create" ->
         job.alone /\ ~raced /\ (job.pins["knowledge"] # None \/ "workflow" \notin job.plain)

JobsAreCompatible == \A job \in jobs : Vouched(job) => CompatibleSet(job.pins, job.plain)
=============================================================================

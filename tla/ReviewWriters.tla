------------------------------ MODULE ReviewWriters ------------------------------
(***************************************************************************)
(* Who may write a revision of a V5 target: the Reviews of one target, the  *)
(* registry their write conflicts are judged by, and the succession from    *)
(* the Reviews of the old revision to the Review of a Refresh.  Sources:    *)
(* src/src/reviews/review-store.js and                                      *)
(* src/src/refresh/refresh-apply-orchestrator.js.                           *)
(*                                                                          *)
(* Every store operation holds the registry lock, which excludes the        *)
(* others: it is one action.  It writes the Review's state.json first and   *)
(* registry.json last, and a process may be killed between the two (`dies`), *)
(* which matters where the capability or the revision of a Review changes: a *)
(* status the registry has missed only makes it see a conflict too many.     *)
(* The runs that wait in between, a repair and a Refresh, hold the target   *)
(* write lease and interleave with every operation that does not take it.   *)
(*                                                                          *)
(* A Review's own work (TargetRepair) and a Refresh up to its write         *)
(* (Refresh) are cut down to the steps the registry and the succession see. *)
(* A revision (workId) is a number.  A Review is known once its creation    *)
(* has returned or it is listed.                                            *)
(***************************************************************************)
EXTENDS Naturals, FiniteSets

CONSTANTS
  Reviews,      \* ids of Reviews that may be created
  Refreshes,    \* ids of Refreshes of the target
  NoReview,     \* no state.json, or no entry in registry.json
  NoRefresh,    \* refreshId or supersession is null
  Free,         \* nobody holds the target write lease
  MaxRevision,  \* bound: revisions after the first
  MaxKills      \* bound: processes killed

ASSUME BoundAssumption == MaxRevision \in Nat /\ MaxKills \in Nat
ASSUME NameAssumption ==
  /\ NoReview \notin Reviews /\ NoRefresh \notin Refreshes
  /\ Reviews \cap Refreshes = {} /\ Free \notin Reviews \cup Refreshes

VARIABLES
  review,   \* state.json of each Review
  entry,    \* registry.json: each Review as it was last entered
  seen,     \* the revision of each Review's latest observation of a change
  batch,    \* the Repair Batch whose write is out, and the revision it made
  target,   \* platform: the current revision
  lease,    \* who holds the target write lease
  refresh,  \* state.json of each Refresh
  run,      \* what the command that works on each Refresh does next
  kills,    \* processes killed
  history   \* what happened, for the properties only

vars == <<review, entry, seen, batch, target, lease, refresh, run, kills, history>>
platform == <<batch, target, lease>>
succession == <<refresh, run>>

-----------------------------------------------------------------------------
(* TERMINAL_REVIEW_STATES, REFRESH_UNSAFE_REVIEW_STATES                      *)
Terminal == {"RUNTIME_PARITY_PASSED", "REVIEW_SUPERSEDED_BY_REFRESH"}
Unsafe ==            \* in RUNTIME_TESTING a cycle is active
  {"RUNTIME_TESTING", "READY_TO_UPDATE_TARGET", "TARGET_UPDATED",
   "TARGET_EXTERNALLY_MODIFIED"}

(* What a Review's own work does to its status, by way of any others; a      *)
(* cycle after a repair begins and ends in one step, since TARGET_UPDATED is *)
(* as unsafe as RUNTIME_RETESTING.                                           *)
Works ==
  [REVIEW_OPEN |-> {"RUNTIME_TESTING"},
   RUNTIME_TESTING |-> {"RUNTIME_PARITY_PASSED", "DIAGNOSING"},
   DIAGNOSING |-> {"READY_TO_UPDATE_TARGET"},
   READY_TO_UPDATE_TARGET |-> {},
   BLOCKED_PLATFORM_RUNTIME |-> {},
   TARGET_UPDATED |-> {"RUNTIME_PARITY_PASSED", "DIAGNOSING"},
   TARGET_EXTERNALLY_MODIFIED |-> {},
   LOCAL_VALIDATING |-> {"DIAGNOSING"}]

Statuses == Terminal \cup DOMAIN Works
Revisions == 0 .. MaxRevision
Record ==
  [status : Statuses, capability : {"READ_ONLY", "WRITE"}, baseline : Revisions,
   refresh : Refreshes \cup {NoRefresh}, supersession : Refreshes \cup {NoRefresh}]
ASSUME RecordAssumption == NoReview \notin Record
Opened(capability, baseline, by) ==
  [status |-> "REVIEW_OPEN", capability |-> capability, baseline |-> baseline,
   refresh |-> by, supersession |-> NoRefresh]

Steps == {"idle", "write", "check", "create", "supersede", "enable", "record"}
IdleRun == [step |-> "idle", review |-> NoReview, superseded |-> {}]

Init ==
  /\ review = [r \in Reviews |-> NoReview]
  /\ entry = [r \in Reviews |-> NoReview]
  /\ seen = [r \in Reviews |-> 0]
  /\ batch = [r \in Reviews |-> [state |-> "NONE", made |-> 0]]
  /\ target = 0                              \* the revision the Job created
  /\ lease = Free
  /\ refresh = [f \in Refreshes |->
                  [status |-> "none", from |-> 0, to |-> 0,
                   review |-> NoReview, superseded |-> {}]]
  /\ run = [f \in Refreshes |-> IdleRun]
  /\ kills = 0
  /\ history = [unchecked |-> {}, held |-> [f \in Refreshes |-> {}]]

Known(r) == entry[r] # NoReview
KillHappens == kills < MaxKills /\ kills' = kills + 1

(* state.json and, unless the process dies, registry.json of r.              *)
Store(r, state, dies) ==
  /\ review' = [review EXCEPT ![r] = state]
  /\ IF dies THEN KillHappens /\ UNCHANGED entry
             ELSE entry' = [entry EXCEPT ![r] = state] /\ UNCHANGED kills

(* unchecked: Reviews whose revision no conflict check has admitted, or that *)
(* the registry does not show.                                               *)
Checked(r, dies) ==
  history' = [history EXCEPT
    !.unchecked = IF dies THEN @ \cup {r} ELSE @,
    !.held = [f \in Refreshes |-> @[f] \ IF dies THEN {r} ELSE {}]]
(* held: WRITE Reviews of the old revision that have not left it.            *)
Moved(r, unseen) ==
  history' = [unchecked |-> IF unseen THEN history.unchecked \cup {r}
                                      ELSE history.unchecked \ {r},
              held |-> [f \in Refreshes |-> history.held[f] \ {r}]]

Writes(x) == x # NoReview /\ x.capability = "WRITE" /\ x.status \notin Terminal

(* #assertNoWriteConflict throws: it knows only what the registry shows.     *)
OpenConflict(r, revision) ==   \* mutant: only Reviews that have not started conflict
  \E s \in Reviews \ {r} :
    Writes(entry[s]) /\ entry[s].status = "REVIEW_OPEN" /\ entry[s].baseline = revision
Conflict(r, revision) ==
  \E s \in Reviews \ {r} : Writes(entry[s]) /\ entry[s].baseline = revision

-----------------------------------------------------------------------------
(* create: on the revision of the Job, whatever the target shows now.        *)
CreateReview(r, capability, dies) ==
  /\ review[r] = NoReview
  /\ capability = "WRITE" => ~Conflict(r, 0)
  /\ Store(r, Opened(capability, 0, NoRefresh), dies)
  /\ Checked(r, dies)
  /\ UNCHANGED <<seen, platform, succession>>

(* observeTargetRevision, of a revision that was current when it was read.   *)
(* An earlier observation can be accepted too: it is the latest if it is     *)
(* made again.                                                               *)
ObserveTargetRevision(r, revision) ==
  LET changed == revision # review[r].baseline IN
  /\ Known(r)
  /\ changed => review[r].status \notin Terminal
  /\ seen' = IF changed THEN [seen EXCEPT ![r] = revision] ELSE seen
  /\ Store(r, IF changed THEN [review[r] EXCEPT !.status = "TARGET_EXTERNALLY_MODIFIED"]
                         ELSE review[r], FALSE)
  /\ UNCHANGED <<platform, succession, history>>

(* acceptExternalRevision, with the USER finding that asks for it.           *)
AcceptExternalRevision(r, dies) ==
  /\ Known(r)
  /\ review[r].status = "TARGET_EXTERNALLY_MODIFIED"
  /\ review[r].capability = "WRITE" => ~Conflict(r, seen[r])
  /\ Store(r, [review[r] EXCEPT !.baseline = seen[r], !.status = "LOCAL_VALIDATING"], dies)
  /\ seen' = [seen EXCEPT ![r] = 0]
  /\ Moved(r, dies)
  /\ UNCHANGED <<platform, succession>>

(* A step of the Review's own work; a cycle is prepared under the lease, a   *)
(* Repair Batch takes a WRITE Review.                                        *)
Work(r, status) ==
  /\ Known(r)
  /\ review[r].status \in DOMAIN Works
  /\ status \in Works[review[r].status]
  /\ status = "RUNTIME_TESTING" \/ review[r].status = "TARGET_UPDATED" => lease = Free
  /\ status = "READY_TO_UPDATE_TARGET" => review[r].capability = "WRITE"
  /\ Store(r, [review[r] EXCEPT !.status = status], FALSE)
  /\ UNCHANGED <<seen, platform, succession, history>>

(* The run of a Repair Batch: prepareTargetRepairWrite and its preflight,    *)
(* the save, confirmTargetRepairWrite or markTargetRepairUncertain.          *)
PrepareTargetRepairWrite(r) ==
  /\ Known(r) /\ lease = Free
  /\ review[r].status = "READY_TO_UPDATE_TARGET" /\ batch[r].state = "NONE"
  /\ target = review[r].baseline
  /\ lease' = r
  /\ batch' = [batch EXCEPT ![r].state = "WRITE_REQUESTED"]
  /\ Store(r, review[r], FALSE)
  /\ UNCHANGED <<seen, target, succession, history>>

SaveWork(r) ==
  /\ lease = r /\ batch[r].made = 0 /\ target < MaxRevision
  /\ target' = target + 1
  /\ batch' = [batch EXCEPT ![r].made = target + 1]
  /\ UNCHANGED <<review, entry, seen, lease, succession, kills, history>>

(* No conflict is looked for: the revision is the one this Review wrote.     *)
ConfirmTargetRepairWrite(r, dies) ==
  /\ \/ lease = r /\ review[r].status = "READY_TO_UPDATE_TARGET"
     \/ /\ lease = Free /\ batch[r].state = "WRITE_OUTCOME_UNKNOWN"      \* reconcile
        /\ review[r].status = "BLOCKED_PLATFORM_RUNTIME"
  /\ batch[r].made # 0 /\ batch[r].made = target
  /\ batch' = [batch EXCEPT ![r] = [state |-> "NONE", made |-> 0]]
  /\ lease' = Free
  /\ Store(r, [review[r] EXCEPT !.baseline = target, !.status = "TARGET_UPDATED"], dies)
  /\ Moved(r, TRUE)
  /\ UNCHANGED <<seen, target, succession>>

MarkTargetRepairUncertain(r) ==
  /\ lease = r
  /\ lease' = Free
  /\ batch' = [batch EXCEPT ![r].state = "WRITE_OUTCOME_UNKNOWN"]
  /\ IF review[r].status = "READY_TO_UPDATE_TARGET"
       THEN Store(r, [review[r] EXCEPT !.status = "BLOCKED_PLATFORM_RUNTIME"], FALSE)
       ELSE UNCHANGED <<review, entry, kills>>
  /\ UNCHANGED <<seen, target, succession, history>>

-----------------------------------------------------------------------------
(* #assertReviewRefreshSafe does not throw.                                  *)
RefreshSafe(r) ==
  review[r].status \notin Unsafe /\ batch[r].state = "NONE"

(* assertRefreshSuccessionSafe                                               *)
SuccessionSafe(revision) ==
  \A r \in Reviews :
    Known(r) /\ entry[r].baseline = revision /\ entry[r].capability = "WRITE"
      => RefreshSafe(r)

Goto(f, step) == run' = [run EXCEPT ![f].step = step]
(* The command on f ends, fails or is killed, and gives the lease back.      *)
Stop(f) == lease' = Free /\ run' = [run EXCEPT ![f] = IdleRun]
(* It goes on to a step unless it died.                                      *)
GoOn(f, state, dies) ==
  IF dies THEN Stop(f) ELSE run' = [run EXCEPT ![f] = state] /\ UNCHANGED lease

(* prepare pins the revision it saw.                                         *)
PrepareRefresh(f) ==
  /\ refresh[f].status = "none"
  /\ refresh' = [refresh EXCEPT ![f].status = "prepared", ![f].from = target]
  /\ UNCHANGED <<review, entry, seen, platform, run, kills, history>>

(* run: the plan is current, the Reviews of its target are safe.             *)
StartApply(f) ==
  /\ refresh[f].status = "prepared" /\ lease = Free
  /\ refresh[f].from = target /\ SuccessionSafe(target)
  /\ lease' = f
  /\ Goto(f, "write")
  /\ UNCHANGED <<review, entry, seen, batch, target, refresh, kills, history>>

(* The save and confirmWrite; what else may become of it is in Refresh.      *)
ApplyWrite(f) ==
  /\ run[f].step = "write" /\ target < MaxRevision
  /\ target' = target + 1
  /\ refresh' = [refresh EXCEPT ![f].status = "refreshed", ![f].to = target + 1]
  /\ Goto(f, "check")
  /\ history' = [history EXCEPT !.held[f] =
       {r \in Reviews \ history.unchecked :
          Writes(review[r]) /\ review[r].baseline = refresh[f].from}]
  /\ UNCHANGED <<review, entry, seen, batch, lease, kills>>

(* finalize, after an apply that did not get to the end                      *)
StartFinalize(f) ==
  /\ refresh[f].status = "refreshed" /\ lease = Free
  /\ lease' = f
  /\ Goto(f, "check")
  /\ UNCHANGED <<review, entry, seen, batch, target, refresh, kills, history>>

Check(f) ==
  /\ run[f].step = "check"
  /\ IF SuccessionSafe(refresh[f].from) THEN Goto(f, "create") /\ UNCHANGED lease
                                        ELSE Stop(f)
  /\ UNCHANGED <<review, entry, seen, batch, target, refresh, kills, history>>

(* createFromRefresh: the listed Review of this Refresh, or a new one.       *)
ReviewOf(f) == {r \in Reviews : Known(r) /\ entry[r].refresh = f}

CreateFromRefresh(f, r, dies) ==
  /\ run[f].step = "create"
  /\ IF ReviewOf(f) # {}
       THEN /\ r \in ReviewOf(f) /\ ~dies
            /\ UNCHANGED <<review, entry, kills, history>>
       ELSE /\ review[r] = NoReview
            /\ Store(r, Opened("READ_ONLY", refresh[f].to, f), dies)
            /\ Checked(r, dies)
  /\ GoOn(f, [run[f] EXCEPT !.step = "supersede", !.review = r], dies)
  /\ UNCHANGED <<seen, batch, target, refresh>>

(* supersedeForRefresh: the entries of the old revision, one by one.         *)
Entered(f) == {r \in Reviews : Known(r) /\ entry[r].baseline = refresh[f].from}
Superseded(r) == review[r].status = "REVIEW_SUPERSEDED_BY_REFRESH"
Uncounted(f) == {}   \* mutant: what an earlier attempt superseded is not counted
Counted(f) == {r \in Entered(f) : Superseded(r) /\ review[r].supersession = f}
StartedDue(f) ==     \* mutant: an open Review keeps its capability
  {r \in Entered(f) : review[r].capability = "WRITE" /\ review[r].status # "REVIEW_OPEN"}
Due(f) == {r \in Entered(f) : ~Superseded(r) /\ review[r].capability = "WRITE"}
Supersede(f, r) ==
  [review[r] EXCEPT !.capability = "READ_ONLY", !.supersession = f,
                    !.status = "REVIEW_SUPERSEDED_BY_REFRESH"]

Supersedes(f, done, listed) ==
  /\ review' = [r \in Reviews |-> IF r \in done THEN Supersede(f, r) ELSE review[r]]
  /\ entry' = [r \in Reviews |-> IF r \in listed THEN Supersede(f, r) ELSE entry[r]]

SupersedeForRefresh(f) ==
  /\ run[f].step = "supersede"
  /\ \A r \in Due(f) : RefreshSafe(r)
  /\ Supersedes(f, Due(f), Due(f))
  /\ run' = [run EXCEPT ![f].step = "enable", ![f].superseded = Due(f) \cup Counted(f)]
  /\ UNCHANGED <<seen, platform, refresh, kills, history>>

(* It gets as far as `done`: another is busy, or the process is killed.      *)
SupersedeSome(f, done, dies) ==
  /\ run[f].step = "supersede"
  /\ \A r \in done : RefreshSafe(r)
  /\ IF dies THEN /\ KillHappens
                  /\ \E listed \in {done} \cup {done \ {r} : r \in done} : Supersedes(f, done, listed)
             ELSE /\ \E r \in Due(f) : ~RefreshSafe(r)
                  /\ Supersedes(f, done, done)
                  /\ UNCHANGED kills
  /\ Stop(f)
  /\ UNCHANGED <<seen, batch, target, refresh, history>>

(* enableRefreshReviewWrite                                                  *)
AnyStatus(r) == TRUE           \* mutant: the Review need not be open any more
StillOpen(r) == review[r].status = "REVIEW_OPEN"
MayWrite(r) ==
  /\ StillOpen(r)
  /\ review[r].capability # "WRITE" => ~Conflict(r, review[r].baseline)

EnableRefreshReviewWrite(f, dies) ==
  LET r == run[f].review IN
  /\ run[f].step = "enable"
  /\ MayWrite(r)
  /\ Store(r, [review[r] EXCEPT !.capability = "WRITE"], dies)
  /\ Checked(r, dies)
  /\ GoOn(f, [run[f] EXCEPT !.step = "record"], dies)
  /\ UNCHANGED <<seen, batch, target, refresh>>

RefuseRefreshReviewWrite(f) ==
  /\ run[f].step = "enable" /\ ~MayWrite(run[f].review)
  /\ Stop(f)
  /\ UNCHANGED <<review, entry, seen, batch, target, refresh, kills, history>>

(* recordReviewSuccession                                                    *)
RecordReviewSuccession(f) ==
  /\ run[f].step = "record"
  /\ refresh' = [refresh EXCEPT ![f].status = "recorded", ![f].review = run[f].review,
                                ![f].superseded = run[f].superseded]
  /\ Stop(f)
  /\ UNCHANGED <<review, entry, seen, batch, target, kills, history>>

-----------------------------------------------------------------------------
(* The holder of the lease is killed between two steps.                      *)
Kill ==
  /\ lease # Free
  /\ KillHappens
  /\ lease' = Free
  /\ run' = [f \in Refreshes |-> IF f = lease THEN IdleRun ELSE run[f]]
  /\ UNCHANGED <<review, entry, seen, batch, target, refresh, history>>

(* Somebody saves the target outside the workflow.                           *)
EditTarget ==
  /\ target < MaxRevision
  /\ target' = target + 1
  /\ UNCHANGED <<review, entry, seen, batch, lease, succession, kills, history>>

ReviewStep(r) ==
  \/ \E dies \in BOOLEAN :
       \/ \E capability \in {"READ_ONLY", "WRITE"} : CreateReview(r, capability, dies)
       \/ AcceptExternalRevision(r, dies)
       \/ ConfirmTargetRepairWrite(r, dies)
  \/ \E revision \in 0 .. target : ObserveTargetRevision(r, revision)
  \/ \E status \in Statuses : Work(r, status)
  \/ PrepareTargetRepairWrite(r)
  \/ SaveWork(r)
  \/ MarkTargetRepairUncertain(r)

RefreshStep(f) ==
  \/ PrepareRefresh(f) \/ StartApply(f) \/ ApplyWrite(f)
  \/ StartFinalize(f) \/ Check(f)
  \/ SupersedeForRefresh(f)
  \/ RefuseRefreshReviewWrite(f) \/ RecordReviewSuccession(f)
  \/ \E dies \in BOOLEAN :
       \/ \E r \in Reviews : CreateFromRefresh(f, r, dies)
       \/ \E done \in SUBSET Due(f) : SupersedeSome(f, done, dies)
       \/ EnableRefreshReviewWrite(f, dies)

Next ==
  \/ \E r \in Reviews : ReviewStep(r)
  \/ \E f \in Refreshes : RefreshStep(f)
  \/ Kill
  \/ EditTarget

Spec == Init /\ [][Next]_vars

-----------------------------------------------------------------------------
TypeOK ==
  /\ review \in [Reviews -> Record \cup {NoReview}]
  /\ entry \in [Reviews -> Record \cup {NoReview}]
  /\ seen \in [Reviews -> Revisions]
  /\ batch \in [Reviews -> [state : {"NONE", "WRITE_REQUESTED", "WRITE_OUTCOME_UNKNOWN"},
                            made : Revisions]]
  /\ target \in Revisions
  /\ lease \in {Free} \cup Reviews \cup Refreshes
  /\ refresh \in [Refreshes ->
       [status : {"none", "prepared", "refreshed", "recorded"}, from : Revisions,
        to : Revisions, review : Reviews \cup {NoReview}, superseded : SUBSET Reviews]]
  /\ run \in [Refreshes ->
       [step : Steps, review : Reviews \cup {NoReview}, superseded : SUBSET Reviews]]
  /\ kills \in 0 .. MaxKills
  /\ history \in [unchecked : SUBSET Reviews, held : [Refreshes -> SUBSET Reviews]]

(* Of the Reviews of a target, at most one that is not terminal may write a  *)
(* revision: what create, acceptExternalRevision and                         *)
(* enableRefreshReviewWrite look into the registry for.                      *)
BothWrite(r, s) ==
  r # s /\ Writes(review[r]) /\ Writes(review[s]) /\ review[r].baseline = review[s].baseline
OneWriterPerRevision == \A r, s \in Reviews : ~BothWrite(r, s)

(* The same, where the check can see it: one of two such Reviews got its     *)
(* revision by confirming a repair, which checks nothing, or was killed      *)
(* before its registry entry was written.                                    *)
OneWriterIfChecked ==
  \A r, s \in Reviews : BothWrite(r, s) => {r, s} \cap history.unchecked # {}

(* The Review of a Refresh gets its write capability after the Reviews that  *)
(* wrote the old revision have lost theirs, however often the succession is  *)
(* interrupted and repeated (#finalizeConfirmed).                            *)
PredecessorsGiveUp ==
  \A f \in Refreshes : \A r \in ReviewOf(f) :
    Writes(review[r]) => \A s \in history.held[f] : ~Writes(review[s])

(* What recordReviewSuccession writes down once is what happened over all    *)
(* attempts: the one Review of this Refresh, and the Reviews it superseded.  *)
(* Only one that had left the old revision by a command killed before its    *)
(* registry entry was written, and is superseded all the same, can be        *)
(* missing: an interrupted attempt then moves its entry, and the next one    *)
(* looks for the entries of the old revision only.                           *)
SupersededBy(f) == {r \in Reviews : Known(r) /\ review[r].supersession = f}
SuccessionIsRecorded ==
  \A f \in Refreshes : refresh[f].status = "recorded" =>
    /\ ReviewOf(f) = {refresh[f].review}
    /\ refresh[f].superseded \subseteq SupersededBy(f)
    /\ \A r \in SupersededBy(f) \ refresh[f].superseded :
         review[r].baseline # refresh[f].from

(* A superseded Review stays as it is: nothing gives it back its capability, *)
(* moves it to another revision, or supersedes it a second time.             *)
SupersededIsFinal ==
  [][\A r \in Reviews :
       Known(r) /\ Superseded(r) => review'[r] = review[r]]_vars
==================================================================================

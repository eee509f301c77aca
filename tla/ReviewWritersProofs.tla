------------------------ MODULE ReviewWritersProofs ------------------------
(* Proofs about ReviewWriters, for any Reviews, Refreshes and bounds.        *)
EXTENDS ReviewWriters, TLAPS

-----------------------------------------------------------------------------
(* What the store does to the files and the histories.                       *)

OptionalRecord == Record \cup {NoReview}

LEMMA StatusesAre ==
  Statuses = {"REVIEW_OPEN", "RUNTIME_TESTING", "DIAGNOSING", "READY_TO_UPDATE_TARGET",
              "BLOCKED_PLATFORM_RUNTIME", "TARGET_UPDATED", "TARGET_EXTERNALLY_MODIFIED",
              "LOCAL_VALIDATING", "RUNTIME_PARITY_PASSED", "REVIEW_SUPERSEDED_BY_REFRESH"}
  BY DEF Statuses, Terminal, Works

(* A Review's own work takes it neither out of a terminal state nor into     *)
(* that of a superseded one.                                                 *)
LEMMA WorksAre ==
  ASSUME NEW from \in DOMAIN Works, NEW to \in Works[from]
  PROVE  /\ from \notin Terminal /\ to \in Statuses
         /\ to # "REVIEW_SUPERSEDED_BY_REFRESH"
  BY StatusesAre DEF Works, Terminal

LEMMA OpenedIsRecord ==
  ASSUME NEW capability \in {"READ_ONLY", "WRITE"}, NEW baseline \in Revisions,
         NEW by \in Refreshes \cup {NoRefresh}
  PROVE  Opened(capability, baseline, by) \in Record
  BY StatusesAre DEF Opened, Record

(* Changing the fields of a record leaves a record.                          *)
LEMMA RecordChanges ==
  ASSUME NEW x \in Record
  PROVE  /\ x # NoReview
         /\ \A s \in Statuses : [x EXCEPT !.status = s] \in Record
         /\ \A n \in Revisions, s \in Statuses :
              [x EXCEPT !.baseline = n, !.status = s] \in Record
         /\ [x EXCEPT !.capability = "WRITE"] \in Record
         /\ \A f \in Refreshes :
              [x EXCEPT !.capability = "READ_ONLY", !.supersession = f,
                        !.status = "REVIEW_SUPERSEDED_BY_REFRESH"] \in Record
<1>1. x # NoReview
  BY RecordAssumption
<1>2. "REVIEW_SUPERSEDED_BY_REFRESH" \in Statuses
  BY StatusesAre
<1> QED
  BY <1>1, <1>2, Zenon DEF Record

Files == <<review, entry, kills>>
FilesTyped ==
  /\ review \in [Reviews -> OptionalRecord] /\ entry \in [Reviews -> OptionalRecord]
  /\ kills \in 0 .. MaxKills

LEMMA StoreFacts ==
  ASSUME FilesTyped, NEW r \in Reviews, NEW state \in Record, NEW dies \in BOOLEAN,
         Store(r, state, dies)
  PROVE  /\ FilesTyped'
         /\ review'[r] = state
         /\ entry'[r] = IF dies THEN entry[r] ELSE state
         /\ \A s \in Reviews \ {r} : review'[s] = review[s] /\ entry'[s] = entry[s]
<1>1. kills' \in 0 .. MaxKills
  <2>1. kills' = kills \/ (kills < MaxKills /\ kills' = kills + 1)
    BY DEF Store, KillHappens
  <2> QED
    BY <2>1, BoundAssumption DEF FilesTyped
<1>2. state \in OptionalRecord
  BY DEF OptionalRecord
<1>3. review' = [review EXCEPT ![r] = state]
      /\ (dies => entry' = entry) /\ (~dies => entry' = [entry EXCEPT ![r] = state])
  BY DEF Store
<1> QED
  BY <1>1, <1>2, <1>3 DEF FilesTyped

HistoryTyped == history \in [unchecked : SUBSET Reviews, held : [Refreshes -> SUBSET Reviews]]

LEMMA CheckedFacts ==
  ASSUME HistoryTyped, NEW r \in Reviews, NEW dies \in BOOLEAN, Checked(r, dies)
  PROVE  /\ HistoryTyped'
         /\ dies => r \in history'.unchecked
         /\ ~dies => history'.unchecked = history.unchecked
         /\ \A s \in Reviews \ {r} : s \in history'.unchecked <=> s \in history.unchecked
         /\ \A f \in Refreshes : history'.held[f] \subseteq history.held[f]
<1> DEFINE u == IF dies THEN history.unchecked \cup {r} ELSE history.unchecked
           h == [f \in Refreshes |-> history.held[f] \ IF dies THEN {r} ELSE {}]
<1>1. u \in SUBSET Reviews /\ h \in [Refreshes -> SUBSET Reviews]
  BY DEF HistoryTyped
<1>2. history' = [history EXCEPT !.unchecked = u, !.held = h]
  BY DEF Checked
<1>3. history'.unchecked = u /\ history'.held = h
  <2> HIDE DEF u, h
  <2> QED
    BY <1>2 DEF HistoryTyped
<1>4. HistoryTyped'
  <2> HIDE DEF u, h
  <2> QED
    BY <1>1, <1>2, Zenon DEF HistoryTyped
<1> QED
  BY <1>3, <1>4

LEMMA MovedFacts ==
  ASSUME HistoryTyped, NEW r \in Reviews, NEW unseen \in BOOLEAN, Moved(r, unseen)
  PROVE  /\ HistoryTyped'
         /\ unseen => r \in history'.unchecked
         /\ \A s \in Reviews \ {r} : s \in history'.unchecked <=> s \in history.unchecked
         /\ \A f \in Refreshes :
              r \notin history'.held[f] /\ history'.held[f] \subseteq history.held[f]
<1> DEFINE u == IF unseen THEN history.unchecked \cup {r} ELSE history.unchecked \ {r}
           h == [f \in Refreshes |-> history.held[f] \ {r}]
<1>1. u \in SUBSET Reviews /\ h \in [Refreshes -> SUBSET Reviews]
  BY DEF HistoryTyped
<1>2. history' = [unchecked |-> u, held |-> h]
  BY DEF Moved
<1>3. history'.unchecked = u /\ history'.held = h
  <2> HIDE DEF u, h
  <2> QED
    BY <1>2
<1>4. HistoryTyped'
  <2> HIDE DEF u, h
  <2> QED
    BY <1>1, <1>2, Zenon DEF HistoryTyped
<1> QED
  BY <1>3, <1>4

-----------------------------------------------------------------------------
(* The inductive invariant.                                                  *)

(* A listed Review exists, and is listed under its own Refresh.              *)
ListedExists ==
  \A r \in Reviews : Known(r) => review[r] # NoReview /\ entry[r].refresh = review[r].refresh

(* The registry shows every writer whose revision a check has admitted.      *)
EntryShows ==
  \A r \in Reviews \ history.unchecked :
    Writes(review[r]) => Writes(entry[r]) /\ entry[r].baseline = review[r].baseline

(* Whoever writes the target for a batch, or did, is a listed Review.        *)
BatchesAreKnown ==
  \A r \in Reviews : lease = r \/ batch[r].state # "NONE" => Known(r)

(* A Refresh has one Review at most.                                         *)
OneReview == \A f \in Refreshes : \A r, s \in ReviewOf(f) : r = s

(* A command on a Refresh works under the lease, on a Refresh whose write it *)
(* is about to make or has made, and knows its Review from its creation on.  *)
Succeeding(f) == run[f].step \in {"supersede", "enable", "record"}
CommandsHoldLease ==
  \A f \in Refreshes :
    /\ run[f].step # "idle" => lease = f
    /\ run[f].step = "write" => refresh[f].status = "prepared"
    /\ run[f].step \notin {"idle", "write"} => refresh[f].status = "refreshed"
    /\ Succeeding(f) => run[f].review \in Reviews /\ ReviewOf(f) = {run[f].review}
    /\ refresh[f].status = "recorded" => ReviewOf(f) = {refresh[f].review}

(* Before its write a Refresh has no Review, no predecessor, and superseded  *)
(* none.                                                                     *)
Unwritten(f) == refresh[f].status \in {"none", "prepared"}
NothingBeforeWrite ==
  \A f \in Refreshes : Unwritten(f) =>
    ReviewOf(f) = {} /\ SupersededBy(f) = {} /\ history.held[f] = {}

(* A Review superseded by f is so for good, and as long as it is of the old  *)
(* revision its entry is too.                                                *)
SupersededStay ==
  \A f \in Refreshes : \A r \in SupersededBy(f) :
    Superseded(r) /\ (review[r].baseline = refresh[f].from => entry[r].baseline = refresh[f].from)

(* What has been superseded so far is what is to be recorded.                *)
Records(f, superseded) ==
  /\ superseded \subseteq SupersededBy(f)
  /\ \A r \in SupersededBy(f) \ superseded : review[r].baseline # refresh[f].from
RecordsAgree ==
  \A f \in Refreshes :
    /\ run[f].step \in {"enable", "record"} => Records(f, run[f].superseded)
    /\ refresh[f].status = "recorded" => Records(f, refresh[f].superseded)

(* A predecessor lost its write capability by being superseded only, and     *)
(* while it writes the registry shows it on the old revision.                *)
HeldAreListed ==
  \A f \in Refreshes : \A s \in history.held[f] :
    /\ review[s] # NoReview
    /\ review[s].capability = "WRITE" \/ Superseded(s)
    /\ Writes(review[s]) =>
         /\ Known(s) /\ entry[s].baseline = refresh[f].from
         /\ review[s].baseline = refresh[f].from

GaveUp(f) == \A s \in history.held[f] : ~Writes(review[s])
HeldGaveUp ==
  \A f \in Refreshes :
    run[f].step \in {"enable", "record"} \/ refresh[f].status = "recorded" => GaveUp(f)

IInv ==
  /\ TypeOK /\ ListedExists /\ EntryShows /\ BatchesAreKnown /\ OneReview
  /\ CommandsHoldLease /\ NothingBeforeWrite
  /\ SupersededStay /\ RecordsAgree /\ HeldAreListed /\ HeldGaveUp
  /\ OneWriterIfChecked /\ PredecessorsGiveUp

-----------------------------------------------------------------------------
(* What one step may do to one Review: every action is one of these.         *)
Unchecked(r) == r \in history.unchecked
SameCheck(r) == Unchecked(r)' <=> Unchecked(r)

Quiet(r) ==
  /\ review'[r] = review[r] /\ SameCheck(r)
  /\ entry'[r] = entry[r] \/ (Known(r) /\ entry'[r] = review[r])

Worked(r) ==
  /\ Known(r) /\ review[r].status \notin Terminal
  /\ review'[r] \in Record /\ entry'[r] = review'[r] /\ SameCheck(r)
  /\ review'[r].capability = review[r].capability
  /\ review'[r].baseline = review[r].baseline
  /\ review'[r].refresh = review[r].refresh
  /\ review'[r].supersession = review[r].supersession
  /\ review'[r].status # "REVIEW_SUPERSEDED_BY_REFRESH"

GivenUp(f, r) ==
  /\ run[f].step = "supersede" /\ r \in Due(f)
  /\ review'[r] = Supersede(f, r) /\ entry'[r] \in {entry[r], review'[r]} /\ SameCheck(r)

(* A Review that comes to write a revision is listed with it after a check,  *)
(* or known to the history as one that is not.                               *)
Admitted(r) ==
  /\ entry'[r] = review'[r] \/ (entry'[r] = entry[r] /\ Unchecked(r)')
  /\ \/ Unchecked(r)'
     \/ review'[r].capability # "WRITE"
     \/ ~Conflict(r, review'[r].baseline)
     \/ review'[r] = review[r] /\ ~Unchecked(r)

Opens(r) ==
  /\ review[r] = NoReview /\ Admitted(r)
  /\ review'[r] \in Record /\ review'[r].supersession = NoRefresh
  /\ \A f \in Refreshes : review'[r].refresh = f =>
       run[f].step = "create" /\ ReviewOf(f) = {} /\ review'[r].capability = "READ_ONLY"

Moves(r) ==
  /\ Known(r) /\ review[r].status \notin Terminal /\ Admitted(r)
  /\ review'[r] \in Record
  /\ review'[r].capability = review[r].capability
  /\ review'[r].refresh = review[r].refresh
  /\ review'[r].supersession = review[r].supersession
  /\ review'[r].status # "REVIEW_SUPERSEDED_BY_REFRESH"
  /\ \A f \in Refreshes : r \notin history'.held[f]

Enabled(f, r) ==
  /\ run[f].step = "enable" /\ run[f].review = r /\ Known(r) /\ Admitted(r)
  /\ review[r].status = "REVIEW_OPEN"
  /\ review'[r] = [review[r] EXCEPT !.capability = "WRITE"]

Gains(r) == Opens(r) \/ Moves(r) \/ \E f \in Refreshes : Enabled(f, r)

Loses(r) == Worked(r) \/ \E f \in Refreshes : GivenUp(f, r)

(* At most one Review gains anything in a step.                              *)
ReviewsMove ==
  \/ \A r \in Reviews : Quiet(r) \/ Loses(r)
  \/ \E r \in Reviews : Gains(r) /\ \A s \in Reviews \ {r} : Quiet(s)

LEMMA IsRecord ==
  ASSUME IInv, NEW r \in Reviews
  PROVE  /\ Known(r) => review[r] \in Record
         /\ review[r] # NoReview => review[r] \in Record
         /\ entry[r] # NoReview => entry[r] \in Record
  BY DEF IInv, TypeOK, ListedExists

LEMMA TypedParts ==
  ASSUME IInv
  PROVE  /\ FilesTyped /\ HistoryTyped
         /\ \A f \in Refreshes : Due(f) \subseteq Reviews /\ \A r \in Due(f) : Known(r)
         /\ \A r \in Reviews : seen[r] \in Revisions
         /\ target \in Revisions /\ 0 \in Revisions
  BY BoundAssumption DEF IInv, TypeOK, FilesTyped, OptionalRecord, HistoryTyped, Due, Entered,
     Revisions

(* Storing a Review's own work, or the Review unchanged.                     *)
LEMMA StoreWork ==
  ASSUME IInv, NEW r \in Reviews, Known(r), history' = history,
         NEW state \in Record, Store(r, state, FALSE),
         \/ state = review[r]
         \/ /\ review[r].status \notin Terminal
            /\ \E s \in Statuses \ {"REVIEW_SUPERSEDED_BY_REFRESH"} :
                 state = [review[r] EXCEPT !.status = s]
  PROVE  ReviewsMove /\ FilesTyped'
<1>1. /\ FilesTyped' /\ review'[r] = state /\ entry'[r] = state
      /\ \A s \in Reviews \ {r} : review'[s] = review[s] /\ entry'[s] = entry[s]
  BY StoreFacts, TypedParts
<1>2. \A s \in Reviews : SameCheck(s)
  BY DEF SameCheck, Unchecked
<1>3. \A s \in Reviews \ {r} : Quiet(s)
  BY <1>1, <1>2 DEF Quiet
<1>4. CASE state = review[r]
  BY <1>1, <1>2, <1>3, <1>4 DEF Quiet, ReviewsMove
<1>5. CASE /\ review[r].status \notin Terminal
           /\ \E s \in Statuses \ {"REVIEW_SUPERSEDED_BY_REFRESH"} :
                state = [review[r] EXCEPT !.status = s]
  <2>1. PICK s \in Statuses \ {"REVIEW_SUPERSEDED_BY_REFRESH"} :
          state = [review[r] EXCEPT !.status = s]
    BY <1>5
  <2>2. review[r] \in Record
    BY IsRecord
  <2>3. /\ state.capability = review[r].capability /\ state.baseline = review[r].baseline
        /\ state.refresh = review[r].refresh /\ state.supersession = review[r].supersession
        /\ state.status = s
    BY <2>1, <2>2 DEF Record
  <2>4. Worked(r)
    BY <1>1, <1>2, <1>5, <2>3 DEF Worked
  <2> QED
    BY <1>1, <1>3, <2>4 DEF ReviewsMove, Loses
<1> QED
  BY <1>4, <1>5

LEMMA Untouched ==
  ASSUME IInv, UNCHANGED Files, history'.unchecked = history.unchecked
  PROVE  ReviewsMove /\ FilesTyped'
<1>1. review' = review /\ entry' = entry /\ kills' = kills
  BY DEF Files
<1>2. \A s \in Reviews : Quiet(s)
  BY <1>1 DEF Quiet, SameCheck, Unchecked
<1> QED
  BY <1>1, <1>2, TypedParts DEF ReviewsMove, FilesTyped

(* A Review that may gain: the one it is stored for, listed unless it dies.  *)
LEMMA StoreGains ==
  ASSUME IInv, NEW r \in Reviews, NEW state \in Record, NEW dies \in BOOLEAN,
         Store(r, state, dies),
         dies => r \in history'.unchecked,
         \A s \in Reviews \ {r} : s \in history'.unchecked <=> s \in history.unchecked,
         \/ r \in history'.unchecked \/ state.capability # "WRITE"
         \/ ~Conflict(r, state.baseline)
         \/ state = review[r] /\ r \notin history.unchecked
  PROVE  /\ FilesTyped' /\ review'[r] = state /\ Admitted(r)
         /\ \A s \in Reviews \ {r} : Quiet(s)
<1>1. /\ FilesTyped' /\ review'[r] = state
      /\ entry'[r] = IF dies THEN entry[r] ELSE state
      /\ \A s \in Reviews \ {r} : review'[s] = review[s] /\ entry'[s] = entry[s]
  BY StoreFacts, TypedParts
<1>2. \A s \in Reviews \ {r} : Quiet(s)
  BY <1>1 DEF Quiet, SameCheck, Unchecked
<1>3. Admitted(r)
  BY <1>1 DEF Admitted, Unchecked
<1> QED
  BY <1>1, <1>2, <1>3

LEMMA CreateReviewMoves ==
  ASSUME IInv, NEW r \in Reviews, NEW capability \in {"READ_ONLY", "WRITE"},
         NEW dies \in BOOLEAN, CreateReview(r, capability, dies)
  PROVE  ReviewsMove /\ FilesTyped' /\ HistoryTyped'
<1> DEFINE x == Opened(capability, 0, NoRefresh)
<1>1. x \in Record /\ x.capability = capability /\ x.baseline = 0
      /\ x.supersession = NoRefresh /\ x.refresh = NoRefresh
  BY OpenedIsRecord, TypedParts DEF Opened
<1>2. review[r] = NoReview /\ (capability = "WRITE" => ~Conflict(r, 0))
      /\ Store(r, x, dies) /\ Checked(r, dies)
  BY DEF CreateReview
<1>3. HistoryTyped' /\ (dies => r \in history'.unchecked)
      /\ \A s \in Reviews \ {r} : s \in history'.unchecked <=> s \in history.unchecked
  BY <1>2, CheckedFacts, TypedParts
<1> HIDE DEF x
<1>4. FilesTyped' /\ review'[r] = x /\ Admitted(r) /\ \A s \in Reviews \ {r} : Quiet(s)
  BY <1>1, <1>2, <1>3, StoreGains
<1>5. Opens(r)
  BY <1>1, <1>2, <1>4, NameAssumption DEF Opens
<1> QED
  BY <1>3, <1>4, <1>5 DEF ReviewsMove, Gains

LEMMA ObserveMoves ==
  ASSUME IInv, NEW r \in Reviews, NEW revision \in 0 .. target,
         ObserveTargetRevision(r, revision)
  PROVE  ReviewsMove /\ FilesTyped'
<1> DEFINE changed == revision # review[r].baseline
           x == IF changed THEN [review[r] EXCEPT !.status = "TARGET_EXTERNALLY_MODIFIED"]
                           ELSE review[r]
<1>1. /\ Known(r) /\ history' = history /\ Store(r, x, FALSE)
      /\ (changed => review[r].status \notin Terminal)
  BY DEF ObserveTargetRevision
<1>2. review[r] \in Record /\ "TARGET_EXTERNALLY_MODIFIED" \in Statuses
  BY <1>1, IsRecord, StatusesAre
<1>3. x \in Record
  BY <1>2, RecordChanges
<1>4. x = review[r] \/ (review[r].status \notin Terminal /\
        \E s \in Statuses \ {"REVIEW_SUPERSEDED_BY_REFRESH"} :
          x = [review[r] EXCEPT !.status = s])
  BY <1>1, <1>2
<1> HIDE DEF x
<1> QED
  BY <1>1, <1>3, <1>4, StoreWork

LEMMA AcceptMoves ==
  ASSUME IInv, NEW r \in Reviews, NEW dies \in BOOLEAN, AcceptExternalRevision(r, dies)
  PROVE  ReviewsMove /\ FilesTyped' /\ HistoryTyped'
<1> DEFINE x == [review[r] EXCEPT !.baseline = seen[r], !.status = "LOCAL_VALIDATING"]
<1>1. /\ Known(r) /\ review[r].status = "TARGET_EXTERNALLY_MODIFIED"
      /\ (review[r].capability = "WRITE" => ~Conflict(r, seen[r]))
      /\ Store(r, x, dies) /\ Moved(r, dies)
  BY DEF AcceptExternalRevision
<1>2. review[r] \in Record /\ "LOCAL_VALIDATING" \in Statuses /\ seen[r] \in Revisions
  BY <1>1, IsRecord, StatusesAre, TypedParts
<1>3. /\ x \in Record /\ x.capability = review[r].capability /\ x.baseline = seen[r]
      /\ x.refresh = review[r].refresh /\ x.supersession = review[r].supersession
      /\ x.status = "LOCAL_VALIDATING"
  <2>1. x \in Record
    BY <1>2, RecordChanges
  <2> QED
    BY <1>2, <2>1 DEF Record
<1>4. /\ HistoryTyped' /\ (dies => r \in history'.unchecked)
      /\ \A s \in Reviews \ {r} : s \in history'.unchecked <=> s \in history.unchecked
      /\ \A f \in Refreshes : r \notin history'.held[f]
  BY <1>1, MovedFacts, TypedParts
<1> HIDE DEF x
<1>5. FilesTyped' /\ review'[r] = x /\ Admitted(r) /\ \A s \in Reviews \ {r} : Quiet(s)
  BY <1>1, <1>3, <1>4, StoreGains
<1>6. Moves(r)
  BY <1>1, <1>3, <1>4, <1>5 DEF Moves, Terminal
<1> QED
  BY <1>4, <1>5, <1>6 DEF ReviewsMove, Gains

LEMMA WorkMoves ==
  ASSUME IInv, NEW r \in Reviews, NEW status \in Statuses, Work(r, status)
  PROVE  ReviewsMove /\ FilesTyped'
<1> DEFINE x == [review[r] EXCEPT !.status = status]
<1>1. /\ Known(r) /\ review[r].status \in DOMAIN Works /\ status \in Works[review[r].status]
      /\ Store(r, x, FALSE) /\ history' = history
  BY DEF Work
<1>2. review[r].status \notin Terminal /\ status # "REVIEW_SUPERSEDED_BY_REFRESH"
  BY <1>1, WorksAre
<1>3. review[r] \in Record /\ x \in Record
  BY <1>1, IsRecord, RecordChanges
<1> QED
  BY <1>1, <1>2, <1>3, StoreWork

LEMMA ConfirmMoves ==
  ASSUME IInv, NEW r \in Reviews, NEW dies \in BOOLEAN, ConfirmTargetRepairWrite(r, dies)
  PROVE  ReviewsMove /\ FilesTyped' /\ HistoryTyped'
<1> DEFINE x == [review[r] EXCEPT !.baseline = target, !.status = "TARGET_UPDATED"]
<1>1. /\ review[r].status \in {"READY_TO_UPDATE_TARGET", "BLOCKED_PLATFORM_RUNTIME"}
      /\ Store(r, x, dies) /\ Moved(r, TRUE) /\ Known(r)
  BY DEF ConfirmTargetRepairWrite, IInv, BatchesAreKnown
<1>2. review[r] \in Record /\ "TARGET_UPDATED" \in Statuses /\ target \in Revisions
  BY <1>1, IsRecord, StatusesAre, TypedParts
<1>3. /\ x \in Record /\ x.capability = review[r].capability
      /\ x.refresh = review[r].refresh /\ x.supersession = review[r].supersession
      /\ x.status = "TARGET_UPDATED"
  <2>1. x \in Record
    BY <1>2, RecordChanges
  <2> QED
    BY <1>2, <2>1 DEF Record
<1>4. /\ HistoryTyped' /\ r \in history'.unchecked
      /\ \A s \in Reviews \ {r} : s \in history'.unchecked <=> s \in history.unchecked
      /\ \A f \in Refreshes : r \notin history'.held[f]
  BY <1>1, MovedFacts, TypedParts
<1> HIDE DEF x
<1>5. FilesTyped' /\ review'[r] = x /\ Admitted(r) /\ \A s \in Reviews \ {r} : Quiet(s)
  BY <1>1, <1>3, <1>4, StoreGains
<1>6. Moves(r)
  BY <1>1, <1>3, <1>4, <1>5 DEF Moves, Terminal
<1> QED
  BY <1>4, <1>5, <1>6 DEF ReviewsMove, Gains

LEMMA PrepareMoves ==
  ASSUME IInv, NEW r \in Reviews, PrepareTargetRepairWrite(r)
  PROVE  ReviewsMove /\ FilesTyped'
<1>1. Known(r) /\ Store(r, review[r], FALSE) /\ history' = history
  BY DEF PrepareTargetRepairWrite
<1>2. review[r] \in Record
  BY <1>1, IsRecord
<1> QED
  BY <1>1, <1>2, StoreWork

LEMMA MarkMoves ==
  ASSUME IInv, NEW r \in Reviews, MarkTargetRepairUncertain(r)
  PROVE  ReviewsMove /\ FilesTyped'
<1> DEFINE x == [review[r] EXCEPT !.status = "BLOCKED_PLATFORM_RUNTIME"]
<1>1. Known(r) /\ history' = history
  BY DEF MarkTargetRepairUncertain, IInv, BatchesAreKnown
<1>2. CASE review[r].status = "READY_TO_UPDATE_TARGET"
  <2>1. Store(r, x, FALSE) /\ review[r].status \notin Terminal
    BY <1>2 DEF MarkTargetRepairUncertain, Terminal
  <2>2. "BLOCKED_PLATFORM_RUNTIME" \in Statuses \ {"REVIEW_SUPERSEDED_BY_REFRESH"}
    BY StatusesAre
  <2>3. x \in Record
    BY <1>1, <2>2, IsRecord, RecordChanges
  <2> QED
    BY <1>1, <2>1, <2>2, <2>3, StoreWork
<1>3. CASE review[r].status # "READY_TO_UPDATE_TARGET"
  <2>1. UNCHANGED Files
    BY <1>3 DEF MarkTargetRepairUncertain, Files
  <2> QED
    BY <1>1, <2>1, Untouched
<1> QED
  BY <1>2, <1>3

LEMMA CreateFromRefreshMoves ==
  ASSUME IInv, NEW f \in Refreshes, NEW r \in Reviews, NEW dies \in BOOLEAN,
         CreateFromRefresh(f, r, dies)
  PROVE  ReviewsMove /\ FilesTyped' /\ HistoryTyped'
<1> DEFINE x == Opened("READ_ONLY", refresh[f].to, f)
<1>1. refresh[f].to \in Revisions
  BY DEF IInv, TypeOK
<1>2. CASE ReviewOf(f) # {}
  <2>1. UNCHANGED Files /\ history' = history
    BY <1>2 DEF CreateFromRefresh, Files
  <2> QED
    BY <2>1, Untouched, TypedParts DEF HistoryTyped
<1>3. CASE ReviewOf(f) = {}
  <2>1. x \in Record /\ x.capability = "READ_ONLY" /\ x.supersession = NoRefresh /\ x.refresh = f
    BY <1>1, OpenedIsRecord DEF Opened
  <2>2. run[f].step = "create" /\ review[r] = NoReview /\ Store(r, x, dies) /\ Checked(r, dies)
    BY <1>3 DEF CreateFromRefresh
  <2>3. HistoryTyped' /\ (dies => r \in history'.unchecked)
        /\ \A s \in Reviews \ {r} : s \in history'.unchecked <=> s \in history.unchecked
    BY <2>2, CheckedFacts, TypedParts
  <2> HIDE DEF x
  <2>4. FilesTyped' /\ review'[r] = x /\ Admitted(r) /\ \A s \in Reviews \ {r} : Quiet(s)
    BY <2>1, <2>2, <2>3, StoreGains
  <2>5. Opens(r)
    BY <1>3, <2>1, <2>2, <2>4 DEF Opens
  <2> QED
    BY <2>3, <2>4, <2>5 DEF ReviewsMove, Gains
<1> QED
  BY <1>2, <1>3

LEMMA SupersedesMoves ==
  ASSUME IInv, NEW f \in Refreshes, run[f].step = "supersede", history' = history,
         NEW done \in SUBSET Due(f), NEW listed \in SUBSET done, Supersedes(f, done, listed),
         kills' \in 0 .. MaxKills
  PROVE  ReviewsMove /\ FilesTyped'
<1>1. \A r \in done : r \in Reviews /\ Known(r) /\ review[r] \in Record
  BY TypedParts, IsRecord
<1>2. \A r \in done : Supersede(f, r) \in Record
  BY <1>1, RecordChanges DEF Supersede
<1>3. /\ review' = [r \in Reviews |-> IF r \in done THEN Supersede(f, r) ELSE review[r]]
      /\ entry' = [r \in Reviews |-> IF r \in listed THEN Supersede(f, r) ELSE entry[r]]
  BY DEF Supersedes
<1>4. FilesTyped'
  BY <1>2, <1>3, TypedParts DEF FilesTyped, OptionalRecord
<1>5. ASSUME NEW r \in Reviews PROVE Quiet(r) \/ GivenUp(f, r)
  <2>1. SameCheck(r)
    BY DEF SameCheck, Unchecked
  <2>2. CASE r \in done
    BY <1>3, <2>1, <2>2 DEF GivenUp
  <2>3. CASE r \notin done
    BY <1>3, <2>1, <2>3 DEF Quiet
  <2> QED
    BY <2>2, <2>3
<1> QED
  BY <1>4, <1>5 DEF ReviewsMove, Loses

LEMMA SupersedeForRefreshMoves ==
  ASSUME IInv, NEW f \in Refreshes, SupersedeForRefresh(f)
  PROVE  ReviewsMove /\ FilesTyped'
<1>1. kills' = kills /\ history' = history /\ run[f].step = "supersede"
      /\ Supersedes(f, Due(f), Due(f))
  BY DEF SupersedeForRefresh
<1>2. kills' \in 0 .. MaxKills
  BY <1>1, TypedParts DEF FilesTyped
<1> QED
  BY <1>1, <1>2, SupersedesMoves

LEMMA SupersedeSomeMoves ==
  ASSUME IInv, NEW f \in Refreshes, NEW done \in SUBSET Due(f), NEW dies \in BOOLEAN,
         SupersedeSome(f, done, dies)
  PROVE  ReviewsMove /\ FilesTyped'
<1>1. run[f].step = "supersede" /\ history' = history
      /\ (kills' = kills \/ (kills < MaxKills /\ kills' = kills + 1))
  BY DEF SupersedeSome, KillHappens
<1>2. kills' \in 0 .. MaxKills
  BY <1>1, TypedParts, BoundAssumption DEF FilesTyped
<1>3. \E listed \in {done} \cup {done \ {r} : r \in done} : Supersedes(f, done, listed)
  BY DEF SupersedeSome
<1>4. PICK listed \in SUBSET done : Supersedes(f, done, listed)
  BY <1>3
<1> QED
  BY <1>1, <1>2, <1>4, SupersedesMoves

LEMMA EnableMoves ==
  ASSUME IInv, NEW f \in Refreshes, NEW dies \in BOOLEAN, EnableRefreshReviewWrite(f, dies)
  PROVE  ReviewsMove /\ FilesTyped' /\ HistoryTyped'
<1> DEFINE r == run[f].review
           x == [review[r] EXCEPT !.capability = "WRITE"]
<1>1. /\ run[f].step = "enable" /\ StillOpen(r) /\ Store(r, x, dies) /\ Checked(r, dies)
      /\ (review[r].capability # "WRITE" => ~Conflict(r, review[r].baseline))
  BY DEF EnableRefreshReviewWrite, MayWrite
<1>2. r \in Reviews /\ Known(r)
  BY <1>1 DEF IInv, CommandsHoldLease, Succeeding, ReviewOf
<1>3. review[r] \in Record
  BY <1>2, IsRecord
<1>4. /\ x \in Record /\ x.baseline = review[r].baseline
      /\ review[r].capability = "WRITE" => x = review[r]
  <2>1. x \in Record
    BY <1>3, RecordChanges
  <2>2. x.baseline = review[r].baseline
    BY <1>3 DEF Record
  <2>3. ASSUME NEW y \in Record, y.capability = "WRITE"
        PROVE  [y EXCEPT !.capability = "WRITE"] = y
    BY <2>3 DEF Record
  <2> QED
    BY <1>3, <2>1, <2>2, <2>3
<1>5. HistoryTyped' /\ (dies => r \in history'.unchecked)
      /\ (~dies => history'.unchecked = history.unchecked)
      /\ \A s \in Reviews \ {r} : s \in history'.unchecked <=> s \in history.unchecked
  BY <1>1, <1>2, CheckedFacts, TypedParts
<1> HIDE DEF x, r
<1>6. FilesTyped' /\ review'[r] = x /\ Admitted(r) /\ \A s \in Reviews \ {r} : Quiet(s)
  BY <1>1, <1>2, <1>4, <1>5, StoreGains
<1>7. Enabled(f, r)
  BY <1>1, <1>2, <1>6 DEF Enabled, StillOpen, r, x
<1> QED
  BY <1>2, <1>5, <1>6, <1>7 DEF ReviewsMove, Gains

-----------------------------------------------------------------------------
(* What one step may do to one Refresh and the command that works on it:     *)
(* every action is one of these.                                             *)
Kept(f) ==
  /\ run'[f].review = run[f].review /\ run'[f].superseded = run[f].superseded
HeldShrinks(f) == history'.held[f] \subseteq history.held[f]

Rests(f) ==
  refresh'[f] = refresh[f] /\ run'[f] \in {run[f], IdleRun} /\ HeldShrinks(f)

Prepares(f) ==
  /\ UNCHANGED <<review, entry>> /\ run'[f] = run[f] /\ HeldShrinks(f)
  /\ refresh[f].status = "none" /\ refresh'[f].status = "prepared"

Starts(f) ==
  /\ refresh'[f] = refresh[f] /\ HeldShrinks(f)
  /\ \/ run'[f].step = "write" /\ refresh[f].status = "prepared"
     \/ run'[f].step \in {"check", "create"} /\ refresh[f].status = "refreshed"

IsWritten(f) ==
  /\ UNCHANGED <<review, entry>>
  /\ run[f].step = "write" /\ run'[f].step = "check"
  /\ refresh'[f].status = "refreshed" /\ refresh'[f].from = refresh[f].from
  /\ history'.held[f] = {r \in Reviews \ history.unchecked :
                           Writes(review[r]) /\ review[r].baseline = refresh[f].from}

Creates(f) ==
  /\ run[f].step = "create" /\ run'[f].step = "supersede"
  /\ refresh'[f] = refresh[f] /\ HeldShrinks(f)
  /\ run'[f].review \in Reviews /\ ReviewOf(f)' = {run'[f].review}

Succeeds(f) ==
  /\ run[f].step = "supersede" /\ run'[f].step = "enable" /\ run'[f].review = run[f].review
  /\ refresh'[f] = refresh[f] /\ HeldShrinks(f)
  /\ GaveUp(f)' /\ Records(f, run[f].superseded)'

Enables(f) ==
  /\ run[f].step = "enable" /\ run'[f].step = "record" /\ Kept(f)
  /\ refresh'[f] = refresh[f] /\ HeldShrinks(f)

Finishes(f) ==
  /\ run[f].step = "record" /\ run'[f] = IdleRun /\ HeldShrinks(f)
  /\ refresh'[f] = [refresh[f] EXCEPT !.status = "recorded", !.review = run[f].review,
                                      !.superseded = run[f].superseded]

RefreshMoves(f) ==
  \/ Rests(f) \/ Prepares(f) \/ Starts(f) \/ IsWritten(f)
  \/ Creates(f) \/ Succeeds(f) \/ Enables(f) \/ Finishes(f)

UnderLease == \A f \in Refreshes : run[f].step # "idle" => lease = f

RefreshState ==
  [status : {"none", "prepared", "refreshed", "recorded"}, from : Revisions,
   to : Revisions, review : Reviews \cup {NoReview}, superseded : SUBSET Reviews]
CommandState ==
  [step : Steps, review : Reviews \cup {NoReview}, superseded : SUBSET Reviews]
SuccessionTyped ==
  refresh \in [Refreshes -> RefreshState] /\ run \in [Refreshes -> CommandState]
PlatformTyped ==
  /\ seen \in [Reviews -> Revisions]
  /\ batch \in [Reviews -> [state : {"NONE", "WRITE_REQUESTED", "WRITE_OUTCOME_UNKNOWN"},
                            made : Revisions]]
  /\ target \in Revisions
  /\ lease \in {Free} \cup Reviews \cup Refreshes
Good == SuccessionTyped /\ PlatformTyped /\ UnderLease

LEMMA SuccessionParts ==
  ASSUME IInv
  PROVE  SuccessionTyped
  BY DEF SuccessionTyped, RefreshState, CommandState, IInv, TypeOK

LEMMA RefreshChanges ==
  ASSUME NEW x \in RefreshState, NEW n \in Revisions
  PROVE  /\ [x EXCEPT !.status = "prepared", !.from = n] \in RefreshState
         /\ [x EXCEPT !.status = "refreshed", !.to = n] \in RefreshState
         /\ \A r \in Reviews \cup {NoReview}, b \in SUBSET Reviews :
              [x EXCEPT !.status = "recorded", !.review = r, !.superseded = b] \in RefreshState
  BY Zenon DEF RefreshState

(* A step of a Review, or of nobody: no command on a Refresh goes on.        *)
LEMMA Stays ==
  ASSUME IInv, UNCHANGED succession, PlatformTyped', \A f \in Refreshes : HeldShrinks(f),
         lease' = lease \/ lease \in Reviews \cup {Free}
  PROVE  Good' /\ \A f \in Refreshes : RefreshMoves(f)
<1>1. run' = run /\ refresh' = refresh
  BY DEF succession
<1>2. SuccessionTyped'
  BY <1>1 DEF SuccessionTyped, RefreshState, CommandState, IInv, TypeOK
<1>3. UnderLease'
  BY <1>1, NameAssumption DEF UnderLease, IInv, CommandsHoldLease
<1>4. \A f \in Refreshes : RefreshMoves(f)
  BY <1>1 DEF RefreshMoves, Rests
<1> QED
  BY <1>2, <1>3, <1>4 DEF Good

(* A step of the command on f: the others rest, and the lease is kept, or    *)
(* given back with the command.                                              *)
LEMMA GoesOn ==
  ASSUME IInv, NEW f \in Refreshes, lease = f, SuccessionTyped',
         UNCHANGED <<seen, batch>>, target' \in Revisions,
         \A g \in Refreshes \ {f} : run'[g] = run[g] /\ refresh'[g] = refresh[g],
         \A g \in Refreshes \ {f} : HeldShrinks(g),
         lease' = lease \/ (lease' = Free /\ run'[f].step = "idle"),
         RefreshMoves(f)
  PROVE  Good' /\ \A g \in Refreshes : RefreshMoves(g)
<1>1. \A g \in Refreshes \ {f} : run[g].step = "idle"
  BY DEF IInv, CommandsHoldLease
<1>2. UnderLease'
  BY <1>1 DEF UnderLease
<1>3. PlatformTyped'
  BY DEF PlatformTyped, IInv, TypeOK
<1>4. \A g \in Refreshes : RefreshMoves(g)
  BY DEF RefreshMoves, Rests
<1> QED
  BY <1>2, <1>3, <1>4 DEF Good

LEMMA ReviewStays ==
  ASSUME IInv, NEW r \in Reviews, ReviewStep(r)
  PROVE  Good' /\ \A f \in Refreshes : RefreshMoves(f)
<1> USE DEF HeldShrinks
<1>t. PlatformTyped /\ HistoryTyped
  BY DEF IInv, TypeOK, PlatformTyped, HistoryTyped
<1>1. ASSUME NEW capability \in {"READ_ONLY", "WRITE"}, NEW dies \in BOOLEAN,
             CreateReview(r, capability, dies)
      PROVE  Good' /\ \A f \in Refreshes : RefreshMoves(f)
  <2>1. UNCHANGED <<seen, platform, succession>> /\ Checked(r, dies)
    BY <1>1 DEF CreateReview
  <2>2. \A f \in Refreshes : HeldShrinks(f)
    BY <2>1, <1>t, CheckedFacts
  <2>3. PlatformTyped'
    BY <2>1, <1>t DEF PlatformTyped, platform
  <2> QED
    BY <2>1, <2>2, <2>3, Stays DEF platform
<1>2. ASSUME NEW dies \in BOOLEAN, AcceptExternalRevision(r, dies)
      PROVE  Good' /\ \A f \in Refreshes : RefreshMoves(f)
  <2>1. /\ UNCHANGED <<platform, succession>> /\ Moved(r, dies)
        /\ seen' = [seen EXCEPT ![r] = 0]
    BY <1>2 DEF AcceptExternalRevision
  <2>2. \A f \in Refreshes : HeldShrinks(f)
    BY <2>1, <1>t, MovedFacts
  <2>3. PlatformTyped'
    BY <2>1, <1>t, TypedParts DEF PlatformTyped, platform
  <2> QED
    BY <2>1, <2>2, <2>3, Stays DEF platform
<1>3. ASSUME NEW dies \in BOOLEAN, ConfirmTargetRepairWrite(r, dies)
      PROVE  Good' /\ \A f \in Refreshes : RefreshMoves(f)
  <2>1. /\ UNCHANGED <<seen, target, succession>> /\ Moved(r, TRUE)
        /\ batch' = [batch EXCEPT ![r] = [state |-> "NONE", made |-> 0]]
        /\ lease \in Reviews \cup {Free} /\ lease' = Free
    BY <1>3 DEF ConfirmTargetRepairWrite
  <2>2. \A f \in Refreshes : HeldShrinks(f)
    BY <2>1, <1>t, MovedFacts
  <2>3. PlatformTyped'
    BY <2>1, <1>t, TypedParts DEF PlatformTyped
  <2> QED
    BY <2>1, <2>2, <2>3, Stays
<1>4. ASSUME NEW revision \in 0 .. target, ObserveTargetRevision(r, revision)
      PROVE  Good' /\ \A f \in Refreshes : RefreshMoves(f)
  <2>1. /\ UNCHANGED <<platform, succession, history>>
        /\ seen' = [seen EXCEPT ![r] = revision] \/ seen' = seen
    BY <1>4 DEF ObserveTargetRevision
  <2>2. revision \in Revisions
    BY BoundAssumption, <1>t DEF Revisions, PlatformTyped
  <2>3. PlatformTyped'
    BY <2>1, <2>2, <1>t DEF PlatformTyped, platform
  <2> QED
    BY <2>1, <2>3, Stays DEF platform
<1>5. ASSUME NEW status \in Statuses, Work(r, status)
      PROVE  Good' /\ \A f \in Refreshes : RefreshMoves(f)
  <2>1. UNCHANGED <<seen, platform, succession, history>>
    BY <1>5 DEF Work
  <2>3. PlatformTyped'
    BY <2>1, <1>t DEF PlatformTyped, platform
  <2> QED
    BY <2>1, <2>3, Stays DEF platform
<1>6. CASE PrepareTargetRepairWrite(r)
  <2>1. /\ UNCHANGED <<seen, target, succession, history>> /\ lease = Free /\ lease' = r
        /\ batch' = [batch EXCEPT ![r].state = "WRITE_REQUESTED"]
    BY <1>6 DEF PrepareTargetRepairWrite
  <2>3. PlatformTyped'
    BY <2>1, <1>t DEF PlatformTyped
  <2> QED
    BY <2>1, <2>3, Stays
<1>7. CASE SaveWork(r)
  <2>1. /\ UNCHANGED <<seen, lease, succession, history>> /\ target < MaxRevision
        /\ batch' = [batch EXCEPT ![r].made = target + 1] /\ target' = target + 1
    BY <1>7 DEF SaveWork
  <2>2. target + 1 \in Revisions
    BY <2>1, <1>t, BoundAssumption DEF PlatformTyped, Revisions
  <2>3. PlatformTyped'
    BY <2>1, <2>2, <1>t DEF PlatformTyped
  <2> QED
    BY <2>1, <2>3, Stays
<1>8. CASE MarkTargetRepairUncertain(r)
  <2>1. /\ UNCHANGED <<seen, target, succession, history>> /\ lease = r /\ lease' = Free
        /\ batch' = [batch EXCEPT ![r].state = "WRITE_OUTCOME_UNKNOWN"]
    BY <1>8 DEF MarkTargetRepairUncertain
  <2>3. PlatformTyped'
    BY <2>1, <1>t DEF PlatformTyped
  <2> QED
    BY <2>1, <2>3, Stays
<1> QED
  BY <1>1, <1>2, <1>3, <1>4, <1>5, <1>6, <1>7, <1>8 DEF ReviewStep

LEMMA OthersStay ==
  ASSUME IInv, Kill \/ EditTarget
  PROVE  Good' /\ \A f \in Refreshes : RefreshMoves(f)
<1>t. PlatformTyped /\ SuccessionTyped /\ UnderLease
  BY  DEF IInv, TypeOK, PlatformTyped, SuccessionTyped, RefreshState,
     CommandState, UnderLease, CommandsHoldLease
<1>1. CASE EditTarget
  <2>1. /\ UNCHANGED <<seen, batch, lease, succession, history>>
        /\ target < MaxRevision /\ target' = target + 1
    BY <1>1 DEF EditTarget
  <2>2. target + 1 \in Revisions
    BY <2>1, <1>t, BoundAssumption DEF PlatformTyped, Revisions
  <2>3. PlatformTyped'
    BY <2>1, <2>2, <1>t DEF PlatformTyped
  <2> QED
    BY <2>1, <2>3, Stays DEF HeldShrinks
<1>2. CASE Kill
  <2>1. /\ UNCHANGED <<seen, batch, target, refresh, history>>
        /\ lease' = Free
        /\ run' = [f \in Refreshes |-> IF f = lease THEN IdleRun ELSE run[f]]
    BY <1>2 DEF Kill
  <2>2. IdleRun \in CommandState
    BY DEF IdleRun, Steps, CommandState
  <2>3. SuccessionTyped'
    BY <2>1, <2>2, <1>t DEF SuccessionTyped
  <2>4. PlatformTyped'
    BY <2>1, <1>t DEF PlatformTyped
  <2>5. UnderLease'
    <3> SUFFICES ASSUME NEW f \in Refreshes PROVE run'[f].step = "idle"
      BY DEF UnderLease
    <3>1. CASE f = lease
      BY <2>1, <3>1 DEF IdleRun
    <3>2. CASE f # lease
      BY <2>1, <3>2, <1>t DEF UnderLease
    <3> QED
      BY <3>1, <3>2
  <2>6. \A f \in Refreshes : RefreshMoves(f)
    BY <2>1 DEF RefreshMoves, Rests, HeldShrinks
  <2> QED
    BY <2>3, <2>4, <2>5, <2>6 DEF Good
<1> QED
  BY <1>1, <1>2

LEMMA CommandTyped ==
  ASSUME IInv, NEW f \in Refreshes, refresh' = refresh,
         \/ \E s \in Steps : run' = [run EXCEPT ![f].step = s]
         \/ run' = [run EXCEPT ![f] = IdleRun]
  PROVE  SuccessionTyped'
<1>1. IdleRun \in CommandState
  BY DEF IdleRun, Steps, CommandState
<1> QED
  BY <1>1 DEF SuccessionTyped, RefreshState, CommandState, IInv, TypeOK

(* A command that stops.                                                     *)
LEMMA Stopping ==
  ASSUME IInv, NEW f \in Refreshes, run[f].step # "idle", Stop(f),
         UNCHANGED <<seen, batch, target, refresh>>, \A g \in Refreshes : HeldShrinks(g)
  PROVE  Good' /\ \A g \in Refreshes : RefreshMoves(g)
<1>1. lease = f /\ run \in [Refreshes -> [step : Steps, review : Reviews \cup {NoReview},
                                          superseded : SUBSET Reviews]]
  BY DEF IInv, CommandsHoldLease, TypeOK
<1>2. run' = [run EXCEPT ![f] = IdleRun] /\ lease' = Free
  BY DEF Stop
<1>3. SuccessionTyped'
  BY <1>2, CommandTyped
<1>4. run'[f] = IdleRun /\ \A g \in Refreshes \ {f} : run'[g] = run[g]
  BY <1>1, <1>2
<1>5. RefreshMoves(f)
  BY <1>4 DEF RefreshMoves, Rests
<1>6. target' \in Revisions
  BY TypedParts
<1> QED
  BY <1>1, <1>2, <1>3, <1>4, <1>5, <1>6, GoesOn DEF IdleRun

LEMMA PrepareRefreshGoes ==
  ASSUME IInv, NEW f \in Refreshes, PrepareRefresh(f)
  PROVE  Good' /\ \A g \in Refreshes : RefreshMoves(g)
<1>1. /\ refresh[f].status = "none"
      /\ refresh' = [refresh EXCEPT ![f].status = "prepared", ![f].from = target]
      /\ UNCHANGED <<review, entry, seen, batch, target, lease, run, history>>
  BY DEF PrepareRefresh, platform
<1>2. PlatformTyped' /\ UnderLease'
  BY <1>1 DEF IInv, TypeOK, PlatformTyped, UnderLease, CommandsHoldLease
<1>3. SuccessionTyped'
  <2> DEFINE x == [refresh[f] EXCEPT !.status = "prepared", !.from = target]
  <2>1. x \in RefreshState
    BY RefreshChanges, SuccessionParts, TypedParts DEF SuccessionTyped
  <2>2. refresh' = [refresh EXCEPT ![f] = x]
    BY <1>1
  <2> HIDE DEF x
  <2> QED
    BY <1>1, <2>1, <2>2, SuccessionParts DEF SuccessionTyped
<1>4. refresh'[f].status = "prepared" /\ \A g \in Refreshes \ {f} : refresh'[g] = refresh[g]
  BY <1>1 DEF IInv, TypeOK
<1>5. \A g \in Refreshes : RefreshMoves(g)
  BY <1>1, <1>4 DEF RefreshMoves, Rests, Prepares, HeldShrinks
<1> QED
  BY <1>2, <1>3, <1>5 DEF Good

LEMMA StartsGo ==
  ASSUME IInv, NEW f \in Refreshes, StartApply(f) \/ StartFinalize(f)
  PROVE  Good' /\ \A g \in Refreshes : RefreshMoves(g)
<1>1. /\ UNCHANGED <<seen, batch, target, refresh, history>> /\ lease = Free /\ lease' = f
      /\ \/ run' = [run EXCEPT ![f].step = "write"] /\ refresh[f].status = "prepared"
         \/ run' = [run EXCEPT ![f].step = "check"] /\ refresh[f].status = "refreshed"
  BY DEF StartApply, StartFinalize, Goto
<1>2. /\ \A g \in Refreshes \ {f} : run'[g] = run[g]
      /\ \/ run'[f].step = "write" /\ refresh[f].status = "prepared"
         \/ run'[f].step = "check" /\ refresh[f].status = "refreshed"
  BY <1>1 DEF IInv, TypeOK
<1>3. \A g \in Refreshes : run[g].step = "idle"
  BY <1>1, NameAssumption DEF IInv, CommandsHoldLease
<1>4. PlatformTyped' /\ UnderLease'
  BY <1>1, <1>2, <1>3 DEF IInv, TypeOK, PlatformTyped, UnderLease
<1>5. SuccessionTyped'
  BY <1>1, CommandTyped DEF Steps
<1>6. \A g \in Refreshes : RefreshMoves(g)
  BY <1>1, <1>2 DEF RefreshMoves, Rests, Starts, HeldShrinks
<1> QED
  BY <1>4, <1>5, <1>6 DEF Good

LEMMA ApplyWriteGoes ==
  ASSUME IInv, NEW f \in Refreshes, ApplyWrite(f)
  PROVE  Good' /\ HistoryTyped' /\ \A g \in Refreshes : RefreshMoves(g)
<1> DEFINE h == {r \in Reviews \ history.unchecked :
                   Writes(review[r]) /\ review[r].baseline = refresh[f].from}
<1>1. /\ run[f].step = "write" /\ target < MaxRevision /\ target' = target + 1
      /\ refresh' = [refresh EXCEPT ![f].status = "refreshed", ![f].to = target + 1]
      /\ run' = [run EXCEPT ![f].step = "check"]
      /\ history' = [history EXCEPT !.held[f] = h]
      /\ UNCHANGED <<review, entry, seen, batch, lease>>
  BY DEF ApplyWrite, Goto
<1>2. h \in SUBSET Reviews /\ HistoryTyped
  BY TypedParts
<1>3. target + 1 \in Revisions
  BY <1>1, TypedParts, BoundAssumption DEF Revisions
<1>4. lease = f
  BY <1>1 DEF IInv, CommandsHoldLease
<1>5. /\ \A g \in Refreshes \ {f} : run'[g] = run[g] /\ refresh'[g] = refresh[g]
      /\ run'[f].step = "check" /\ refresh'[f].status = "refreshed"
      /\ refresh'[f].from = refresh[f].from
  BY <1>1 DEF IInv, TypeOK
<1>6. SuccessionTyped'
  <2> DEFINE x == [refresh[f] EXCEPT !.status = "refreshed", !.to = target + 1]
             y == [run[f] EXCEPT !.step = "check"]
  <2>1. x \in RefreshState
    BY <1>3, RefreshChanges, SuccessionParts DEF SuccessionTyped
  <2>2. y \in CommandState
    BY SuccessionParts DEF SuccessionTyped, CommandState, Steps
  <2>3. refresh' = [refresh EXCEPT ![f] = x] /\ run' = [run EXCEPT ![f] = y]
    BY <1>1
  <2> HIDE DEF x, y
  <2> QED
    BY <2>1, <2>2, <2>3, SuccessionParts DEF SuccessionTyped
<1> HIDE DEF h
<1>7. HistoryTyped' /\ history'.held[f] = h
      /\ \A g \in Refreshes \ {f} : history'.held[g] = history.held[g]
  BY <1>1, <1>2 DEF HistoryTyped
<1>8. RefreshMoves(f)
  BY <1>1, <1>5, <1>7 DEF RefreshMoves, IsWritten, h
<1>9. target' \in Revisions
  BY <1>1, <1>3
<1> QED
  BY <1>1, <1>4, <1>5, <1>6, <1>7, <1>8, <1>9, GoesOn DEF HeldShrinks

LEMMA CheckGoes ==
  ASSUME IInv, NEW f \in Refreshes, Check(f)
  PROVE  Good' /\ \A g \in Refreshes : RefreshMoves(g)
<1>1. run[f].step = "check" /\ UNCHANGED <<seen, batch, target, refresh, history>>
  BY DEF Check
<1>2. CASE Stop(f)
  BY <1>1, <1>2, Stopping DEF HeldShrinks
<1>3. CASE Goto(f, "create") /\ UNCHANGED lease
  <2>1. run' = [run EXCEPT ![f].step = "create"] /\ lease' = lease
    BY <1>3 DEF Goto
  <2>2. SuccessionTyped'
    BY <1>1, <2>1, CommandTyped DEF Steps
  <2>3. run'[f].step = "create" /\ \A g \in Refreshes \ {f} : run'[g] = run[g]
    BY <2>1 DEF IInv, TypeOK
  <2>4. refresh[f].status = "refreshed" /\ lease = f
    BY <1>1 DEF IInv, CommandsHoldLease
  <2>5. RefreshMoves(f)
    BY <1>1, <2>3, <2>4 DEF RefreshMoves, Starts, HeldShrinks
  <2>6. target' \in Revisions
    BY <1>1, TypedParts
  <2> QED
    BY <1>1, <2>1, <2>2, <2>3, <2>4, <2>5, <2>6, GoesOn DEF HeldShrinks
<1> QED
  BY <1>2, <1>3 DEF Check

LEMMA RefuseGoes ==
  ASSUME IInv, NEW f \in Refreshes, RefuseRefreshReviewWrite(f)
  PROVE  Good' /\ \A g \in Refreshes : RefreshMoves(g)
<1>1. /\ run[f].step = "enable" /\ Stop(f)
      /\ UNCHANGED <<seen, batch, target, refresh, history>>
  BY DEF RefuseRefreshReviewWrite
<1> QED
  BY <1>1, Stopping DEF HeldShrinks

LEMMA SupersedeSomeGoes ==
  ASSUME IInv, NEW f \in Refreshes, NEW done \in SUBSET Due(f), NEW dies \in BOOLEAN,
         SupersedeSome(f, done, dies)
  PROVE  Good' /\ \A g \in Refreshes : RefreshMoves(g)
<1>1. /\ run[f].step = "supersede" /\ Stop(f)
      /\ UNCHANGED <<seen, batch, target, refresh, history>>
  BY DEF SupersedeSome
<1> QED
  BY <1>1, Stopping DEF HeldShrinks

LEMMA RecordGoes ==
  ASSUME IInv, NEW f \in Refreshes, RecordReviewSuccession(f)
  PROVE  Good' /\ \A g \in Refreshes : RefreshMoves(g)
<1> DEFINE x == [refresh[f] EXCEPT !.status = "recorded", !.review = run[f].review,
                                   !.superseded = run[f].superseded]
<1>1. /\ run[f].step = "record" /\ Stop(f) /\ refresh' = [refresh EXCEPT ![f] = x]
      /\ UNCHANGED <<seen, batch, target, history>>
  BY DEF RecordReviewSuccession
<1>2. /\ run[f].review \in Reviews \cup {NoReview} /\ run[f].superseded \in SUBSET Reviews
      /\ refresh[f] \in RefreshState
  BY SuccessionParts DEF SuccessionTyped, CommandState
<1>3. x \in RefreshState
  <2>1. 0 \in Revisions
    BY TypedParts
  <2> QED
    BY <1>2, <2>1, RefreshChanges
<1>4. lease = f
  BY <1>1 DEF IInv, CommandsHoldLease
<1>5. lease' = Free /\ run' = [run EXCEPT ![f] = IdleRun] /\ IdleRun \in CommandState
  BY <1>1 DEF Stop, IdleRun, CommandState, Steps
<1>6. /\ refresh'[f] = x /\ run'[f] = IdleRun
      /\ \A g \in Refreshes \ {f} : run'[g] = run[g] /\ refresh'[g] = refresh[g]
  BY <1>1, <1>5, SuccessionParts DEF SuccessionTyped
<1>7. RefreshMoves(f)
  BY <1>1, <1>6 DEF RefreshMoves, Finishes, HeldShrinks
<1>8. SuccessionTyped'
  <2> HIDE DEF x
  <2> QED
    BY <1>1, <1>3, <1>5, SuccessionParts DEF SuccessionTyped
<1>9. target' \in Revisions
  BY <1>1, TypedParts
<1> QED
  BY <1>1, <1>4, <1>5, <1>6, <1>7, <1>8, <1>9, GoesOn DEF HeldShrinks, IdleRun

(* A command that goes on unless it dies.                                    *)
LEMMA GoingOn ==
  ASSUME IInv, NEW f \in Refreshes, NEW state \in CommandState, run[f].step # "idle",
         NEW dies \in BOOLEAN, GoOn(f, state, dies),
         UNCHANGED <<seen, batch, target, refresh>>, \A g \in Refreshes : HeldShrinks(g),
         run'[f] = state => RefreshMoves(f)
  PROVE  Good' /\ \A g \in Refreshes : RefreshMoves(g)
<1>1. CASE dies
  BY <1>1, Stopping DEF GoOn
<1>2. CASE ~dies
  <2>1. run' = [run EXCEPT ![f] = state] /\ lease' = lease
    BY <1>2 DEF GoOn
  <2>2. /\ SuccessionTyped' /\ run'[f] = state
        /\ \A g \in Refreshes \ {f} : run'[g] = run[g]
    BY <2>1, SuccessionParts DEF SuccessionTyped
  <2>3. lease = f
    BY DEF IInv, CommandsHoldLease
  <2>4. target' \in Revisions
    BY TypedParts
  <2> QED
    BY <2>1, <2>2, <2>3, <2>4, GoesOn
<1> QED
  BY <1>1, <1>2

LEMMA EnableGoes ==
  ASSUME IInv, NEW f \in Refreshes, NEW dies \in BOOLEAN, EnableRefreshReviewWrite(f, dies)
  PROVE  Good' /\ \A g \in Refreshes : RefreshMoves(g)
<1> DEFINE x == [run[f] EXCEPT !.step = "record"]
<1>1. /\ run[f].step = "enable" /\ GoOn(f, x, dies) /\ Checked(run[f].review, dies)
      /\ UNCHANGED <<seen, batch, target, refresh>>
  BY DEF EnableRefreshReviewWrite
<1>2. x \in CommandState /\ x.step = "record"
      /\ x.review = run[f].review /\ x.superseded = run[f].superseded
  BY SuccessionParts DEF SuccessionTyped, CommandState, Steps
<1>3. run[f].review \in Reviews
  BY <1>1 DEF IInv, CommandsHoldLease, Succeeding
<1>4. \A g \in Refreshes : HeldShrinks(g)
  BY <1>1, <1>3, CheckedFacts, TypedParts DEF HeldShrinks
<1> HIDE DEF x
<1>5. ASSUME run'[f] = x PROVE RefreshMoves(f)
  BY <1>1, <1>2, <1>4, <1>5 DEF RefreshMoves, Enables, Kept
<1> QED
  BY <1>1, <1>2, <1>4, <1>5, GoingOn

LEMMA CreateFromRefreshGoes ==
  ASSUME IInv, NEW f \in Refreshes, NEW r \in Reviews, NEW dies \in BOOLEAN,
         CreateFromRefresh(f, r, dies)
  PROVE  Good' /\ \A g \in Refreshes : RefreshMoves(g)
<1> DEFINE y == [run[f] EXCEPT !.step = "supersede", !.review = r]
<1>1. /\ run[f].step = "create" /\ GoOn(f, y, dies)
      /\ UNCHANGED <<seen, batch, target, refresh>>
  BY DEF CreateFromRefresh
<1>2. y \in CommandState /\ y.step = "supersede" /\ y.review = r
  BY SuccessionParts DEF SuccessionTyped, CommandState, Steps
<1>3. \A g \in Refreshes : HeldShrinks(g)
  BY CheckedFacts, TypedParts DEF HeldShrinks, CreateFromRefresh
<1>4. ~dies => ReviewOf(f)' = {r}
  <2>1. CASE ReviewOf(f) # {}
    <3>1. r \in ReviewOf(f) /\ entry' = entry
      BY <2>1 DEF CreateFromRefresh
    <3>2. ReviewOf(f) = {r}
      BY <3>1 DEF IInv, OneReview
    <3> QED
      BY <3>1, <3>2 DEF ReviewOf, Known
  <2>2. CASE ReviewOf(f) = {}
    <3> DEFINE x == Opened("READ_ONLY", refresh[f].to, f)
    <3>1. Store(r, x, dies)
      BY <2>2 DEF CreateFromRefresh
    <3>2. x \in Record /\ x.refresh = f
      <4>1. refresh[f].to \in Revisions
        BY DEF IInv, TypeOK
      <4> QED
        BY <4>1, OpenedIsRecord DEF Opened
    <3> HIDE DEF x
    <3>3. \A s \in Reviews \ {r} : entry'[s] = entry[s]
      BY <3>1, <3>2, StoreFacts, TypedParts
    <3>4. ~dies => entry'[r] = x
      BY <3>1, <3>2, StoreFacts, TypedParts
    <3>5. x # NoReview
      BY <3>2, RecordAssumption
    <3> QED
      BY <2>2, <3>2, <3>3, <3>4, <3>5 DEF ReviewOf, Known
  <2> QED
    BY <2>1, <2>2
<1> HIDE DEF y
<1>5. ASSUME run'[f] = y PROVE RefreshMoves(f)
  <2>1. CASE ~dies
    BY <1>1, <1>2, <1>3, <1>4, <1>5, <2>1 DEF RefreshMoves, Creates
  <2>2. CASE dies
    <3>1. run' = [run EXCEPT ![f] = IdleRun]
      BY <1>1, <2>2 DEF GoOn, Stop
    <3>2. run'[f] = IdleRun
      BY <3>1, SuccessionParts DEF SuccessionTyped
    <3> QED
      BY <1>1, <1>3, <3>2 DEF RefreshMoves, Rests
  <2> QED
    BY <2>1, <2>2
<1> QED
  BY <1>1, <1>2, <1>3, <1>5, GoingOn

(* The predecessors whose entries show the old revision, and no others, have *)
(* given up, and all that this Refresh superseded is counted.                *)
LEMMA SupersedeForRefreshGoes ==
  ASSUME IInv, NEW f \in Refreshes, SupersedeForRefresh(f)
  PROVE  Good' /\ \A g \in Refreshes : RefreshMoves(g)
<1> DEFINE y == [run[f] EXCEPT !.step = "enable", !.superseded = Due(f) \cup Counted(f)]
<1>1. /\ run[f].step = "supersede" /\ run' = [run EXCEPT ![f] = y]
      /\ UNCHANGED <<seen, batch, target, lease, refresh, kills, history>>
      /\ review' = [r \in Reviews |-> IF r \in Due(f) THEN Supersede(f, r) ELSE review[r]]
      /\ entry' = [r \in Reviews |-> IF r \in Due(f) THEN Supersede(f, r) ELSE entry[r]]
  BY DEF SupersedeForRefresh, Supersedes, platform
<1>2. /\ Due(f) \cup Counted(f) \in SUBSET Reviews
  BY DEF Due, Counted, Entered
<1>3. /\ y \in CommandState /\ y.step = "enable" /\ y.review = run[f].review
      /\ y.superseded = Due(f) \cup Counted(f)
  BY <1>2, SuccessionParts DEF SuccessionTyped, CommandState, Steps
<1> HIDE DEF y
<1>4. run'[f] = y /\ \A g \in Refreshes \ {f} : run'[g] = run[g]
  BY <1>1, SuccessionParts DEF SuccessionTyped
<1>5. \A r \in Due(f) : /\ r \in Reviews /\ Supersede(f, r) \in Record
                        /\ Supersede(f, r).status = "REVIEW_SUPERSEDED_BY_REFRESH"
                        /\ Supersede(f, r).supersession = f
  <2> SUFFICES ASSUME NEW r \in Due(f)
               PROVE  /\ r \in Reviews /\ Supersede(f, r) \in Record
                      /\ Supersede(f, r).status = "REVIEW_SUPERSEDED_BY_REFRESH"
                      /\ Supersede(f, r).supersession = f
    OBVIOUS
  <2>1. r \in Reviews /\ review[r] \in Record
    BY TypedParts, IsRecord
  <2>2. Supersede(f, r) \in Record
    BY <2>1, RecordChanges DEF Supersede
  <2> QED
    BY <2>1, <2>2 DEF Supersede, Record
<1>6. \A r \in Reviews \ Due(f) : review'[r] = review[r] /\ entry'[r] = entry[r]
  BY <1>1
<1>7. \A r \in Due(f) : review'[r] = Supersede(f, r) /\ entry'[r] = Supersede(f, r)
  BY <1>1, <1>5
<1>8. GaveUp(f)'
  <2> SUFFICES ASSUME NEW s \in history.held[f] PROVE ~Writes(review'[s])
    BY <1>1 DEF GaveUp
  <2>1. s \in Reviews
    BY TypedParts DEF HistoryTyped
  <2>2. CASE s \in Due(f)
    BY <1>5, <1>7, <2>2 DEF Writes, Terminal
  <2>3. CASE s \notin Due(f)
    <3>1. ~Writes(review[s])
      <4> SUFFICES ASSUME Writes(review[s]) PROVE s \in Due(f)
        BY <2>3
      <4>1. Known(s) /\ entry[s].baseline = refresh[f].from
        BY DEF IInv, HeldAreListed
      <4> QED
        BY <2>1, <4>1 DEF Due, Entered, Writes, Superseded, Terminal
    <3> QED
      BY <1>6, <2>1, <2>3, <3>1
  <2> QED
    BY <2>2, <2>3
<1>9. Due(f) \cup Counted(f) \subseteq SupersededBy(f)'
  <2> SUFFICES ASSUME NEW r \in Due(f) \cup Counted(f)
               PROVE  entry'[r] # NoReview /\ review'[r].supersession = f
    BY <1>2 DEF SupersededBy, Known
  <2>1. CASE r \in Due(f)
    BY <1>5, <1>7, <2>1, RecordAssumption
  <2>2. CASE r \notin Due(f)
    BY <1>6, <2>2 DEF Counted, Entered, Known
  <2> QED
    BY <2>1, <2>2
<1>10. ASSUME NEW r \in SupersededBy(f)' \ (Due(f) \cup Counted(f))
       PROVE  review'[r].baseline # refresh[f].from
  <2>1. r \in Reviews /\ entry'[r] # NoReview /\ review'[r].supersession = f
    BY DEF SupersededBy, Known
  <2>2. review'[r] = review[r] /\ entry'[r] = entry[r]
    BY <1>6, <2>1
  <2>3. r \in SupersededBy(f)
    BY <2>1, <2>2 DEF SupersededBy, Known
  <2>4. review[r].baseline = refresh[f].from => r \in Counted(f)
    BY <2>1, <2>3 DEF Counted, Entered, SupersededBy, IInv, SupersededStay
  <2> QED
    BY <2>2, <2>4
<1>11. Records(f, run[f].superseded)'
  BY <1>1, <1>3, <1>4, <1>9, <1>10 DEF Records
<1>12. RefreshMoves(f)
  BY <1>1, <1>3, <1>4, <1>8, <1>11 DEF RefreshMoves, Succeeds, HeldShrinks
<1>13. SuccessionTyped'
  BY <1>1, <1>3, SuccessionParts DEF SuccessionTyped
<1>14. lease = f /\ target' \in Revisions
  BY <1>1, TypedParts DEF IInv, CommandsHoldLease
<1> QED
  BY <1>1, <1>4, <1>12, <1>13, <1>14, GoesOn DEF HeldShrinks

-----------------------------------------------------------------------------
StepMoves ==
  /\ ReviewsMove /\ \A f \in Refreshes : RefreshMoves(f)
  /\ FilesTyped' /\ HistoryTyped' /\ Good'

LEMMA ReviewStepMoves ==
  ASSUME IInv, NEW r \in Reviews, ReviewStep(r)
  PROVE  StepMoves
<1>1. Good' /\ \A f \in Refreshes : RefreshMoves(f)
  BY ReviewStays
<1>2. history' = history => HistoryTyped'
  BY TypedParts DEF HistoryTyped
<1>3. ASSUME NEW capability \in {"READ_ONLY", "WRITE"}, NEW dies \in BOOLEAN,
             CreateReview(r, capability, dies)
      PROVE  StepMoves
  BY <1>1, <1>3, CreateReviewMoves DEF StepMoves
<1>4. ASSUME NEW dies \in BOOLEAN, AcceptExternalRevision(r, dies) PROVE StepMoves
  BY <1>1, <1>4, AcceptMoves DEF StepMoves
<1>5. ASSUME NEW dies \in BOOLEAN, ConfirmTargetRepairWrite(r, dies) PROVE StepMoves
  BY <1>1, <1>5, ConfirmMoves DEF StepMoves
<1>6. ASSUME NEW revision \in 0 .. target, ObserveTargetRevision(r, revision) PROVE StepMoves
  BY <1>1, <1>2, <1>6, ObserveMoves DEF StepMoves, ObserveTargetRevision
<1>7. ASSUME NEW status \in Statuses, Work(r, status) PROVE StepMoves
  BY <1>1, <1>2, <1>7, WorkMoves DEF StepMoves, Work
<1>8. CASE PrepareTargetRepairWrite(r)
  BY <1>1, <1>2, <1>8, PrepareMoves DEF StepMoves, PrepareTargetRepairWrite
<1>9. CASE SaveWork(r)
  <2>1. UNCHANGED Files /\ history' = history
    BY <1>9 DEF SaveWork, Files
  <2> QED
    BY <1>1, <1>2, <2>1, Untouched DEF StepMoves
<1>10. CASE MarkTargetRepairUncertain(r)
  BY <1>1, <1>2, <1>10, MarkMoves DEF StepMoves, MarkTargetRepairUncertain
<1> QED
  BY <1>3, <1>4, <1>5, <1>6, <1>7, <1>8, <1>9, <1>10 DEF ReviewStep

LEMMA RefreshStepMoves ==
  ASSUME IInv, NEW f \in Refreshes, RefreshStep(f)
  PROVE  StepMoves
<1>1. history' = history => HistoryTyped'
  BY TypedParts DEF HistoryTyped
<1>2. UNCHANGED Files /\ history' = history => ReviewsMove /\ FilesTyped' /\ HistoryTyped'
  BY <1>1, Untouched
<1>3. CASE PrepareRefresh(f)
  BY <1>2, <1>3, PrepareRefreshGoes DEF StepMoves, PrepareRefresh, Files
<1>4. CASE StartApply(f) \/ StartFinalize(f)
  BY <1>2, <1>4, StartsGo DEF StepMoves, StartApply, StartFinalize, Files
<1>5. CASE ApplyWrite(f)
  <2>1. UNCHANGED Files /\ history'.unchecked = history.unchecked
    BY <1>5, TypedParts DEF ApplyWrite, Files, HistoryTyped
  <2> QED
    BY <1>5, <2>1, Untouched, ApplyWriteGoes DEF StepMoves
<1>6. CASE Check(f)
  BY <1>2, <1>6, CheckGoes DEF StepMoves, Check, Files
<1>7. CASE SupersedeForRefresh(f)
  BY <1>1, <1>7, SupersedeForRefreshMoves, SupersedeForRefreshGoes DEF StepMoves, SupersedeForRefresh
<1>8. CASE RefuseRefreshReviewWrite(f)
  BY <1>2, <1>8, RefuseGoes DEF StepMoves, RefuseRefreshReviewWrite, Files
<1>9. CASE RecordReviewSuccession(f)
  BY <1>2, <1>9, RecordGoes DEF StepMoves, RecordReviewSuccession, Files
<1>10. ASSUME NEW dies \in BOOLEAN, NEW r \in Reviews, CreateFromRefresh(f, r, dies)
       PROVE  StepMoves
  BY <1>10, CreateFromRefreshMoves, CreateFromRefreshGoes DEF StepMoves
<1>11. ASSUME NEW dies \in BOOLEAN, NEW done \in SUBSET Due(f), SupersedeSome(f, done, dies)
       PROVE  StepMoves
  BY <1>1, <1>11, SupersedeSomeMoves, SupersedeSomeGoes DEF StepMoves, SupersedeSome
<1>12. ASSUME NEW dies \in BOOLEAN, EnableRefreshReviewWrite(f, dies) PROVE StepMoves
  BY <1>12, EnableMoves, EnableGoes DEF StepMoves
<1> QED
  BY <1>3, <1>4, <1>5, <1>6, <1>7, <1>8, <1>9, <1>10, <1>11, <1>12 DEF RefreshStep

LEMMA NextMoves ==
  ASSUME IInv, Next
  PROVE  StepMoves
<1>1. CASE Kill \/ EditTarget
  <2>1. /\ review' = review /\ entry' = entry /\ history' = history
        /\ kills' = kills \/ (kills < MaxKills /\ kills' = kills + 1)
    BY <1>1 DEF Kill, EditTarget, KillHappens
  <2>2. FilesTyped' /\ HistoryTyped'
    BY <2>1, TypedParts, BoundAssumption DEF FilesTyped, HistoryTyped
  <2>3. ReviewsMove
    BY <2>1 DEF ReviewsMove, Quiet, SameCheck, Unchecked
  <2> QED
    BY <1>1, <2>2, <2>3, OthersStay DEF StepMoves
<1> QED
  BY <1>1, ReviewStepMoves, RefreshStepMoves DEF Next

LEMMA TypingKept ==
  ASSUME StepMoves
  PROVE  TypeOK'
<1>1. FilesTyped' /\ HistoryTyped' /\ SuccessionTyped' /\ PlatformTyped'
  BY DEF StepMoves, Good
<1> QED
  BY <1>1 DEF FilesTyped, HistoryTyped, SuccessionTyped, PlatformTyped, RefreshState,
     CommandState, OptionalRecord, TypeOK

(* What a step does to one Review, and what it does to two.                  *)
LEMMA OneReviewMoves ==
  ASSUME StepMoves
  PROVE  /\ \A r \in Reviews : Quiet(r) \/ Loses(r) \/ Gains(r)
         /\ \A r, s \in Reviews : r # s => Quiet(r) \/ Loses(r) \/ Quiet(s) \/ Loses(s)
  BY DEF StepMoves, ReviewsMove

(* A Review that neither moves nor opens writes only what it wrote.          *)
LEMMA LosersWrite ==
  ASSUME IInv, NEW r \in Reviews, Quiet(r) \/ Loses(r), Writes(review'[r])
  PROVE  /\ Writes(review[r]) /\ review'[r].baseline = review[r].baseline /\ SameCheck(r)
         /\ Writes(entry[r]) /\ entry[r].baseline = review[r].baseline =>
              Writes(entry'[r]) /\ entry'[r].baseline = review'[r].baseline
<1>1. CASE Quiet(r)
  BY <1>1 DEF Quiet
<1>2. CASE Worked(r)
  <2>1. review[r] # NoReview
    BY <1>2 DEF Worked, IInv, ListedExists
  <2> QED
    BY <1>2, <2>1 DEF Worked, Writes
<1>3. ASSUME NEW f \in Refreshes, GivenUp(f, r)
      PROVE  FALSE
  <2>1. review[r] \in Record /\ review'[r] = Supersede(f, r)
    BY <1>3, TypedParts, IsRecord DEF GivenUp
  <2>2. Supersede(f, r).status = "REVIEW_SUPERSEDED_BY_REFRESH"
    BY <2>1 DEF Supersede, Record
  <2> QED
    BY <2>1, <2>2 DEF Writes, Terminal
<1> QED
  BY <1>1, <1>2, <1>3 DEF Loses

LEMMA EntryShowsKept ==
  ASSUME IInv, StepMoves
  PROVE  EntryShows'
<1> SUFFICES ASSUME NEW r \in Reviews, ~Unchecked(r)', Writes(review'[r])
             PROVE  Writes(entry'[r]) /\ entry'[r].baseline = review'[r].baseline
  BY DEF EntryShows, Unchecked
<1>1. CASE Quiet(r) \/ Loses(r)
  <2>1. Writes(review[r]) /\ ~Unchecked(r)
    BY <1>1, LosersWrite DEF SameCheck
  <2>2. Writes(entry[r]) /\ entry[r].baseline = review[r].baseline
    BY <2>1 DEF IInv, EntryShows, Unchecked
  <2> QED
    BY <1>1, <2>2, LosersWrite
<1>2. CASE Gains(r)
  BY <1>2 DEF Gains, Opens, Moves, Enabled, Admitted
<1> QED
  BY <1>1, <1>2, OneReviewMoves

LEMMA OneWriterKept ==
  ASSUME IInv, StepMoves
  PROVE  OneWriterIfChecked'
<1>1. ASSUME NEW r \in Reviews, NEW s \in Reviews, r # s, ~Unchecked(r)', ~Unchecked(s)',
             Writes(review'[r]), Writes(review'[s]),
             review'[r].baseline = review'[s].baseline,
             Quiet(s) \/ Loses(s)
      PROVE  FALSE
  <2>1. Writes(review[s]) /\ review[s].baseline = review'[s].baseline /\ ~Unchecked(s)
    BY <1>1, LosersWrite DEF SameCheck
  <2>2. Writes(entry[s]) /\ entry[s].baseline = review[s].baseline
    BY <2>1 DEF IInv, EntryShows, Unchecked
  <2>3. ~(Writes(review[r]) /\ review[r].baseline = review'[r].baseline /\ ~Unchecked(r))
    BY <1>1, <2>1 DEF IInv, OneWriterIfChecked, BothWrite, Unchecked
  <2>4. CASE Quiet(r) \/ Loses(r)
    BY <1>1, <2>3, <2>4, LosersWrite DEF SameCheck
  <2>5. CASE Gains(r)
    <3>1. Admitted(r)
      BY <2>5 DEF Gains, Opens, Moves, Enabled
    <3>2. review'[r] # review[r] \/ Unchecked(r)
      BY <1>1, <2>3
    <3>3. ~Conflict(r, review'[r].baseline)
      BY <1>1, <3>1, <3>2 DEF Admitted, Writes
    <3> QED
      BY <1>1, <2>1, <2>2, <3>3 DEF Conflict
  <2> QED
    BY <1>1, <2>4, <2>5, OneReviewMoves
<1> QED
  BY <1>1, OneReviewMoves DEF OneWriterIfChecked, BothWrite, Unchecked

(* The fields a succession changes, and the others.                          *)
LEMMA SupersedeFields ==
  ASSUME IInv, NEW f \in Refreshes, NEW r \in Due(f)
  PROVE  /\ r \in Reviews /\ Known(r) /\ Supersede(f, r) \in Record
         /\ Supersede(f, r).status = "REVIEW_SUPERSEDED_BY_REFRESH"
         /\ Supersede(f, r).supersession = f
         /\ Supersede(f, r).baseline = review[r].baseline
         /\ Supersede(f, r).refresh = review[r].refresh
<1>1. r \in Reviews /\ Known(r) /\ review[r] \in Record
  BY TypedParts, IsRecord
<1>2. Supersede(f, r) \in Record
  BY <1>1, RecordChanges DEF Supersede
<1> QED
  BY <1>1, <1>2 DEF Supersede, Record

LEMMA EnabledFields ==
  ASSUME IInv, NEW f \in Refreshes, NEW r \in Reviews, Enabled(f, r)
  PROVE  /\ review'[r] \in Record /\ review'[r].capability = "WRITE"
         /\ review'[r].status = "REVIEW_OPEN" /\ review[r].status = "REVIEW_OPEN"
         /\ review'[r].supersession = review[r].supersession
         /\ review'[r].baseline = review[r].baseline
         /\ review'[r].refresh = review[r].refresh
<1>1. /\ review[r] \in Record /\ review'[r] = [review[r] EXCEPT !.capability = "WRITE"]
      /\ review[r].status = "REVIEW_OPEN"
  BY IsRecord DEF Enabled
<1>2. review'[r] \in Record
  BY <1>1, RecordChanges
<1> QED
  BY <1>1, <1>2 DEF Record

LEMMA ListedMoves ==
  ASSUME IInv, StepMoves, NEW r \in Reviews
  PROVE  /\ review[r] # NoReview =>
              review'[r] \in Record /\ review'[r].refresh = review[r].refresh
         /\ Known(r) => Known(r)' /\ entry'[r].refresh = entry[r].refresh
         /\ ~Known(r) /\ Known(r)' => Opens(r) /\ entry'[r] = review'[r]
<1>1. /\ review[r] # NoReview => review[r] \in Record
      /\ Known(r) => review[r] # NoReview /\ entry[r].refresh = review[r].refresh
  BY IsRecord DEF IInv, ListedExists
<1>2. \A x \in Record : x # NoReview
  BY RecordAssumption
<1>3. CASE Quiet(r)
  BY <1>1, <1>3 DEF Quiet, Known
<1>4. CASE Worked(r)
  BY <1>1, <1>2, <1>4 DEF Worked, Known
<1>5. ASSUME NEW f \in Refreshes, GivenUp(f, r)
      PROVE  /\ Known(r) /\ Known(r)' /\ review'[r] \in Record
             /\ review'[r].refresh = review[r].refresh /\ entry'[r].refresh = entry[r].refresh
  BY <1>1, <1>2, <1>5, SupersedeFields DEF GivenUp, Known
<1>6. CASE Opens(r)
  BY <1>1, <1>2, <1>6 DEF Opens, Admitted, Known
<1>7. CASE Moves(r)
  BY <1>1, <1>2, <1>7 DEF Moves, Admitted, Known
<1>8. ASSUME NEW f \in Refreshes, Enabled(f, r)
      PROVE  /\ Known(r) /\ Known(r)' /\ review'[r] \in Record
             /\ review'[r].refresh = review[r].refresh /\ entry'[r].refresh = entry[r].refresh
  BY <1>1, <1>2, <1>8, EnabledFields DEF Enabled, Admitted, Known
<1> QED
  BY <1>3, <1>4, <1>5, <1>6, <1>7, <1>8, OneReviewMoves DEF Loses, Gains

LEMMA ListedExistsKept ==
  ASSUME IInv, StepMoves
  PROVE  ListedExists'
<1> SUFFICES ASSUME NEW r \in Reviews, Known(r)'
             PROVE  review'[r] # NoReview /\ entry'[r].refresh = review'[r].refresh
  BY DEF ListedExists
<1>1. CASE Known(r)
  BY <1>1, ListedMoves, RecordAssumption DEF IInv, ListedExists
<1>2. CASE ~Known(r)
  BY <1>2, ListedMoves, RecordAssumption DEF Opens
<1> QED
  BY <1>1, <1>2

(* The Review of a Refresh appears when it is created for it.                *)
LEMMA ReviewOfMoves ==
  ASSUME IInv, StepMoves, NEW f \in Refreshes
  PROVE  /\ ReviewOf(f) \subseteq ReviewOf(f)'
         /\ \A r \in ReviewOf(f)' \ ReviewOf(f) :
              /\ Opens(r) /\ review'[r].capability = "READ_ONLY"
              /\ run[f].step = "create" /\ ReviewOf(f) = {}
<1>1. ReviewOf(f) \subseteq ReviewOf(f)'
  BY ListedMoves DEF ReviewOf
<1>2. ASSUME NEW r \in ReviewOf(f)' \ ReviewOf(f)
      PROVE  /\ Opens(r) /\ review'[r].capability = "READ_ONLY"
             /\ run[f].step = "create" /\ ReviewOf(f) = {}
  <2>1. r \in Reviews /\ Known(r)' /\ entry'[r].refresh = f
    BY <1>2 DEF ReviewOf
  <2>2. ~Known(r)
    BY <1>2, <2>1, ListedMoves DEF ReviewOf
  <2>3. Opens(r) /\ review'[r].refresh = f
    BY <2>1, <2>2, ListedMoves
  <2> QED
    BY <2>3 DEF Opens
<1> QED
  BY <1>1, <1>2

LEMMA OneReviewKept ==
  ASSUME IInv, StepMoves
  PROVE  OneReview'
<1> SUFFICES ASSUME NEW f \in Refreshes, NEW r \in ReviewOf(f)', NEW s \in ReviewOf(f)', r # s
             PROVE  FALSE
  BY DEF OneReview
<1>1. r \in Reviews /\ s \in Reviews
  BY DEF ReviewOf
<1>2. CASE r \in ReviewOf(f) \/ s \in ReviewOf(f)
  BY <1>2, ReviewOfMoves DEF IInv, OneReview
<1>3. CASE r \notin ReviewOf(f) /\ s \notin ReviewOf(f)
  <2>1. Opens(r) /\ Opens(s)
    BY <1>3, ReviewOfMoves
  <2>2. ASSUME NEW t \in Reviews, Opens(t), Quiet(t) \/ Loses(t)
        PROVE  FALSE
    BY <1>1, <2>2, RecordAssumption
       DEF Opens, Quiet, Loses, Worked, GivenUp, Due, Entered, IInv, ListedExists
  <2> QED
    BY <1>1, <2>1, <2>2, OneReviewMoves
<1> QED
  BY <1>2, <1>3

LEMMA SupersededKept ==
  ASSUME IInv, StepMoves, NEW r \in Reviews, review[r] # NoReview, Superseded(r)
  PROVE  review'[r] = review[r]
<1>1. Quiet(r) \/ Loses(r) \/ Gains(r)
  BY OneReviewMoves
<1> QED
  BY <1>1 DEF Superseded, Terminal, Quiet, Loses, Worked, GivenUp, Due, Gains, Opens, Moves, Enabled

LEMMA SupersededByMoves ==
  ASSUME IInv, StepMoves, NEW f \in Refreshes
  PROVE  /\ \A r \in SupersededBy(f) : r \in SupersededBy(f)' /\ review'[r] = review[r]
         /\ \A r \in SupersededBy(f)' \ SupersededBy(f) : GivenUp(f, r)
<1>1. ASSUME NEW r \in SupersededBy(f)
      PROVE  r \in SupersededBy(f)' /\ review'[r] = review[r]
  <2>1. r \in Reviews /\ Known(r) /\ review[r].supersession = f /\ Superseded(r)
        /\ review[r] # NoReview
    BY DEF SupersededBy, IInv, SupersededStay, ListedExists
  <2>2. review'[r] = review[r]
    BY <2>1, SupersededKept
  <2>3. Known(r)'
    BY <2>1, ListedMoves
  <2> QED
    BY <2>1, <2>2, <2>3 DEF SupersededBy
<1>2. ASSUME NEW r \in SupersededBy(f)' \ SupersededBy(f)
      PROVE  GivenUp(f, r)
  <2>1. r \in Reviews /\ Known(r)' /\ review'[r].supersession = f
    BY DEF SupersededBy
  <2>2. Known(r)
    BY <2>1, ListedMoves, NameAssumption DEF Opens
  <2>3. review[r].supersession # f
    BY <1>2, <2>1, <2>2 DEF SupersededBy
  <2>4. CASE Quiet(r) \/ Worked(r) \/ Moves(r)
    BY <2>1, <2>3, <2>4 DEF Quiet, Worked, Moves
  <2>5. CASE Opens(r)
    BY <2>1, <2>5, NameAssumption DEF Opens
  <2>6. ASSUME NEW g \in Refreshes, Enabled(g, r) PROVE FALSE
    BY <2>1, <2>3, <2>6, EnabledFields
  <2>7. ASSUME NEW g \in Refreshes, GivenUp(g, r) PROVE g = f
    BY <2>1, <2>7, SupersedeFields DEF GivenUp
  <2> QED
    BY <2>1, <2>4, <2>5, <2>6, <2>7, OneReviewMoves DEF Loses, Gains
<1> QED
  BY <1>1, <1>2

(* What the command on f, and the status of f, say before a step.            *)
LEMMA CommandFacts ==
  ASSUME IInv, NEW f \in Refreshes
  PROVE  /\ Unwritten(f) => run[f].step \in {"idle", "write"}
         /\ refresh[f].status = "recorded" => run[f].step = "idle"
         /\ run[f].step = "idle" => run[f].step \notin {"write", "check", "create", "supersede",
                                                        "enable", "record"}
         /\ IdleRun.step = "idle"
  BY DEF IInv, CommandsHoldLease, Unwritten, IdleRun

(* The revision a Refresh replaces is known before it has written.           *)
LEMMA FromKept ==
  ASSUME IInv, NEW f \in Refreshes, RefreshMoves(f)
  PROVE  /\ Prepares(f) \/ refresh'[f].from = refresh[f].from
         /\ Unwritten(f)' => Unwritten(f)
         /\ Prepares(f) => Unwritten(f)
<1>1. Finishes(f) => refresh'[f].from = refresh[f].from /\ refresh'[f].status = "recorded"
  BY SuccessionParts DEF Finishes, SuccessionTyped, RefreshState
<1> QED
  BY <1>1 DEF RefreshMoves, Rests, Prepares, Starts, IsWritten, Creates, Succeeds, Enables, Unwritten

LEMMA NothingBeforeWriteKept ==
  ASSUME IInv, StepMoves
  PROVE  NothingBeforeWrite'
<1> SUFFICES ASSUME NEW f \in Refreshes, Unwritten(f)'
             PROVE  ReviewOf(f)' = {} /\ SupersededBy(f)' = {} /\ history'.held[f] = {}
  BY DEF NothingBeforeWrite
<1>1. RefreshMoves(f)
  BY DEF StepMoves
<1>2. Unwritten(f)
  BY <1>1, FromKept
<1>3. ReviewOf(f) = {} /\ SupersededBy(f) = {} /\ history.held[f] = {}
  BY <1>2 DEF IInv, NothingBeforeWrite
<1>4. run[f].step \in {"idle", "write"}
  BY <1>2, CommandFacts
<1>5. ReviewOf(f)' = {}
  BY <1>3, <1>4, ReviewOfMoves
<1>6. SupersededBy(f)' = {}
  BY <1>3, <1>4, SupersededByMoves DEF GivenUp
<1>7. HeldShrinks(f)
  BY <1>1 DEF RefreshMoves, Rests, Prepares, Starts, IsWritten, Creates, Succeeds, Enables,
     Finishes, Unwritten
<1> QED
  BY <1>3, <1>5, <1>6, <1>7 DEF HeldShrinks

LEMMA SupersededStayKept ==
  ASSUME IInv, StepMoves
  PROVE  SupersededStay'
<1> SUFFICES ASSUME NEW f \in Refreshes, NEW r \in SupersededBy(f)'
             PROVE  /\ review'[r].status = "REVIEW_SUPERSEDED_BY_REFRESH"
                    /\ review'[r].baseline = refresh'[f].from =>
                         entry'[r].baseline = refresh'[f].from
  BY DEF SupersededStay, Superseded
<1>1. RefreshMoves(f)
  BY DEF StepMoves
<1>2. CASE r \in SupersededBy(f)
  <2>1. r \in Reviews /\ Superseded(r) /\ review[r] # NoReview
        /\ (review[r].baseline = refresh[f].from => entry[r].baseline = refresh[f].from)
    BY <1>2 DEF SupersededBy, IInv, SupersededStay, ListedExists
  <2>2. review'[r] = review[r]
    BY <1>2, SupersededByMoves
  <2>3. Quiet(r)
    BY <2>1, OneReviewMoves
       DEF Superseded, Terminal, Loses, Worked, GivenUp, Due, Gains, Opens, Moves, Enabled
  <2>4. refresh'[f].from = refresh[f].from
    BY <1>1, <1>2, FromKept DEF IInv, NothingBeforeWrite
  <2> QED
    BY <2>1, <2>2, <2>3, <2>4 DEF Quiet, Superseded
<1>3. CASE r \notin SupersededBy(f)
  <2>1. GivenUp(f, r)
    BY <1>3, SupersededByMoves
  <2>2. refresh'[f].from = refresh[f].from
    BY <1>1, <2>1, FromKept, CommandFacts DEF GivenUp
  <2>3. entry[r].baseline = refresh[f].from
    BY <2>1 DEF GivenUp, Due, Entered
  <2> QED
    BY <2>1, <2>2, <2>3, SupersedeFields DEF GivenUp
<1> QED
  BY <1>2, <1>3

LEMMA RecordsAgreeKept ==
  ASSUME IInv, StepMoves
  PROVE  RecordsAgree'
<1> SUFFICES ASSUME NEW f \in Refreshes
             PROVE  /\ run'[f].step \in {"enable", "record"} => Records(f, run[f].superseded)'
                    /\ refresh'[f].status = "recorded" => Records(f, refresh[f].superseded)'
  BY DEF RecordsAgree
<1>1. RefreshMoves(f)
  BY DEF StepMoves
<1>2. /\ run[f].step \in {"enable", "record"} => Records(f, run[f].superseded)
      /\ refresh[f].status = "recorded" => Records(f, refresh[f].superseded)
  BY DEF IInv, RecordsAgree
<1>3. run[f].step # "supersede" =>
        /\ SupersededBy(f)' = SupersededBy(f)
        /\ \A r \in SupersededBy(f) : review'[r] = review[r]
  BY SupersededByMoves DEF GivenUp
<1>4. CASE Rests(f)
  <2>1. refresh'[f] = refresh[f] /\ run'[f] \in {run[f], IdleRun}
    BY <1>4 DEF Rests
  <2> QED
    BY <1>2, <1>3, <2>1, CommandFacts DEF Records
<1>5. CASE Prepares(f)
  BY <1>5, CommandFacts DEF Prepares, Unwritten
<1>6. CASE Starts(f) \/ IsWritten(f) \/ Creates(f)
  BY <1>6 DEF Starts, IsWritten, Creates, IInv, CommandsHoldLease
<1>7. CASE Succeeds(f)
  BY <1>7, CommandFacts DEF Succeeds
<1>8. CASE Enables(f)
  <2>1. run[f].step = "enable" /\ refresh'[f] = refresh[f] /\ run'[f].superseded = run[f].superseded
    BY <1>8 DEF Enables, Kept
  <2>2. refresh'[f].status # "recorded"
    BY <2>1, CommandFacts
  <2> QED
    BY <1>2, <1>3, <2>1, <2>2 DEF Records
<1>9. CASE Finishes(f)
  <2>1. /\ run[f].step = "record" /\ run'[f] = IdleRun
        /\ refresh'[f].superseded = run[f].superseded /\ refresh'[f].from = refresh[f].from
    BY <1>9, SuccessionParts DEF Finishes, SuccessionTyped, RefreshState
  <2> QED
    BY <1>2, <1>3, <2>1, CommandFacts DEF Records
<1> QED
  BY <1>1, <1>4, <1>5, <1>6, <1>7, <1>8, <1>9 DEF RefreshMoves

LEMMA CommandsHoldLeaseKept ==
  ASSUME IInv, StepMoves
  PROVE  CommandsHoldLease'
<1> SUFFICES ASSUME NEW f \in Refreshes
             PROVE  /\ run'[f].step # "idle" => lease' = f
                    /\ run'[f].step = "write" => refresh'[f].status = "prepared"
                    /\ run'[f].step \notin {"idle", "write"} => refresh'[f].status = "refreshed"
                    /\ run'[f].step \in {"supersede", "enable", "record"} =>
                         run'[f].review \in Reviews /\ ReviewOf(f)' = {run'[f].review}
                    /\ refresh'[f].status = "recorded" => ReviewOf(f)' = {refresh'[f].review}
  BY DEF CommandsHoldLease, Succeeding
<1>1. RefreshMoves(f) /\ (run'[f].step # "idle" => lease' = f)
  BY DEF StepMoves, Good, UnderLease
<1>2. /\ run[f].step = "write" => refresh[f].status = "prepared"
      /\ run[f].step \notin {"idle", "write"} => refresh[f].status = "refreshed"
      /\ run[f].step \in {"supersede", "enable", "record"} =>
           run[f].review \in Reviews /\ ReviewOf(f) = {run[f].review}
      /\ refresh[f].status = "recorded" => ReviewOf(f) = {refresh[f].review}
  BY DEF IInv, CommandsHoldLease, Succeeding
<1>3. run[f].step # "create" => ReviewOf(f)' = ReviewOf(f)
  BY ReviewOfMoves
<1>4. CASE Rests(f)
  <2>1. refresh'[f] = refresh[f] /\ run'[f] \in {run[f], IdleRun}
    BY <1>4 DEF Rests
  <2> QED
    BY <1>1, <1>2, <1>3, <2>1, CommandFacts
<1>5. CASE Prepares(f)
  BY <1>1, <1>5, CommandFacts DEF Prepares, Unwritten, IInv, CommandsHoldLease
<1>6. CASE Starts(f) \/ IsWritten(f) \/ Creates(f)
  BY <1>1, <1>2, <1>6 DEF Starts, IsWritten, Creates
<1>7. CASE Succeeds(f) \/ Enables(f)
  BY <1>1, <1>2, <1>3, <1>7 DEF Succeeds, Enables, Kept
<1>8. CASE Finishes(f)
  <2>1. /\ run[f].step = "record" /\ run'[f] = IdleRun
        /\ refresh'[f].review = run[f].review /\ refresh'[f].status = "recorded"
    BY <1>8, SuccessionParts DEF Finishes, SuccessionTyped, RefreshState
  <2> QED
    BY <1>1, <1>2, <1>3, <2>1, CommandFacts
<1> QED
  BY <1>1, <1>4, <1>5, <1>6, <1>7, <1>8 DEF RefreshMoves

-----------------------------------------------------------------------------
(* The predecessors.                                                         *)
LEMMA HeldStay ==
  ASSUME IInv, StepMoves, NEW f \in Refreshes, NEW s \in history.held[f] \cap history'.held[f]
  PROVE  /\ s \in Reviews /\ review'[s] # NoReview
         /\ review'[s].capability = "WRITE" \/ Superseded(s)'
         /\ Writes(review'[s]) =>
              /\ Writes(review[s]) /\ Known(s)'
              /\ entry'[s].baseline = refresh[f].from /\ review'[s].baseline = refresh[f].from
<1>1. /\ s \in Reviews /\ review[s] # NoReview
      /\ review[s].capability = "WRITE" \/ Superseded(s)
      /\ Writes(review[s]) =>
           /\ Known(s) /\ entry[s].baseline = refresh[f].from
           /\ review[s].baseline = refresh[f].from
  BY TypedParts DEF HistoryTyped, IInv, HeldAreListed
<1>2. review'[s] # NoReview
  BY <1>1, ListedMoves, RecordAssumption
<1>3. ~Opens(s) /\ ~Moves(s)
  BY <1>1 DEF Opens, Moves
<1>4. CASE Quiet(s)
  BY <1>1, <1>2, <1>4 DEF Quiet, Superseded, Known
<1>5. CASE Worked(s)
  BY <1>1, <1>2, <1>5 DEF Worked, Superseded, Known, Terminal, Writes
<1>6. ASSUME NEW g \in Refreshes, GivenUp(g, s)
      PROVE  Superseded(s)' /\ ~Writes(review'[s])
  BY <1>6, SupersedeFields DEF GivenUp, Superseded, Writes, Terminal
<1>7. ASSUME NEW g \in Refreshes, Enabled(g, s)
      PROVE  /\ review'[s].capability = "WRITE" /\ Writes(review[s]) /\ Known(s)'
             /\ entry'[s].baseline = refresh[f].from /\ review'[s].baseline = refresh[f].from
  <2>1. Writes(review[s])
    BY <1>1, <1>7, EnabledFields DEF Superseded, Writes, Terminal
  <2> QED
    <3>1. Known(s)' /\ review'[s].capability = "WRITE"
          /\ review'[s].baseline = review[s].baseline
      BY <1>1, <1>7, <2>1, EnabledFields, ListedMoves
    <3>2. entry'[s] \in {entry[s], review'[s]}
      BY <1>7 DEF Enabled, Admitted
    <3> QED
      BY <1>1, <2>1, <3>1, <3>2
<1> QED
  BY <1>1, <1>2, <1>3, <1>4, <1>5, <1>6, <1>7, OneReviewMoves DEF Loses, Gains

LEMMA HeldAreListedKept ==
  ASSUME IInv, StepMoves
  PROVE  HeldAreListed'
<1> SUFFICES ASSUME NEW f \in Refreshes, NEW s \in history'.held[f]
             PROVE  /\ review'[s] # NoReview
                    /\ review'[s].capability = "WRITE" \/ Superseded(s)'
                    /\ Writes(review'[s]) =>
                         /\ Known(s)' /\ entry'[s].baseline = refresh'[f].from
                         /\ review'[s].baseline = refresh'[f].from
  BY DEF HeldAreListed
<1>1. RefreshMoves(f)
  BY DEF StepMoves
<1>2. CASE s \in history.held[f]
  <2>1. refresh'[f].from = refresh[f].from
    BY <1>1, <1>2, FromKept DEF IInv, NothingBeforeWrite
  <2> QED
    BY <1>2, <2>1, HeldStay
<1>3. CASE s \notin history.held[f]
  <2>1. IsWritten(f)
    BY <1>1, <1>3 DEF RefreshMoves, Rests, Prepares, Starts, Creates, Succeeds, Enables, Finishes,
       HeldShrinks
  <2>2. /\ s \in Reviews \ history.unchecked /\ Writes(review[s])
        /\ review[s].baseline = refresh[f].from /\ review' = review /\ entry' = entry
        /\ refresh'[f].from = refresh[f].from
    BY <2>1 DEF IsWritten
  <2>3. Writes(entry[s]) /\ entry[s].baseline = review[s].baseline
    BY <2>2 DEF IInv, EntryShows
  <2> QED
    BY <2>2, <2>3 DEF Writes, Known
<1> QED
  BY <1>2, <1>3

LEMMA GaveUpKept ==
  ASSUME IInv, StepMoves, NEW f \in Refreshes, GaveUp(f), HeldShrinks(f)
  PROVE  GaveUp(f)'
  BY HeldStay DEF GaveUp, HeldShrinks

LEMMA HeldGaveUpKept ==
  ASSUME IInv, StepMoves
  PROVE  HeldGaveUp'
<1> SUFFICES ASSUME NEW f \in Refreshes,
                    run'[f].step \in {"enable", "record"} \/ refresh'[f].status = "recorded"
             PROVE  GaveUp(f)'
  BY DEF HeldGaveUp
<1>1. RefreshMoves(f)
  BY DEF StepMoves
<1>2. CASE Succeeds(f)
  BY <1>2 DEF Succeeds
<1>3. CASE Rests(f) \/ Enables(f) \/ Finishes(f)
  <2>1. run[f].step \in {"enable", "record"} \/ refresh[f].status = "recorded"
    BY <1>3, CommandFacts DEF Rests, Enables, Finishes
  <2>2. GaveUp(f)
    BY <2>1 DEF IInv, HeldGaveUp
  <2>3. HeldShrinks(f)
    BY <1>3 DEF Rests, Enables, Finishes
  <2> QED
    BY <2>2, <2>3, GaveUpKept
<1>4. CASE Prepares(f)
  BY <1>4, CommandFacts DEF Prepares, Unwritten
<1>5. CASE Starts(f) \/ IsWritten(f) \/ Creates(f)
  BY <1>5 DEF Starts, IsWritten, Creates, IInv, CommandsHoldLease
<1> QED
  BY <1>1, <1>2, <1>3, <1>4, <1>5 DEF RefreshMoves

LEMMA PredecessorsKept ==
  ASSUME IInv, StepMoves
  PROVE  PredecessorsGiveUp'
<1> SUFFICES ASSUME NEW f \in Refreshes, NEW r \in ReviewOf(f)', Writes(review'[r])
             PROVE  GaveUp(f)'
  BY DEF PredecessorsGiveUp, GaveUp
<1>1. RefreshMoves(f) /\ r \in Reviews
  BY DEF StepMoves, ReviewOf
<1>2. r \in ReviewOf(f) /\ Known(r)
  BY ReviewOfMoves DEF Writes, ReviewOf
<1>3. GaveUp(f)
  <2>1. CASE Writes(review[r])
    BY <1>2, <2>1 DEF IInv, PredecessorsGiveUp, GaveUp
  <2>2. CASE \E g \in Refreshes : Enabled(g, r)
    <3>1. PICK g \in Refreshes : Enabled(g, r)
      BY <2>2
    <3>2. r \in ReviewOf(g) /\ run[g].step = "enable"
      BY <3>1 DEF Enabled, IInv, CommandsHoldLease, Succeeding
    <3>3. g = f
      BY <1>2, <3>2 DEF ReviewOf
    <3> QED
      BY <3>2, <3>3 DEF IInv, HeldGaveUp
  <2>3. CASE Quiet(r) \/ Loses(r)
    BY <1>1, <2>1, <2>3, LosersWrite
  <2>4. CASE Moves(r)
    <3>1. Writes(review[r])
      BY <1>1, <1>2, <2>4 DEF Moves, Writes, IInv, ListedExists
    <3> QED
      BY <2>1, <3>1
  <2>5. ~Opens(r)
    BY <1>1, <1>2 DEF Opens, IInv, ListedExists
  <2> QED
    BY <1>1, <2>2, <2>3, <2>4, <2>5, OneReviewMoves DEF Gains
<1>4. HeldShrinks(f)
  <2>1. ~IsWritten(f)
    BY <1>2 DEF IsWritten, IInv, CommandsHoldLease, NothingBeforeWrite, Unwritten
  <2> QED
    BY <1>1, <2>1 DEF RefreshMoves, Rests, Prepares, Starts, Creates, Succeeds, Enables, Finishes
<1> QED
  BY <1>3, <1>4, GaveUpKept

-----------------------------------------------------------------------------
LEMMA BatchesKept ==
  ASSUME IInv, Next, StepMoves
  PROVE  BatchesAreKnown'
<1>1. \A r \in Reviews : Known(r) => Known(r)'
  BY ListedMoves
<1>2. \A r \in Reviews : lease = r \/ batch[r].state # "NONE" => Known(r)
  BY DEF IInv, BatchesAreKnown
<1>3. batch \in [Reviews -> [state : {"NONE", "WRITE_REQUESTED", "WRITE_OUTCOME_UNKNOWN"},
                             made : Revisions]]
  BY DEF IInv, TypeOK
<1>4. SUFFICES ASSUME NEW r \in Reviews, lease' = r \/ batch'[r].state # "NONE"
               PROVE  Known(r)
  BY <1>1 DEF BatchesAreKnown
<1>5. ASSUME NEW s \in Reviews, ReviewStep(s) PROVE Known(r)
  <2>1. CASE UNCHANGED <<batch, lease>>
    BY <1>2, <1>4, <2>1
  <2>2. ASSUME NEW dies \in BOOLEAN, ConfirmTargetRepairWrite(s, dies) PROVE Known(r)
    BY <1>2, <1>3, <1>4, <2>2, NameAssumption DEF ConfirmTargetRepairWrite
  <2>3. CASE PrepareTargetRepairWrite(s)
    BY <1>2, <1>3, <1>4, <2>3 DEF PrepareTargetRepairWrite
  <2>4. CASE SaveWork(s)
    BY <1>2, <1>3, <1>4, <2>4 DEF SaveWork
  <2>5. CASE MarkTargetRepairUncertain(s)
    BY <1>2, <1>3, <1>4, <2>5, NameAssumption DEF MarkTargetRepairUncertain
  <2> QED
    BY <1>5, <2>1, <2>2, <2>3, <2>4, <2>5
       DEF ReviewStep, CreateReview, AcceptExternalRevision, ObserveTargetRevision, Work, platform
<1>6. ASSUME NEW f \in Refreshes, RefreshStep(f) PROVE Known(r)
  <2>1. batch' = batch /\ lease' \in {lease, Free, f}
    BY <1>6 DEF RefreshStep, PrepareRefresh, StartApply, ApplyWrite, StartFinalize, Check,
       SupersedeForRefresh, RefuseRefreshReviewWrite, RecordReviewSuccession, CreateFromRefresh,
       SupersedeSome, EnableRefreshReviewWrite, Stop, GoOn, platform
  <2> QED
    BY <1>2, <1>4, <2>1, NameAssumption
<1>7. CASE Kill \/ EditTarget
  BY <1>2, <1>4, <1>7, NameAssumption DEF Kill, EditTarget
<1> QED
  BY <1>5, <1>6, <1>7 DEF Next

LEMMA InvariantHoldsInitially == Init => IInv
<1> SUFFICES ASSUME Init PROVE IInv
  OBVIOUS
<1> USE DEF Init
<1>1. \A r \in Reviews : review[r] = NoReview /\ entry[r] = NoReview
  OBVIOUS
<1>2. TypeOK
  BY BoundAssumption DEF TypeOK, IdleRun, Steps, Revisions
<1>3. ListedExists /\ EntryShows /\ OneWriterIfChecked
  BY <1>1 DEF ListedExists, Known, EntryShows, Writes, OneWriterIfChecked, BothWrite
<1>4. BatchesAreKnown
  BY NameAssumption DEF BatchesAreKnown
<1>5. \A f \in Refreshes : /\ ReviewOf(f) = {} /\ SupersededBy(f) = {} /\ history.held[f] = {}
                           /\ refresh[f].status = "none" /\ run[f].step = "idle"
  BY <1>1 DEF ReviewOf, SupersededBy, Known, IdleRun
<1>6. OneReview /\ CommandsHoldLease /\ NothingBeforeWrite /\ PredecessorsGiveUp
  BY <1>5 DEF OneReview, CommandsHoldLease, Succeeding, NothingBeforeWrite, PredecessorsGiveUp
<1>7. SupersededStay /\ RecordsAgree /\ HeldAreListed /\ HeldGaveUp
  BY <1>5 DEF SupersededStay, RecordsAgree, HeldAreListed, HeldGaveUp
<1> QED
  BY <1>2, <1>3, <1>4, <1>6, <1>7 DEF IInv

LEMMA InvariantIsKept == IInv /\ [Next]_vars => IInv'
<1> SUFFICES ASSUME IInv, [Next]_vars PROVE IInv'
  OBVIOUS
<1>1. CASE Next
  <2>1. StepMoves
    BY <1>1, NextMoves
  <2> QED
    BY <1>1, <2>1, TypingKept, ListedExistsKept, EntryShowsKept, BatchesKept, OneReviewKept,
       CommandsHoldLeaseKept, NothingBeforeWriteKept, SupersededStayKept, RecordsAgreeKept,
       HeldAreListedKept, HeldGaveUpKept, OneWriterKept, PredecessorsKept DEF IInv
<1>2. CASE UNCHANGED vars
  BY <1>2 DEF vars, IInv, TypeOK, ListedExists, EntryShows, BatchesAreKnown, OneReview,
     CommandsHoldLease, Succeeding, NothingBeforeWrite, Unwritten, SupersededStay, RecordsAgree,
     Records, HeldAreListed, HeldGaveUp, GaveUp, OneWriterIfChecked, BothWrite,
     PredecessorsGiveUp, ReviewOf, SupersededBy, Superseded, Known
<1> QED
  BY <1>1, <1>2

(* The invariant of the registry, the succession and the commands.           *)
THEOREM SuccessionInvariant == Spec => []IInv
  BY InvariantHoldsInitially, InvariantIsKept, PTL DEF Spec

(* Every file of a Review and of a Refresh, the registry and the lease have  *)
(* the shape the code reads.                                                 *)
THEOREM TypeCorrect == Spec => []TypeOK
<1>1. IInv => TypeOK
  BY DEF IInv
<1> QED
  BY <1>1, SuccessionInvariant, PTL

(* Two Reviews that are not terminal and may write the same revision: one of *)
(* them was never looked at by #assertNoWriteConflict, or died unlisted.     *)
THEOREM OneWriterHolds == Spec => []OneWriterIfChecked
<1>1. IInv => OneWriterIfChecked
  BY DEF IInv
<1> QED
  BY <1>1, SuccessionInvariant, PTL

(* enableRefreshReviewWrite never gives its capability to the Review of a    *)
(* Refresh while one that wrote the old revision still has its own.          *)
THEOREM PredecessorsHaveGivenUp == Spec => []PredecessorsGiveUp
<1>1. IInv => PredecessorsGiveUp
  BY DEF IInv
<1> QED
  BY <1>1, SuccessionInvariant, PTL

(* What recordReviewSuccession wrote stays true of the Reviews.              *)
THEOREM SuccessionRecorded == Spec => []SuccessionIsRecorded
<1>1. IInv => SuccessionIsRecorded
  BY DEF IInv, SuccessionIsRecorded, CommandsHoldLease, RecordsAgree, Records
<1> QED
  BY <1>1, SuccessionInvariant, PTL

(* No operation changes a Review that supersedeForRefresh has superseded.    *)
THEOREM SupersededReviewsAreFinal == Spec => SupersededIsFinal
<1>1. IInv /\ [Next]_vars =>
        [\A r \in Reviews : Known(r) /\ Superseded(r) => review'[r] = review[r]]_vars
  <2> SUFFICES ASSUME IInv, Next, NEW r \in Reviews, Known(r), Superseded(r)
               PROVE  review'[r] = review[r]
    OBVIOUS
  <2>1. review[r] # NoReview
    BY DEF IInv, ListedExists
  <2> QED
    BY <2>1, NextMoves, SupersededKept
<1> QED
  BY <1>1, SuccessionInvariant, PTL DEF Spec, SupersededIsFinal
=============================================================================

----------------------------- MODULE SaveAsProofs -----------------------------
(* Proofs about SaveAs, for every bound, every platform nid and every        *)
(* interleaving of runs, cuts, faults and edits.                             *)
EXTENDS SaveAs, TLAPS

(* The statuses a Save As run moves a Job to are statuses of the graph.      *)
LEMMA SaveStatuses ==
  {"READY_TO_SAVE", "READY_TO_SAVE_DIAGNOSTIC_COPY", "SAVE_AS_CREATED",
   "SAVE_INCOMPLETE", "FINAL_SAVED", "POST_SAVE_VERIFIED", "SUCCEEDED",
   "DIAGNOSTIC_COPY_CREATED", "TARGET_PERMISSION_DENIED", "SOURCE_CHANGED",
   "FAILED"} \subseteq Statuses
  BY DEF Statuses, Terminal, Transitions

LEMMA InitType == Init => TypeOK
  BY SaveStatuses, RevisionAssumption, NidAssumption
  DEF Init, TypeOK, Requests, ReadyStatus, NewJournal, Journal, Intents, Phases,
      RoutingStates, Steps, Nids, NoTransition, OtherCase, NewCase, Case, Contents,
      PinnedWorkId, Histories

-----------------------------------------------------------------------------
(* Type correctness.  TypeOK is split over the variables a step groups: what *)
(* is on disk and in the process, and what the platform and the history are. *)
LocalType ==
  /\ status \in Statuses
  /\ disk \in Journal /\ mem \in Journal
  /\ pc \in Steps
  /\ after \in [to : Statuses, then : Steps]

LEMMA FreshJournal ==
  ASSUME NEW phase \in Phases, NEW intent \in Intents
  PROVE NewJournal(phase, intent) \in Journal
  BY DEF NewJournal, Journal, RoutingStates

LEMMA PhaseType ==
  ASSUME mem \in Journal
  PROVE  /\ \A p \in Phases : [mem EXCEPT !.phase = p] \in Journal
         /\ \A r \in RoutingStates : [mem EXCEPT !.routing = r] \in Journal
  BY DEF Journal

LEMMA CaseType ==
  /\ OtherCase \in Case
  /\ \A t \in Contents, c \in Nat, r \in Nat : NewCase(t, c, r) \in Case
  /\ work \in Case =>
       /\ \A c \in Nat : [work EXCEPT !.config = c] \in Case
       /\ \A r \in Nat : [work EXCEPT !.routing = r] \in Case
       /\ Saved \in Case
       /\ [Saved EXCEPT !.content = "other"] \in Case
       /\ [work EXCEPT !.content = "other", !.workId = work.workId + 1] \in Case
       /\ [work EXCEPT !.paths = @ + 1] \in Case
<1>1. /\ OtherCase \in Case
      /\ \A t \in Contents, c \in Nat, r \in Nat : NewCase(t, c, r) \in Case
  BY DEF OtherCase, NewCase, Case, Contents
<1>2. ASSUME work \in Case
      PROVE  /\ \A c \in Nat : [work EXCEPT !.config = c] \in Case
             /\ \A r \in Nat : [work EXCEPT !.routing = r] \in Case
             /\ [work EXCEPT !.paths = @ + 1] \in Case
  BY <1>2 DEF Case
<1>3. ASSUME work \in Case
      PROVE  \A t \in Contents, n \in Nat :
               [work EXCEPT !.content = t, !.workId = n] \in Case
  BY <1>3 DEF Case
<1>4. ASSUME work \in Case
      PROVE  /\ Saved \in Case
             /\ [work EXCEPT !.content = "other", !.workId = work.workId + 1] \in Case
  <2>1. work.workId + 1 \in Nat
    BY <1>4 DEF Case
  <2> QED
    BY <1>3, <1>4, <2>1 DEF Saved, Contents
<1>5. ASSUME work \in Case PROVE [Saved EXCEPT !.content = "other"] \in Case
  BY <1>4, <1>5 DEF Case, Contents
<1> QED
  BY <1>1, <1>2, <1>3, <1>4, <1>5

LEMMA HistoryType ==
  ASSUME history \in Histories
  PROVE  /\ [history EXCEPT !.routingInDoubt = FALSE] \in Histories
         /\ [history EXCEPT !.routingInDoubt = TRUE] \in Histories
         /\ [history EXCEPT !.touched = TRUE] \in Histories
         /\ [history EXCEPT !.cases = @ + 1, !.touched = FALSE] \in Histories
         /\ \A n \in {0, 1} : [history EXCEPT !.cases = @ + n] \in Histories
         /\ [history EXCEPT !.orphans = @ + 1] \in Histories
<1>1. [history EXCEPT !.routingInDoubt = FALSE] \in Histories
  BY DEF Histories
<1>2. [history EXCEPT !.routingInDoubt = TRUE] \in Histories
  BY DEF Histories
<1>3. [history EXCEPT !.touched = TRUE] \in Histories
  BY DEF Histories
<1>4. [history EXCEPT !.cases = @ + 1, !.touched = FALSE] \in Histories
  <2>1. \A n \in Nat, b \in BOOLEAN :
          [history EXCEPT !.cases = n, !.touched = b] \in Histories
    BY DEF Histories
  <2>2. history.cases + 1 \in Nat
    BY DEF Histories
  <2> QED
    BY <2>1, <2>2
<1>5. \A n \in {0, 1} : [history EXCEPT !.cases = @ + n] \in Histories
  BY DEF Histories
<1>6. [history EXCEPT !.orphans = @ + 1] \in Histories
  BY DEF Histories
<1> QED
  BY <1>1, <1>2, <1>3, <1>4, <1>5, <1>6

LEMMA ForgetType ==
  ASSUME TypeOK, Forget, UNCHANGED <<status, disk>>
  PROVE LocalType' /\ read' \in Case
  BY FreshJournal, CaseType, SaveStatuses
  DEF TypeOK, LocalType, Forget, NoTransition, Steps, Phases, Requests

LEMMA CreateType == TypeOK /\ Create => TypeOK'
<1> SUFFICES ASSUME TypeOK, Create PROVE TypeOK'
  OBVIOUS
<1> USE SaveStatuses, PhaseType, HistoryType DEF TypeOK, LocalType
<1>1. CASE Preflight
  BY <1>1 DEF Preflight, Persist, PersistThen, Checkpoint, EditHappens, platform, Steps
<1>2. CASE RecheckSource
  BY <1>2 DEF RecheckSource, Continue, PersistThen, Checkpoint, platform, Quiet, Steps
<1>3. CASE ReadEnvironment
  <2>1. CASE Throw
    BY <1>3, <2>1, ForgetType DEF ReadEnvironment, Throw, platform, Quiet
  <2>2. CASE Continue([mem EXCEPT !.config = source.config, !.domain = source.domain],
                       IF mem.target = NoCase THEN "requestCreate" ELSE "config")
             /\ UNCHANGED read
    <3>1. [mem EXCEPT !.config = source.config, !.domain = source.domain] \in Journal
      BY DEF Journal
    <3> QED
      BY <1>3, <2>2, <3>1 DEF ReadEnvironment, Continue, platform, Quiet, Steps
  <2> QED
    BY <1>3, <2>1, <2>2 DEF ReadEnvironment
<1>4. CASE RequestCreate
  BY <1>4 DEF RequestCreate, Persist, Checkpoint, Phase, Phases, platform, Quiet, Steps
<1>5. CASE CreateAnswered
  <2>1. PICK nid \in {history.cases + 1, Source, Prior} :
          /\ mem' = [mem EXCEPT !.target = nid, !.targetWorkId = 0]
          /\ IF nid \in {Source, Prior}
               THEN /\ spent' = [spent EXCEPT !.faults = @ + 1]
                    /\ work' = OtherCase
                    /\ history' = history
               ELSE /\ \E config \in {0, source.config}, routing \in {0, source.domain} :
                         work' = NewCase(IF request.selfReference THEN "initial" ELSE "final",
                                         config, routing)
                    /\ history' = [history EXCEPT !.cases = @ + 1, !.touched = FALSE]
                    /\ spent' = spent
    BY <1>5 DEF CreateAnswered, Continue, FaultHappens
  <2>2. mem' \in Journal
    <3>1. nid \in Nids
      BY DEF Nids, Histories
    <3> QED
      BY <2>1, <3>1 DEF Journal
  <2>3. LocalType'
    BY <1>5, <2>2 DEF CreateAnswered, Continue, Steps
  <2>4. CASE nid \in {Source, Prior}
    BY <1>5, <2>1, <2>3, <2>4, CaseType DEF CreateAnswered
  <2>5. CASE nid \notin {Source, Prior}
    <3>1. PICK config \in {0, source.config}, routing \in {0, source.domain} :
            work' = NewCase(IF request.selfReference THEN "initial" ELSE "final",
                            config, routing)
      BY <2>1, <2>5
    <3>2. work' \in Case
      BY <3>1, CaseType DEF Contents
    <3>3. history' = [history EXCEPT !.cases = @ + 1, !.touched = FALSE] /\ spent' = spent
      BY <2>1, <2>5
    <3> QED
      BY <1>5, <2>3, <3>2, <3>3 DEF CreateAnswered
  <2> QED
    BY <2>4, <2>5
<1>6. CASE CreateFails
  BY <1>6 DEF CreateFails, FaultHappens, Continue, platform, Steps
<1>7. CASE RecordCreateRejected
  BY <1>7 DEF RecordCreateRejected, PersistThen, Checkpoint, Phase, Phases, platform, Quiet, Steps
<1>8. CASE RecordCreateUnknown
  BY <1>8 DEF RecordCreateUnknown, UnknownCreate, PersistThen, Checkpoint, Phases, platform, Quiet, Steps
<1>9. CASE RecordCreated
  BY <1>9 DEF RecordCreated, PersistThen, Checkpoint, Phase, Phases, platform, Quiet, Steps
<1> QED
  BY <1>1, <1>2, <1>3, <1>4, <1>5, <1>6, <1>7, <1>8, <1>9 DEF Create

LEMMA ConfigureType == TypeOK /\ Configure => TypeOK'
<1> SUFFICES ASSUME TypeOK, Configure PROVE TypeOK'
  OBVIOUS
<1> USE SaveStatuses, PhaseType, HistoryType DEF TypeOK
<1>1. CASE ReadConfig
  BY <1>1 DEF ReadConfig, Persist, Checkpoint, Continue, platform, Quiet, Steps
<1>2. CASE WriteConfig
  <2>1. Configured \in Case
    BY CaseType DEF Configured, Journal
  <2> QED
    BY <1>2, <2>1 DEF WriteConfig, Continue, FaultHappens, Steps
<1>3. CASE CheckConfig
  BY <1>3 DEF CheckConfig, Persist, Checkpoint, Continue, FaultHappens, platform, Steps
<1>4. CASE RecordConfigIncomplete
  BY <1>4 DEF RecordConfigIncomplete, PersistThen, Checkpoint, Phase, Phases, platform, Quiet, Steps
<1> QED
  BY <1>1, <1>2, <1>3, <1>4 DEF Configure

LEMMA RouteType == TypeOK /\ Route => TypeOK'
<1> SUFFICES ASSUME TypeOK, Route PROVE TypeOK'
  OBVIOUS
<1> USE SaveStatuses, PhaseType, HistoryType DEF TypeOK, LocalType
<1>1. CASE ReadRouting
  BY <1>1 DEF ReadRouting, Continue, platform, Quiet, Steps
<1>2. CASE FreezeRouting
  <2>1. CASE Throw
    BY <1>2, <2>1, ForgetType DEF FreezeRouting, Throw, platform, Quiet
  <2>2. CASE Persist([mem EXCEPT !.routing = "PENDING", !.paths = read.paths],
                     "compareRouting") /\ UNCHANGED read
    <3>1. [mem EXCEPT !.routing = "PENDING", !.paths = read.paths] \in Journal
      BY DEF Journal, RoutingStates, Case
    <3> QED
      BY <1>2, <2>2, <3>1 DEF FreezeRouting, Persist, Checkpoint, platform, Quiet, Steps
  <2> QED
    BY <1>2, <2>1, <2>2 DEF FreezeRouting
<1>3. CASE CompareRouting
  <2>1. CASE Throw /\ UNCHANGED history
    BY <1>3, <2>1, ForgetType DEF CompareRouting, Throw, platform
  <2>2. CASE ~(Throw /\ UNCHANGED history)
    BY <1>3, <2>2 DEF CompareRouting, Persist, Checkpoint, Routing, RoutingStates, platform, Steps
  <2> QED
    BY <2>1, <2>2
<1>4. CASE WriteRouting
  <2>1. Routed \in Case
    BY CaseType DEF Routed, Journal
  <2>2. history' \in Histories
    BY <1>4, Zenon DEF WriteRouting
  <2> QED
    BY <1>4, <2>1, <2>2 DEF WriteRouting, Continue, FaultHappens, Steps
<1>5. CASE ReadBackRouting
  <2>1. history' \in Histories
    BY <1>5, Zenon DEF ReadBackRouting
  <2>2. Routing("CONFIRMED") \in Journal
    BY DEF Routing, RoutingStates
  <2> QED
    BY <1>5, <2>1, <2>2
    DEF ReadBackRouting, Persist, Checkpoint, Continue, FaultHappens, platform, Steps
<1>6. CASE RecordRoutingFailure
  <2>1. history' \in Histories
    BY <1>6, Zenon DEF RecordRoutingFailure
  <2>2. Routing("INCOMPLETE") \in Journal /\ Routing("OUTCOME_UNKNOWN") \in Journal
    BY DEF Routing, RoutingStates
  <2> QED
    BY <1>6, <2>1, <2>2
    DEF RecordRoutingFailure, PersistThen, Checkpoint, platform, Steps
<1> QED
  BY <1>1, <1>2, <1>3, <1>4, <1>5, <1>6 DEF Route

LEMMA FinalSaveType == TypeOK /\ FinalSave => TypeOK'
<1> SUFFICES ASSUME TypeOK, FinalSave PROVE TypeOK'
  OBVIOUS
<1> USE SaveStatuses, PhaseType, HistoryType DEF TypeOK, LocalType
<1>1. CASE ReadContent
  <2>1. CASE Throw
    BY <1>1, <2>1, ForgetType DEF ReadContent, Throw, platform, Quiet
  <2>2. CASE ~Throw
    BY <1>1, <2>2 DEF ReadContent, Continue, platform, Quiet, Steps
  <2> QED
    BY <2>1, <2>2
<1>2. CASE ConfirmContent
  BY <1>2 DEF ConfirmContent, PersistThen, Checkpoint, Phase, Phases, platform, Quiet, Steps
<1>3. CASE RequestSave
  <2>1. [mem EXCEPT !.phase = "FINAL_SAVE_REQUESTED", !.preSaveWorkId = read.workId]
          \in Journal
    <3>1. \A p \in Phases, n \in Nat :
            [mem EXCEPT !.phase = p, !.preSaveWorkId = n] \in Journal
      BY DEF Journal
    <3>2. read.workId \in Nat
      BY DEF Case
    <3> QED
      BY <3>1, <3>2 DEF Phases
  <2> QED
    BY <1>3, <2>1 DEF RequestSave, Persist, Checkpoint, platform, Quiet, Steps
<1>4. CASE Save
  BY <1>4, CaseType DEF Save, Continue, FaultHappens, Steps
<1>5. CASE RecordSaveResponse
  BY <1>5 DEF RecordSaveResponse, PersistThen, Checkpoint, Phase, Phases, platform, Quiet, Steps
<1>6. CASE RecordSaveUnknown
  BY <1>6 DEF RecordSaveUnknown, PersistThen, Checkpoint, Phase, Phases, platform, Quiet, Steps
<1>7. CASE Verify
  BY <1>7 DEF Verify, PersistThen, Checkpoint, Phase, Phases, platform, Quiet, Steps
<1>8. CASE Complete
  BY <1>8 DEF Complete, CompletionStatus, platform, Steps
<1> QED
  BY <1>1, <1>2, <1>3, <1>4, <1>5, <1>6, <1>7, <1>8 DEF FinalSave

LEMMA TransitionType == TypeOK /\ Transition => TypeOK'
<1> SUFFICES ASSUME TypeOK, Transition PROVE TypeOK'
  OBVIOUS
<1> USE SaveStatuses DEF TypeOK, LocalType
<1>1. CASE Throw
  BY <1>1, ForgetType DEF Transition, Throw, platform, Quiet
<1>2. CASE Forget /\ status' = after.to /\ UNCHANGED disk
  BY <1>2, FreshJournal, CaseType
  DEF Transition, Forget, NoTransition, Steps, Phases, Requests, platform, Quiet
<1>3. CASE ~Forget
  BY <1>3 DEF Transition, Throw, NoTransition, platform, Quiet, Steps
<1> QED
  BY <1>1, <1>2, <1>3 DEF Transition, Throw

LEMMA OutsideType ==
  TypeOK /\ (Resume \/ Interrupt \/ EditSource \/ EditTarget) => TypeOK'
<1> SUFFICES ASSUME TypeOK, Resume \/ Interrupt \/ EditSource \/ EditTarget
             PROVE TypeOK'
  OBVIOUS
<1> USE HistoryType DEF TypeOK, LocalType
<1>1. ASSUME NEW intent \in Intents, Start(intent) PROVE TypeOK'
  <2>1. LoadedJournal(intent) \in Journal
    BY FreshJournal DEF LoadedJournal, Phases
  <2>2. mem' \in Journal
    BY <1>1, <2>1 DEF Start, Journal
  <2> QED
    BY <1>1, <2>2 DEF Start, platform, Steps
<1>2. CASE Interrupt
  <2>1. [history EXCEPT !.orphans = @] \in Histories
    BY DEF Histories
  <2>2. history' \in Histories
    BY <1>2, <2>1 DEF Interrupt
  <2> QED
    BY <1>2, <2>2, ForgetType DEF Interrupt, Throw, platform
<1>3. CASE EditSource
  BY <1>3 DEF EditSource, EditHappens
<1>4. CASE EditTarget
  BY <1>4, CaseType DEF EditTarget, EditHappens
<1> QED
  BY <1>1, <1>2, <1>3, <1>4 DEF Resume

(* Every variable keeps its type, for any bounds and any platform nids.      *)
THEOREM TypeCorrect == Spec => []TypeOK
<1>1. TypeOK /\ [Next]_vars => TypeOK'
  <2> SUFFICES ASSUME TypeOK, [Next]_vars PROVE TypeOK'
    OBVIOUS
  <2>1. CASE UNCHANGED vars
    BY <2>1 DEF TypeOK, vars
  <2>2. CASE Next
    BY <2>2, CreateType, ConfigureType, RouteType, FinalSaveType, TransitionType,
       OutsideType DEF Next, RunStep
  <2> QED
    BY <2>1, <2>2
<1> QED
  BY InitType, <1>1, PTL DEF Spec

-----------------------------------------------------------------------------
(* CreatesBound.  The count of created cases is not inductive by itself: it  *)
(* needs to know that a run which may still create has no target and no      *)
(* unknown creation on disk.                                                 *)
PreCreate == {"preflight", "recheck", "requestCreate", "create", "createRejected"}
Landing == {"created", "createUnknown"}
PostCreate == Steps \ (PreCreate \cup Landing \cup {"idle", "environment", "transition"})

Unknown == "CREATE_OUTCOME_UNKNOWN"

(* Where a run stands relative to the target on disk and in memory.          *)
TargetInv ==
  /\ pc \in PreCreate \cup Landing => disk.target = NoCase
  /\ pc \notin {"idle", "created"} => mem.target = disk.target
  /\ pc = "created" => mem.target \in Nids
  /\ pc \in PostCreate => disk.target # NoCase
  /\ disk.phase = "ABSENT" => disk.target = NoCase
  /\ pc # "idle" => mem.phase # "ABSENT"

(* A journal with an unknown creation is only ever on its way out of a run.  *)
UnknownInv ==
  /\ disk.phase = Unknown => pc \in {"idle", "transition"}
  /\ pc \notin {"idle", "transition"} => mem.phase # Unknown
  /\ pc = "transition" /\ after.then # "idle" =>
       disk.target # NoCase /\ disk.phase # Unknown /\ mem.phase # Unknown
  /\ after.then \in {"idle", "config", "verify", "complete"}

Accounted == disk.target # NoCase \/ disk.phase = Unknown \/ pc \in Landing

CountInv == history.cases <= history.orphans + (IF Accounted THEN 1 ELSE 0)

CreateInv == TargetInv /\ UnknownInv /\ CountInv

LEMMA InitCreateInv == Init => CreateInv
<1> SUFFICES ASSUME Init PROVE CreateInv
  OBVIOUS
<1>1. /\ pc = "idle" /\ after.then = "idle" /\ disk.phase = "ABSENT"
      /\ disk.target = NoCase
      /\ history.cases = 0 /\ history.orphans = 0
  BY DEF Init, NewJournal, NoTransition
<1> QED
  BY <1>1 DEF CreateInv, TargetInv, UnknownInv, CountInv, Accounted, Unknown,
              PreCreate, Landing, PostCreate

(* The fields the invariant speaks of, after each update of the journal.     *)
LEMMA JournalUpdates ==
  ASSUME mem \in Journal
  PROVE  /\ \A p : [mem EXCEPT !.phase = p].phase = p
         /\ \A p : [mem EXCEPT !.phase = p].target = mem.target
         /\ \A r : [mem EXCEPT !.routing = r].phase = mem.phase
         /\ \A r : [mem EXCEPT !.routing = r].target = mem.target
         /\ \A r, n : [mem EXCEPT !.routing = r, !.paths = n].phase = mem.phase
         /\ \A r, n : [mem EXCEPT !.routing = r, !.paths = n].target = mem.target
         /\ \A c, d : [mem EXCEPT !.config = c, !.domain = d].phase = mem.phase
         /\ \A c, d : [mem EXCEPT !.config = c, !.domain = d].target = mem.target
         /\ \A p, n : [mem EXCEPT !.phase = p, !.preSaveWorkId = n].phase = p
         /\ \A p, n : [mem EXCEPT !.phase = p, !.preSaveWorkId = n].target = mem.target
         /\ \A t, n : [mem EXCEPT !.target = t, !.targetWorkId = n].phase = mem.phase
         /\ \A t, n : [mem EXCEPT !.target = t, !.targetWorkId = n].target = t
  BY DEF Journal

LEMMA HistoryUpdates ==
  ASSUME history \in Histories
  PROVE  /\ [history EXCEPT !.routingInDoubt = FALSE].cases = history.cases
         /\ [history EXCEPT !.routingInDoubt = FALSE].orphans = history.orphans
         /\ [history EXCEPT !.routingInDoubt = TRUE].cases = history.cases
         /\ [history EXCEPT !.routingInDoubt = TRUE].orphans = history.orphans
         /\ [history EXCEPT !.touched = TRUE].cases = history.cases
         /\ [history EXCEPT !.touched = TRUE].orphans = history.orphans
         /\ [history EXCEPT !.cases = @ + 1, !.touched = FALSE].cases = history.cases + 1
         /\ [history EXCEPT !.cases = @ + 1, !.touched = FALSE].orphans = history.orphans
  BY DEF Histories

(* A run that ends without writing leaves the invariant as it is, provided   *)
(* it was not about to checkpoint a created case.                            *)
LEMMA ForgetKeeps ==
  ASSUME TypeOK, CreateInv, Forget, UNCHANGED disk,
         history'.cases = history.cases,
         history'.orphans \in Nat,
         pc \notin Landing => history'.orphans = history.orphans,
         pc \in Landing => history'.orphans = history.orphans + 1
  PROVE  CreateInv'
<1>1. /\ pc' = "idle" /\ after'.then = "idle" /\ disk' = disk
  BY DEF Forget, NoTransition
<1>2. TargetInv'
  BY <1>1 DEF CreateInv, TargetInv, PreCreate, Landing, PostCreate
<1>3. UnknownInv'
  BY <1>1 DEF CreateInv, UnknownInv
<1>4. history.cases \in Nat /\ history.orphans \in Nat
  BY DEF TypeOK, Histories
<1>5. CountInv'
  BY <1>1, <1>4 DEF CreateInv, CountInv, Accounted, Landing
<1> QED
  BY <1>2, <1>3, <1>5 DEF CreateInv

(* A step past the creation: the target on disk stays set, the creation's    *)
(* account stays closed, and history counts nothing.                         *)
PastCreateStep ==
  /\ disk'.target = disk.target /\ mem'.target = mem.target
  /\ disk'.phase # "ABSENT" /\ mem'.phase # "ABSENT"
  /\ disk'.phase # Unknown /\ mem'.phase # Unknown
  /\ pc' \in PostCreate \cup {"transition"}
  /\ after'.then \in {"idle", "config", "verify", "complete"}
  /\ history'.cases = history.cases /\ history'.orphans = history.orphans

LEMMA PastCreate ==
  ASSUME TypeOK, CreateInv, pc \in PostCreate, PastCreateStep
  PROVE  CreateInv'
<1>1. disk.target # NoCase /\ mem.target = disk.target
  BY DEF CreateInv, TargetInv, PostCreate, PreCreate, Landing
<1>2. TargetInv'
  BY <1>1 DEF TargetInv, PreCreate, Landing, PostCreate, PastCreateStep
<1>3. UnknownInv'
  BY <1>1 DEF UnknownInv, PostCreate, PastCreateStep
<1>4. CountInv'
  BY <1>1 DEF CreateInv, CountInv, Accounted, PastCreateStep
<1> QED
  BY <1>2, <1>3, <1>4 DEF CreateInv

LEMMA QuietThrow ==
  ASSUME TypeOK, CreateInv, Throw, pc \notin Landing, UNCHANGED history
  PROVE  CreateInv'
  BY ForgetKeeps DEF Throw, TypeOK, Histories

LEMMA ConfigureKeeps == TypeOK /\ CreateInv /\ Configure => CreateInv'
<1> SUFFICES ASSUME TypeOK, CreateInv, Configure PROVE CreateInv'
  OBVIOUS
<1>1. pc \in PostCreate
  BY DEF Configure, ReadConfig, WriteConfig, CheckConfig, RecordConfigIncomplete,
         PostCreate, PreCreate, Landing, Steps
<1>2. /\ disk.phase # Unknown /\ mem.phase # Unknown /\ mem.target = disk.target
      /\ disk.phase # "ABSENT" /\ mem.phase # "ABSENT"
  BY <1>1 DEF CreateInv, TargetInv, UnknownInv, PostCreate, Landing, PreCreate
<1> USE <1>2, JournalUpdates, HistoryUpdates
    DEF PastCreateStep, PostCreate, PreCreate, Landing, Steps, Persist, PersistThen,
        Checkpoint, Continue, Phase, Quiet, Unknown, CreateInv, UnknownInv, TypeOK
<1>3. CASE ReadConfig
  BY <1>1, <1>3, PastCreate DEF ReadConfig
<1>4. CASE WriteConfig
  BY <1>1, <1>4, PastCreate DEF WriteConfig
<1>5. CASE CheckConfig
  BY <1>1, <1>5, PastCreate DEF CheckConfig
<1>6. CASE RecordConfigIncomplete
  BY <1>1, <1>6, PastCreate DEF RecordConfigIncomplete
<1> QED
  BY <1>3, <1>4, <1>5, <1>6 DEF Configure

LEMMA RouteKeeps == TypeOK /\ CreateInv /\ Route => CreateInv'
<1> SUFFICES ASSUME TypeOK, CreateInv, Route PROVE CreateInv'
  OBVIOUS
<1>1. pc \in PostCreate
  BY DEF Route, ReadRouting, FreezeRouting, CompareRouting, WriteRouting, ReadBackRouting, RecordRoutingFailure,
         PostCreate, PreCreate, Landing, Steps
<1>2. /\ disk.phase # Unknown /\ mem.phase # Unknown /\ mem.target = disk.target
      /\ disk.phase # "ABSENT" /\ mem.phase # "ABSENT"
  BY <1>1 DEF CreateInv, TargetInv, UnknownInv, PostCreate, Landing, PreCreate
<1> USE <1>2, JournalUpdates, HistoryUpdates
    DEF PastCreateStep, PostCreate, PreCreate, Landing, Steps, Persist, PersistThen,
        Checkpoint, Continue, Phase, Routing, Quiet, Unknown, CreateInv, UnknownInv, TypeOK
<1>3. CASE ReadRouting
  BY <1>1, <1>3, PastCreate DEF ReadRouting
<1>4. CASE FreezeRouting
  <2>1. CASE Throw
    BY <1>1, <1>4, <2>1, QuietThrow DEF FreezeRouting
  <2>2. CASE Persist([mem EXCEPT !.routing = "PENDING", !.paths = read.paths],
                     "compareRouting")
    BY <1>1, <1>4, <2>2, PastCreate DEF FreezeRouting
  <2> QED
    BY <1>4, <2>1, <2>2 DEF FreezeRouting
<1>5. CASE CompareRouting
  <2>1. CASE Throw /\ UNCHANGED history
    BY <1>1, <2>1, QuietThrow
  <2>2. CASE Persist(Routing("CONFIRMED"), "content")
             /\ history' = [history EXCEPT !.routingInDoubt = FALSE]
    BY <1>1, <1>5, <2>2, PastCreate DEF CompareRouting
  <2>3. CASE Persist(Routing("REQUESTED"), "writeRouting") /\ UNCHANGED history
    BY <1>1, <1>5, <2>3, PastCreate DEF CompareRouting
  <2> QED
    BY <1>5, <2>1, <2>2, <2>3, Zenon DEF CompareRouting
<1>6. CASE WriteRouting
  <2>1. history'.cases = history.cases /\ history'.orphans = history.orphans
    <3>1. history' = history \/ history' = [history EXCEPT !.routingInDoubt = TRUE]
      BY <1>6, Zenon DEF WriteRouting
    <3> QED
      BY <3>1
  <2> QED
    BY <1>1, <1>6, <2>1, PastCreate DEF WriteRouting
<1>7. CASE ReadBackRouting
  <2>1. history'.cases = history.cases /\ history'.orphans = history.orphans
    <3>1. history' = history \/ history' = [history EXCEPT !.routingInDoubt = FALSE]
      BY <1>7, Zenon DEF ReadBackRouting
    <3> QED
      BY <3>1
  <2>2. CASE Persist(Routing("CONFIRMED"), "content")
    BY <1>1, <1>7, <2>1, <2>2, PastCreate
  <2>3. CASE Continue(mem, IF pc = "checkRouting" THEN "routingIncomplete"
                                                  ELSE "routingUnknown")
    BY <1>1, <1>7, <2>1, <2>3, PastCreate
  <2> QED
    BY <1>7, <2>2, <2>3, Zenon DEF ReadBackRouting
<1>8. CASE RecordRoutingFailure
  <2>1. history'.cases = history.cases /\ history'.orphans = history.orphans
    <3>1. history' = history \/ history' = [history EXCEPT !.routingInDoubt = FALSE]
      BY <1>8, Zenon DEF RecordRoutingFailure
    <3> QED
      BY <3>1
  <2>2. CASE PersistThen(Routing("INCOMPLETE"), "SAVE_INCOMPLETE", "idle")
    BY <1>1, <1>8, <2>1, <2>2, PastCreate
  <2>3. CASE PersistThen(Routing("OUTCOME_UNKNOWN"), "SAVE_INCOMPLETE", "idle")
    BY <1>1, <1>8, <2>1, <2>3, PastCreate
  <2> QED
    BY <1>8, <2>2, <2>3, Zenon DEF RecordRoutingFailure
<1> QED
  BY <1>3, <1>4, <1>5, <1>6, <1>7, <1>8 DEF Route

LEMMA FinalSaveKeeps == TypeOK /\ CreateInv /\ FinalSave => CreateInv'
<1> SUFFICES ASSUME TypeOK, CreateInv, FinalSave PROVE CreateInv'
  OBVIOUS
<1>1. pc \in PostCreate
  BY DEF FinalSave, ReadContent, ConfirmContent, RequestSave, Save, RecordSaveResponse, RecordSaveUnknown, Verify, Complete,
         PostCreate, PreCreate, Landing, Steps
<1>2. /\ disk.phase # Unknown /\ mem.phase # Unknown /\ mem.target = disk.target
      /\ disk.phase # "ABSENT" /\ mem.phase # "ABSENT"
  BY <1>1 DEF CreateInv, TargetInv, UnknownInv, PostCreate, Landing, PreCreate
<1> USE <1>2, JournalUpdates, HistoryUpdates
    DEF PastCreateStep, PostCreate, PreCreate, Landing, Steps, Persist, PersistThen,
        Checkpoint, Continue, Phase, Routing, Quiet, Unknown, CreateInv, UnknownInv, TypeOK
<1>3. CASE ReadContent
  <2>1. CASE Throw
    BY <1>1, <1>3, <2>1, QuietThrow DEF ReadContent
  <2>2. CASE ~Throw
    BY <1>1, <1>3, <2>2, PastCreate DEF ReadContent
  <2> QED
    BY <2>1, <2>2
<1>4. CASE ConfirmContent
  BY <1>1, <1>4, PastCreate DEF ConfirmContent
<1>5. CASE RequestSave
  BY <1>1, <1>5, PastCreate DEF RequestSave
<1>6. CASE Save
  BY <1>1, <1>6, PastCreate DEF Save
<1>7. CASE RecordSaveResponse
  BY <1>1, <1>7, PastCreate DEF RecordSaveResponse
<1>8. CASE RecordSaveUnknown
  BY <1>1, <1>8, PastCreate DEF RecordSaveUnknown
<1>9. CASE Verify
  <2>1. UNCHANGED history
    BY <1>9 DEF Verify
  <2>2. CASE PersistThen(Phase("POST_SAVE_VERIFIED"), "POST_SAVE_VERIFIED", "complete")
    BY <1>1, <2>1, <2>2, PastCreate
  <2>3. CASE PersistThen(Phase("POST_SAVE_MISMATCH"), "SAVE_INCOMPLETE", "idle")
    BY <1>1, <2>1, <2>3, PastCreate
  <2> QED
    BY <1>9, <2>2, <2>3, Zenon DEF Verify
<1>10. CASE Complete
  BY <1>1, <1>10, PastCreate DEF Complete, CompletionStatus
<1> QED
  BY <1>3, <1>4, <1>5, <1>6, <1>7, <1>8, <1>9, <1>10 DEF FinalSave

LEMMA CreateKeeps == TypeOK /\ CreateInv /\ Create => CreateInv'
<1> SUFFICES ASSUME TypeOK, CreateInv, Create PROVE CreateInv'
  OBVIOUS
<1> USE JournalUpdates, HistoryUpdates
    DEF TypeOK, CreateInv, TargetInv, UnknownInv, PreCreate, Landing, PostCreate, Steps,
        Persist, PersistThen, Checkpoint, Continue, Phase, Quiet, Unknown
<1>1. history.cases \in Nat /\ history.orphans \in Nat
  BY DEF Histories
<1>2. CASE Preflight
  BY <1>2 DEF Preflight, CountInv, Accounted
<1>3. CASE RecheckSource
  BY <1>3 DEF RecheckSource, CountInv, Accounted
<1>4. CASE ReadEnvironment
  <2>1. CASE Throw
    BY <1>4, <2>1, QuietThrow DEF ReadEnvironment
  <2>2. CASE ~Throw
    <3>1. /\ mem'.phase = mem.phase /\ mem'.target = mem.target
          /\ pc' = IF mem.target = NoCase THEN "requestCreate" ELSE "config"
          /\ UNCHANGED <<disk, after, history>>
      <4>1. Continue([mem EXCEPT !.config = source.config, !.domain = source.domain],
                     IF mem.target = NoCase THEN "requestCreate" ELSE "config")
            /\ UNCHANGED history
        BY <1>4, <2>2, Zenon DEF ReadEnvironment, Quiet
      <4> QED
        BY <4>1
    <3>2. pc = "environment"
      BY <1>4 DEF ReadEnvironment
    <3> QED
      BY <3>1, <3>2 DEF CountInv, Accounted
  <2> QED
    BY <2>1, <2>2
<1>5. CASE RequestCreate
  BY <1>5 DEF RequestCreate, CountInv, Accounted
<1>6. CASE CreateAnswered
  <2>1. PICK nid \in {history.cases + 1, Source, Prior} :
          mem' = [mem EXCEPT !.target = nid, !.targetWorkId = 0]
    BY <1>6 DEF CreateAnswered
  <2>2. nid \in Nids
    BY <1>1 DEF Nids
  <2>3. /\ pc = "create" /\ pc' = "created"
        /\ disk' = disk /\ after' = after
    BY <1>6 DEF CreateAnswered
  <2>4. mem'.target \in Nids /\ mem'.phase = mem.phase
    BY <2>1, <2>2
  <2>5. /\ history'.cases \in {history.cases, history.cases + 1}
        /\ history'.orphans = history.orphans
    <3>1. \/ history' = history
          \/ history' = [history EXCEPT !.cases = @ + 1, !.touched = FALSE]
      BY <1>6, Zenon DEF CreateAnswered
    <3> QED
      BY <3>1
  <2>6. ~Accounted
    BY <2>3 DEF Accounted
  <2>7. CountInv'
    BY <1>1, <2>3, <2>5, <2>6 DEF CountInv, Accounted
  <2> QED
    BY <2>3, <2>4, <2>7
<1>7. CASE CreateFails
  <2>1. /\ pc = "create" /\ pc' \in {"createRejected", "createUnknown"}
        /\ disk' = disk /\ after' = after /\ mem' = mem
    BY <1>7 DEF CreateFails
  <2>2. /\ history'.orphans = history.orphans
        /\ history'.cases \in {history.cases, history.cases + 1}
        /\ pc' = "createRejected" => history'.cases = history.cases
    BY <1>1, <1>7 DEF CreateFails, Histories
  <2>3. ~Accounted
    BY <2>1 DEF Accounted
  <2>4. CountInv'
    BY <1>1, <2>1, <2>2, <2>3 DEF CountInv, Accounted
  <2> QED
    BY <2>1, <2>4
<1>8. CASE RecordCreateRejected
  BY <1>8 DEF RecordCreateRejected, CountInv, Accounted
<1>9. CASE RecordCreateUnknown
  BY <1>9 DEF RecordCreateUnknown, UnknownCreate, CountInv, Accounted
<1>10. CASE RecordCreated
  <2>1. mem.target # NoCase
    BY <1>10, NidAssumption DEF RecordCreated, Nids
  <2>2. pc = "created" /\ UNCHANGED history
    BY <1>10 DEF RecordCreated
  <2>3. CASE PersistThen(Phase("TARGET_IDENTITY_CONFLICT"), "SAVE_INCOMPLETE", "idle")
    BY <2>1, <2>2, <2>3 DEF CountInv, Accounted
  <2>4. CASE PersistThen(Phase("TARGET_CREATED"), "SAVE_AS_CREATED", "config")
    BY <2>1, <2>2, <2>4 DEF CountInv, Accounted
  <2> QED
    BY <1>10, <2>3, <2>4, Zenon DEF RecordCreated
<1> QED
  BY <1>2, <1>3, <1>4, <1>5, <1>6, <1>7, <1>8, <1>9, <1>10 DEF Create

LEMMA TransitionKeeps == TypeOK /\ CreateInv /\ Transition => CreateInv'
<1> SUFFICES ASSUME TypeOK, CreateInv, Transition PROVE CreateInv'
  OBVIOUS
<1>1. pc \notin Landing /\ UNCHANGED history
  BY DEF Transition, Landing, Quiet
<1>2. CASE Throw
  BY <1>1, <1>2, QuietThrow
<1>3. CASE Forget /\ UNCHANGED disk
  BY <1>1, <1>3, ForgetKeeps DEF TypeOK, Histories
<1>4. CASE ~Throw /\ ~(Forget /\ UNCHANGED disk)
  <2>1. /\ pc = "transition" /\ pc' \in {after.then, "saveUnknown"}
        /\ after.then # "idle" /\ after' = NoTransition
        /\ UNCHANGED <<disk, mem>>
    BY <1>4 DEF Transition
  <2>2. pc' \in PostCreate
    BY <2>1 DEF CreateInv, UnknownInv, PostCreate, PreCreate, Landing, Steps
  <2>3. disk.target # NoCase /\ mem.target = disk.target
    BY <2>1 DEF CreateInv, UnknownInv, TargetInv
  <2> QED
    BY <1>1, <2>1, <2>2, <2>3
    DEF CreateInv, TargetInv, UnknownInv, CountInv, Accounted, PostCreate, PreCreate,
        Landing, NoTransition
<1> QED
  BY <1>2, <1>3, <1>4

LEMMA OutsideKeeps ==
  TypeOK /\ CreateInv /\ (Resume \/ Interrupt \/ EditSource \/ EditTarget) => CreateInv'
<1> SUFFICES ASSUME TypeOK, CreateInv, Resume \/ Interrupt \/ EditSource \/ EditTarget
             PROVE CreateInv'
  OBVIOUS
<1>1. ASSUME NEW intent \in Intents, Start(intent) PROVE CreateInv'
  <2>1. /\ mem'.phase = LoadedJournal(intent).phase
        /\ mem'.target = LoadedJournal(intent).target
    BY <1>1 DEF Start, LoadedJournal, NewJournal, TypeOK, Journal
  <2>2. /\ LoadedJournal(intent).phase # Unknown
        /\ disk.phase # "ABSENT" => LoadedJournal(intent) = disk
        /\ disk.phase = "ABSENT" => LoadedJournal(intent).target = NoCase
    BY <1>1 DEF Start, StickyPhases, Unknown, LoadedJournal, NewJournal
  <2>3. /\ disk.phase = "ABSENT" => disk.target = NoCase
        /\ LoadedJournal(intent).phase # "ABSENT"
    BY DEF CreateInv, TargetInv, LoadedJournal, NewJournal
  <2>4. /\ mem'.target = disk.target /\ mem'.phase \notin {Unknown, "ABSENT"}
        /\ pc = "idle"
        /\ pc' = IF mem'.target = NoCase THEN "preflight" ELSE "environment"
        /\ UNCHANGED <<disk, after, history>>
        /\ disk.phase # Unknown
    BY <1>1, <2>1, <2>2, <2>3 DEF Start, Unknown
  <2> QED
    BY <2>3, <2>4
    DEF CreateInv, TargetInv, UnknownInv, CountInv, Accounted, PreCreate, Landing,
        PostCreate
<1>2. CASE Interrupt
  <2>1. history' = [history EXCEPT !.orphans = IF pc \in Landing THEN @ + 1 ELSE @]
    BY <1>2 DEF Interrupt, Landing
  <2>2. /\ history'.cases = history.cases /\ history'.orphans \in Nat
        /\ pc \notin Landing => history'.orphans = history.orphans
        /\ pc \in Landing => history'.orphans = history.orphans + 1
    BY <2>1 DEF TypeOK, Histories
  <2> QED
    BY <1>2, <2>2, ForgetKeeps DEF Interrupt, Throw
<1>3. CASE EditSource
  BY <1>3 DEF EditSource, CreateInv, TargetInv, UnknownInv, CountInv, Accounted
<1>4. CASE EditTarget
  BY <1>4 DEF EditTarget, CreateInv, TargetInv, UnknownInv, CountInv, Accounted, TypeOK, Histories
<1> QED
  BY <1>1, <1>2, <1>3, <1>4 DEF Resume

(* The strengthened invariant holds, whatever the bounds.                    *)
THEOREM CreateInvariant == Spec => []CreateInv
<1>1. TypeOK /\ CreateInv /\ [Next]_vars => CreateInv'
  <2> SUFFICES ASSUME TypeOK, CreateInv, [Next]_vars PROVE CreateInv'
    OBVIOUS
  <2>1. CASE UNCHANGED vars
    BY <2>1 DEF vars, CreateInv, TargetInv, UnknownInv, CountInv, Accounted
  <2>2. CASE Next
    BY <2>2, CreateKeeps, ConfigureKeeps, RouteKeeps, FinalSaveKeeps, TransitionKeeps,
       OutsideKeeps DEF Next, RunStep
  <2> QED
    BY <2>1, <2>2
<1> QED
  BY InitCreateInv, <1>1, TypeCorrect, PTL DEF Spec

(* A second target is created only by a run that was cut between the         *)
(* platform's creation of a case and its checkpoint; nothing else in the     *)
(* protocol replays the Save As request.                                     *)
THEOREM CreationBounded == Spec => []CreatesBound
<1>1. TypeOK /\ CreateInv => CreatesBound
  BY DEF TypeOK, Histories, CreateInv, CountInv, CreatesBound
<1> QED
  BY <1>1, TypeCorrect, CreateInvariant, PTL

-----------------------------------------------------------------------------
(* What the journal says of the target: the properties of the case a Save As *)
(* leaves behind.  At: the run is there, or will be after the transition of  *)
(* the Job status it is in.                                                  *)
RoutedSteps ==
  {"content", "confirmContent", "requestSave", "save", "saveResponded", "saveUnknown",
   "verify", "complete"}
ConfiguredSteps ==
  RoutedSteps \cup
  {"routing", "freezeRouting", "compareRouting", "writeRouting", "checkRouting",
   "recheckRouting", "routingIncomplete", "routingUnknown"}
Running == pc # "idle"
At(steps) == pc \in steps \/ (pc = "transition" /\ after.then \in steps)
Finishing == status \in Completed \/ (pc = "transition" /\ after.to \in Completed)

(* The journal of a run is the checkpoint, but for the target it was just    *)
(* given and what it has just read of the source.                            *)
JournalInv ==
  /\ disk.kind = request.intent
  /\ disk.phase = "ABSENT" => disk.routing = "UNFROZEN" /\ disk.preSaveWorkId = NoRevision
  /\ Running =>
       /\ mem.kind = request.intent
       /\ mem.routing = disk.routing
       /\ mem.preSaveWorkId = disk.preSaveWorkId
       /\ mem.phase = IF disk.phase = "ABSENT" THEN "NOT_STARTED" ELSE disk.phase
  /\ ~Running => mem.target = NoCase

(* What the checkpoint must say before the Job has status s.                 *)
Backed(s) ==
  /\ s \in {"SAVE_AS_CREATED", "FINAL_SAVED", "POST_SAVE_VERIFIED"} \cup Completed =>
       disk.target \in Nids
  /\ s \in {"FINAL_SAVED", "POST_SAVE_VERIFIED"} \cup Completed => disk.routing = "CONFIRMED"
  /\ s = "SAVE_INCOMPLETE" => disk.target \in Nids \/ disk.phase = "CREATE_OUTCOME_UNKNOWN"
  /\ s \in Completed =>
       disk.phase = "POST_SAVE_VERIFIED" /\ s = CompletionStatus(request.intent)
  /\ s \in {"READY_TO_SAVE", "READY_TO_SAVE_DIAGNOSTIC_COPY"} => s = ReadyStatus(request.intent)

(* Every status is backed, and so is the one a run is about to set.          *)
StatusInv ==
  /\ Backed(status)
  /\ pc = "transition" => Backed(after.to)
  /\ Running => status \notin Completed
  /\ At(RoutedSteps) => disk.routing = "CONFIRMED"
  /\ At({"complete"}) => disk.phase = "POST_SAVE_VERIFIED"
  /\ pc = "transition" /\ after.then # "idle" => after.to \notin Completed

(* A routing write of unknown outcome is one the checkpoint does not forget. *)
DoubtInv ==
  /\ pc = "freezeRouting" => mem.routing = "UNFROZEN"
  /\ pc \in {"writeRouting", "checkRouting", "recheckRouting", "routingIncomplete",
             "routingUnknown"} => mem.routing = "REQUESTED"
  /\ pc = "writeRouting" => ~history.routingInDoubt
  /\ history.routingInDoubt => disk.routing \in {"REQUESTED", "OUTCOME_UNKNOWN"}

(* A run that was given a foreign case ends with the identity conflict.      *)
Foreign(nid) == nid = Source \/ (request.additional /\ nid = Prior)
ForeignInv ==
  /\ ForeignCaseIntact
  /\ pc = "created" /\ mem.target \in {Source, Prior} => work = OtherCase
  /\ Foreign(disk.target) =>
       /\ disk.phase = "TARGET_IDENTITY_CONFLICT"
       /\ pc = "idle" \/ (pc = "transition" /\ after.then = "idle")

(* Once there is a target, a run has the configuration it was frozen with:   *)
(* version 0 would mean that nothing was frozen.                             *)
FrozenInv ==
  /\ source.config > 0 /\ source.domain > 0
  /\ disk.target # NoCase => disk.config > 0 /\ disk.domain > 0
  /\ Running /\ disk.target # NoCase => mem.config = disk.config /\ mem.domain = disk.domain
  /\ pc \in {"requestCreate", "create", "created"} => mem.config > 0 /\ mem.domain > 0

(* A save is requested again on the revision of the first request only.      *)
RevisionInv ==
  pc = "requestSave" /\ mem.phase = "FINAL_SAVE_OUTCOME_UNKNOWN" =>
    read.workId = mem.preSaveWorkId

(* What the run has established of a target that nobody else touched.        *)
DeliveryInv ==
  ~history.touched =>
    /\ At(ConfiguredSteps) => work.config = mem.config
    /\ At(RoutedSteps) => work.routing = mem.domain
    /\ pc \in {"freezeRouting", "compareRouting"} => read.routing = work.routing
    /\ At({"complete"}) \/ Finishing => work.content = "final"
    /\ Finishing => work.config = disk.config /\ work.routing = disk.domain

TargetStoryInv ==
  /\ JournalInv /\ StatusInv /\ DoubtInv /\ ForeignInv
  /\ FrozenInv /\ RevisionInv /\ DeliveryInv

LEMMA HistoryFields ==
  ASSUME history \in Histories
  PROVE  /\ \A b \in BOOLEAN :
              /\ [history EXCEPT !.routingInDoubt = b].routingInDoubt = b
              /\ [history EXCEPT !.routingInDoubt = b].touched = history.touched
         /\ \A n : /\ [history EXCEPT !.orphans = n].routingInDoubt = history.routingInDoubt
                   /\ [history EXCEPT !.orphans = n].touched = history.touched
         /\ [history EXCEPT !.touched = TRUE].touched
         /\ [history EXCEPT !.touched = TRUE].routingInDoubt = history.routingInDoubt
         /\ \A n : /\ [history EXCEPT !.cases = n].routingInDoubt = history.routingInDoubt
                   /\ [history EXCEPT !.cases = n].touched = history.touched
         /\ \A n : [history EXCEPT !.cases = n, !.touched = FALSE].routingInDoubt =
                     history.routingInDoubt
  BY DEF Histories

SameDoubts ==
  /\ history'.touched = history.touched
  /\ history'.routingInDoubt = history.routingInDoubt

(* A run that ends without writing tells nothing new.                        *)
LEMMA ThrowTells ==
  ASSUME TypeOK, TargetStoryInv, Throw, UNCHANGED <<request, source, work>>, SameDoubts
  PROVE  TargetStoryInv'
<1>1. /\ pc' = "idle" /\ mem'.target = NoCase /\ disk' = disk /\ status' = status
      /\ request' = request /\ source' = source /\ work' = work
  BY DEF Throw, Forget, NewJournal
<1>2. JournalInv' /\ StatusInv' /\ DoubtInv' /\ FrozenInv' /\ RevisionInv'
  BY <1>1 DEF TargetStoryInv, JournalInv, StatusInv, Backed, DoubtInv, FrozenInv, RevisionInv,
     Running, At, RoutedSteps, SameDoubts
<1>3. ForeignInv'
  BY <1>1, NidAssumption DEF TargetStoryInv, ForeignInv, ForeignCaseIntact, Foreign
<1>4. DeliveryInv'
  BY <1>1 DEF TargetStoryInv, DeliveryInv, At, RoutedSteps, ConfiguredSteps, Finishing, SameDoubts
<1> QED
  BY <1>2, <1>3, <1>4 DEF TargetStoryInv

LEMMA ConfigureTells ==
  ASSUME TypeOK, CreateInv, TargetStoryInv, Configure
  PROVE  TargetStoryInv'
<1> USE DEF TypeOK, CreateInv, TargetInv, UnknownInv, Unknown, PostCreate, PreCreate, Landing, Steps,
    TargetStoryInv, JournalInv, StatusInv, Backed, Completed, DoubtInv, ForeignInv, Foreign,
    ForeignCaseIntact, FrozenInv, RevisionInv, DeliveryInv, Running, At, Finishing, RoutedSteps,
    ConfiguredSteps, Journal, Persist, PersistThen, Checkpoint, Continue, Quiet, platform,
    Phase
<1>1. CASE ReadConfig
  BY <1>1 DEF ReadConfig
<1>2. CASE WriteConfig
  BY <1>2 DEF WriteConfig
<1>3. CASE CheckConfig
  BY <1>3 DEF CheckConfig
<1>4. CASE RecordConfigIncomplete
  BY <1>4 DEF RecordConfigIncomplete
<1> QED
  BY <1>1, <1>2, <1>3, <1>4 DEF Configure

LEMMA RouteTells ==
  ASSUME TypeOK, CreateInv, TargetStoryInv, Route
  PROVE  TargetStoryInv'
<1> USE DEF TypeOK, CreateInv, TargetInv, UnknownInv, Unknown, PostCreate, PreCreate, Landing, Steps,
    TargetStoryInv, JournalInv, StatusInv, Backed, Completed, DoubtInv, ForeignInv, Foreign,
    ForeignCaseIntact, FrozenInv, RevisionInv, DeliveryInv, Running, At, Finishing, RoutedSteps,
    ConfiguredSteps, Journal, Persist, PersistThen, Checkpoint, Continue, Quiet, platform,
    Routing, Throw, Forget, Histories
<1>1. CASE ReadRouting
  BY <1>1 DEF ReadRouting
<1>2. CASE FreezeRouting
  <2>1. CASE Throw
    BY <1>2, <2>1, ThrowTells DEF FreezeRouting, SameDoubts
  <2>2. CASE Persist([mem EXCEPT !.routing = "PENDING", !.paths = read.paths],
                     "compareRouting") /\ UNCHANGED read
    <3> DEFINE j == [mem EXCEPT !.routing = "PENDING", !.paths = read.paths]
    <3>1. /\ j.target = mem.target /\ j.kind = mem.kind /\ j.phase = mem.phase
          /\ j.config = mem.config /\ j.domain = mem.domain
          /\ j.preSaveWorkId = mem.preSaveWorkId /\ j.routing = "PENDING"
      OBVIOUS
    <3>2. /\ disk' = j /\ mem' = j /\ read' = read /\ UNCHANGED <<status, after>>
          /\ pc = "freezeRouting" /\ pc' = "compareRouting"
          /\ UNCHANGED <<request, source, work, history>>
      BY <1>2, <2>2 DEF FreezeRouting
    <3> HIDE DEF j
    <3> QED
      BY <3>1, <3>2
  <2> QED
    BY <1>2, <2>1, <2>2 DEF FreezeRouting
<1>3. CASE CompareRouting
  <2>1. CASE Throw /\ UNCHANGED history
    BY <1>3, <2>1, ThrowTells DEF CompareRouting, SameDoubts
  <2>2. CASE /\ Persist(Routing("CONFIRMED"), "content") /\ RoutingMatches
             /\ history' = [history EXCEPT !.routingInDoubt = FALSE]
    BY <1>3, <2>2, HistoryFields DEF CompareRouting, RoutingMatches
  <2>3. CASE /\ Persist(Routing("REQUESTED"), "writeRouting") /\ UNCHANGED history
             /\ MayWriteRouting
    BY <1>3, <2>3 DEF CompareRouting, MayWriteRouting
  <2> QED
    BY <1>3, <2>1, <2>2, <2>3, Zenon DEF CompareRouting
<1>4. CASE WriteRouting
  <2>1. /\ history'.touched = history.touched
        /\ work'.config = work.config
        /\ work' = work \/ pc' \in {"checkRouting", "recheckRouting"}
    <3>1. history' = history \/ history' = [history EXCEPT !.routingInDoubt = TRUE]
      BY <1>4, Zenon DEF WriteRouting
    <3>2. work' = work \/ work' = Routed
      BY <1>4 DEF WriteRouting
    <3> QED
      BY <1>4, <3>1, <3>2, HistoryFields DEF Routed, Case, WriteRouting
  <2> QED
    BY <1>4, <2>1 DEF WriteRouting
<1>5. CASE ReadBackRouting
  <2>1. CASE /\ RoutingReadBack /\ Persist(Routing("CONFIRMED"), "content")
             /\ history' = [history EXCEPT !.routingInDoubt = FALSE]
    BY <1>5, <2>1, HistoryFields DEF ReadBackRouting, RoutingReadBack
  <2>2. CASE /\ Continue(mem, IF pc = "checkRouting" THEN "routingIncomplete"
                                                    ELSE "routingUnknown")
             /\ UNCHANGED history
    BY <1>5, <2>2 DEF ReadBackRouting
  <2> QED
    BY <1>5, <2>1, <2>2, Zenon DEF ReadBackRouting
<1>6. CASE RecordRoutingFailure
  <2>1. /\ pc \in {"routingIncomplete", "routingUnknown"}
        /\ UNCHANGED <<request, source, work, read>>
    BY <1>6 DEF RecordRoutingFailure
  <2>2. PICK r \in RoutingStates : PersistThen(Routing(r), "SAVE_INCOMPLETE", "idle")
    BY <1>6 DEF RecordRoutingFailure, RoutingStates
  <2>3. /\ history'.touched = history.touched
        /\ history'.routingInDoubt => history.routingInDoubt /\ r = "OUTCOME_UNKNOWN"
    BY <1>6, <2>2, HistoryFields DEF RecordRoutingFailure
  <2> QED
    BY <2>1, <2>2, <2>3
<1> QED
  BY <1>1, <1>2, <1>3, <1>4, <1>5, <1>6 DEF Route

LEMMA FinalSaveTells ==
  ASSUME TypeOK, CreateInv, TargetStoryInv, FinalSave
  PROVE  TargetStoryInv'
<1> USE DEF TypeOK, CreateInv, TargetInv, UnknownInv, Unknown, PostCreate, PreCreate, Landing, Steps,
    TargetStoryInv, JournalInv, StatusInv, Backed, Completed, DoubtInv, ForeignInv, Foreign,
    ForeignCaseIntact, FrozenInv, RevisionInv, DeliveryInv, Running, At, Finishing, RoutedSteps,
    ConfiguredSteps, Journal, Persist, PersistThen, Checkpoint, Continue, Quiet, platform,
    Phase, Throw, Forget
<1>1. CASE ReadContent
  <2>1. CASE Throw
    BY <1>1, <2>1, ThrowTells DEF ReadContent, SameDoubts
  <2>2. CASE /\ read' = work /\ (work.content = "final" \/ RevisionHeld)
             /\ Continue(mem, IF work.content = "final" THEN "confirmContent" ELSE "requestSave")
    BY <1>1, <2>2 DEF ReadContent, RevisionHeld
  <2> QED
    BY <1>1, <2>1, <2>2 DEF ReadContent
<1>2. CASE ConfirmContent
  BY <1>2 DEF ConfirmContent
<1>3. CASE RequestSave
  BY <1>3 DEF RequestSave
<1>4. CASE Save
  <2>1. /\ work'.config = work.config /\ work'.routing = work.routing
        /\ pc' \in {"saveResponded", "saveUnknown"} /\ pc = "save"
    <3>1. /\ Saved.config = work.config /\ Saved.routing = work.routing
          /\ [Saved EXCEPT !.content = "other"].config = work.config
          /\ [Saved EXCEPT !.content = "other"].routing = work.routing
      BY DEF Saved, Case
    <3>2. \/ work' = work \/ work' = Saved \/ work' = [Saved EXCEPT !.content = "other"]
      BY <1>4, Zenon DEF Save
    <3>3. pc' \in {"saveResponded", "saveUnknown"} /\ pc = "save"
      BY <1>4 DEF Save
    <3> HIDE DEF Saved
    <3> QED
      BY <3>1, <3>2, <3>3
  <2> QED
    BY <1>4, <2>1 DEF Save
<1>5. CASE RecordSaveResponse
  BY <1>5 DEF RecordSaveResponse
<1>6. CASE RecordSaveUnknown
  BY <1>6 DEF RecordSaveUnknown
<1>7. CASE Verify
  <2>1. CASE PersistThen(Phase("POST_SAVE_VERIFIED"), "POST_SAVE_VERIFIED", "complete")
             /\ work.content = "final"
    BY <1>7, <2>1 DEF Verify
  <2>2. CASE PersistThen(Phase("POST_SAVE_MISMATCH"), "SAVE_INCOMPLETE", "idle")
    BY <1>7, <2>2 DEF Verify
  <2> QED
    BY <1>7, <2>1, <2>2 DEF Verify, VerifyMatches
<1>8. CASE Complete
  BY <1>8 DEF Complete, CompletionStatus, Requests, Intents
<1> QED
  BY <1>1, <1>2, <1>3, <1>4, <1>5, <1>6, <1>7, <1>8 DEF FinalSave

LEMMA CreateTells ==
  ASSUME TypeOK, CreateInv, TargetStoryInv, Create
  PROVE  TargetStoryInv'
<1> USE DEF TypeOK, CreateInv, TargetInv, UnknownInv, Unknown, PostCreate, PreCreate, Landing, Steps,
    TargetStoryInv, JournalInv, StatusInv, Backed, Completed, DoubtInv, ForeignInv, Foreign,
    ForeignCaseIntact, FrozenInv, RevisionInv, DeliveryInv, Running, At, Finishing, RoutedSteps,
    ConfiguredSteps, Journal, Persist, PersistThen, Checkpoint, Continue, Quiet, platform,
    Phase, Throw, Forget, Histories
<1>1. CASE Preflight
  BY <1>1 DEF Preflight
<1>2. CASE RecheckSource
  BY <1>2 DEF RecheckSource
<1>3. CASE ReadEnvironment
  <2>1. CASE Throw
    BY <1>3, <2>1, ThrowTells DEF ReadEnvironment, SameDoubts
  <2>2. CASE /\ Continue([mem EXCEPT !.config = source.config, !.domain = source.domain],
                         IF mem.target = NoCase THEN "requestCreate" ELSE "config")
             /\ mem.target # NoCase =>
                  SameVersion(mem.config, source.config) /\ SameVersion(mem.domain, source.domain)
    BY <1>3, <2>2 DEF ReadEnvironment, SameVersion
  <2> QED
    BY <1>3, <2>1, <2>2, Zenon DEF ReadEnvironment
<1>4. CASE RequestCreate
  BY <1>4 DEF RequestCreate
<1>5. CASE CreateAnswered
  <2>1. PICK nid \in {history.cases + 1, Source, Prior} :
          /\ mem' = [mem EXCEPT !.target = nid, !.targetWorkId = 0]
          /\ nid \in {Source, Prior} => work' = OtherCase
    BY <1>5 DEF CreateAnswered
  <2>2. /\ pc = "create" /\ pc' = "created" /\ UNCHANGED <<request, status, disk, after, read>>
        /\ source'.config = source.config /\ source'.domain = source.domain
    BY <1>5 DEF CreateAnswered
  <2>3. /\ mem'.target = nid /\ mem'.kind = mem.kind /\ mem'.phase = mem.phase
        /\ mem'.config = mem.config /\ mem'.domain = mem.domain /\ mem'.routing = mem.routing
        /\ mem'.preSaveWorkId = mem.preSaveWorkId
    BY <2>1
  <2>4. history'.routingInDoubt = history.routingInDoubt
    <3>1. history' = history \/ history' = [history EXCEPT !.cases = @ + 1, !.touched = FALSE]
      BY <1>5, Zenon DEF CreateAnswered
    <3> QED
      BY <3>1, HistoryFields
  <2>5. nid \in Nat \cup {Source, Prior}
    OBVIOUS
  <2>6. nid \in {Source, Prior} \/ (nid # Source /\ nid # Prior)
    OBVIOUS
  <2>7. JournalInv' /\ DoubtInv' /\ FrozenInv' /\ RevisionInv'
    BY <2>2, <2>3, <2>4
  <2>8. StatusInv' /\ DeliveryInv'
    BY <2>2, <2>3, <2>4
  <2>9. ForeignInv'
    BY <2>1, <2>2, <2>3, NidAssumption
  <2> QED
    BY <2>7, <2>8, <2>9
<1>6. CASE CreateFails
  BY <1>6 DEF CreateFails
<1>7. CASE RecordCreateRejected
  BY <1>7 DEF RecordCreateRejected
<1>8. CASE RecordCreateUnknown
  BY <1>8 DEF RecordCreateUnknown, UnknownCreate
<1>9. CASE RecordCreated
  <2>1. CASE /\ PersistThen(Phase("TARGET_IDENTITY_CONFLICT"), "SAVE_INCOMPLETE", "idle")
             /\ IdentityConflict
    BY <1>9, <2>1, NidAssumption DEF RecordCreated, IdentityConflict, Nids
  <2>2. CASE PersistThen(Phase("TARGET_CREATED"), "SAVE_AS_CREATED", "config") /\ ~IdentityConflict
    BY <1>9, <2>2, NidAssumption DEF RecordCreated, IdentityConflict, Nids
  <2> QED
    BY <1>9, <2>1, <2>2, Zenon DEF RecordCreated
<1> QED
  BY <1>1, <1>2, <1>3, <1>4, <1>5, <1>6, <1>7, <1>8, <1>9 DEF Create

LEMMA TransitionTells ==
  ASSUME TypeOK, CreateInv, TargetStoryInv, Transition
  PROVE  TargetStoryInv'
<1> USE DEF TypeOK, CreateInv, TargetInv, UnknownInv, Unknown, PostCreate, PreCreate, Landing, Steps,
    TargetStoryInv, JournalInv, StatusInv, Backed, Completed, DoubtInv, ForeignInv, Foreign,
    ForeignCaseIntact, FrozenInv, RevisionInv, DeliveryInv, Running, At, Finishing, RoutedSteps,
    ConfiguredSteps, Journal, Persist, PersistThen, Checkpoint, Continue, Quiet, platform
<1>1. pc = "transition" /\ UNCHANGED <<request, source, work, history>>
  BY DEF Transition
<1>2. CASE Throw
  BY <1>1, <1>2, ThrowTells DEF SameDoubts
<1>3. CASE Forget /\ status' = after.to /\ disk' = disk
  <2>1. pc' = "idle" /\ mem'.target = NoCase
    BY <1>3 DEF Forget, NewJournal
  <2> QED
    BY <1>1, <1>3, <2>1, NidAssumption
<1>4. CASE /\ pc' = after.then /\ after.then # "idle" /\ status' = after.to
           /\ after'.then = "idle" /\ UNCHANGED <<disk, mem, read>>
  BY <1>1, <1>4
<1>5. CASE /\ pc' = "saveUnknown" /\ after.then = "verify"
           /\ after'.then = "idle" /\ UNCHANGED <<status, disk, mem, read>>
  BY <1>1, <1>5
<1>6. NoTransition.then = "idle"
  BY DEF NoTransition
<1> QED
  BY <1>2, <1>3, <1>4, <1>5, <1>6 DEF Transition

LEMMA OutsideTells ==
  ASSUME TypeOK, CreateInv, TargetStoryInv, Resume \/ Interrupt \/ EditSource \/ EditTarget
  PROVE  TargetStoryInv'
<1> USE DEF TypeOK, CreateInv, TargetInv, UnknownInv, Unknown, PostCreate, PreCreate, Landing, Steps,
    TargetStoryInv, JournalInv, StatusInv, Backed, Completed, DoubtInv, ForeignInv, Foreign,
    ForeignCaseIntact, FrozenInv, RevisionInv, DeliveryInv, Running, At, Finishing, RoutedSteps,
    ConfiguredSteps, Journal, Persist, PersistThen, Checkpoint, Continue, Quiet, platform
<1>1. ASSUME NEW intent \in Intents, Start(intent) PROVE TargetStoryInv'
  <2> DEFINE j == LoadedJournal(intent)
  <2>1. /\ disk.phase # "ABSENT" => j = disk
        /\ disk.phase = "ABSENT" => j = NewJournal("NOT_STARTED", intent)
    BY DEF LoadedJournal
  <2>2. /\ pc = "idle" /\ pc' = IF mem'.target = NoCase THEN "preflight" ELSE "environment"
        /\ j.kind = intent /\ j.phase \notin StickyPhases
        /\ mem' = [j EXCEPT !.kind = intent]
        /\ status \in Resumable(intent) /\ (intent = "known-issues-diagnostic" => request.intent = intent)
        /\ UNCHANGED <<request, status, disk, after, read, source, work, history>>
    BY <1>1 DEF Start, SameKind
  <2>3. request.intent \in Intents /\ NoCase \notin Nids
    BY NidAssumption DEF Requests, Nids
  <2>4. intent = request.intent
    <3>1. CASE disk.phase # "ABSENT"
      BY <2>1, <2>2, <3>1
    <3>2. CASE disk.phase = "ABSENT"
      <4>1. status = ReadyStatus(intent)
        BY <2>2, <2>3, <3>2 DEF Resumable
      <4> QED
        BY <2>2, <2>3, <4>1 DEF ReadyStatus, Intents
    <3> QED
      BY <3>1, <3>2
  <2>5. /\ mem'.kind = request.intent /\ mem'.target = disk.target
        /\ mem'.routing = disk.routing /\ mem'.preSaveWorkId = disk.preSaveWorkId
        /\ mem'.phase = IF disk.phase = "ABSENT" THEN "NOT_STARTED" ELSE disk.phase
        /\ disk.target # NoCase => mem'.config = disk.config /\ mem'.domain = disk.domain
    <3>1. CASE disk.phase # "ABSENT"
      BY <2>1, <2>2, <2>4, <3>1
    <3>2. CASE disk.phase = "ABSENT"
      BY <2>1, <2>2, <2>4, <3>2 DEF NewJournal
    <3> QED
      BY <3>1, <3>2
  <2>6. disk.phase \notin StickyPhases /\ status \notin Completed
    BY <2>1, <2>2 DEF StickyPhases, Resumable, ReadyStatus
  <2>7. ~Foreign(disk.target)
    BY <2>6 DEF StickyPhases
  <2> HIDE DEF j
  <2> QED
    BY <2>2, <2>5, <2>6, <2>7
<1>2. CASE Interrupt
  <2>1. history' = [history EXCEPT !.orphans = IF pc \in {"created", "createUnknown"} THEN @ + 1 ELSE @]
    BY <1>2 DEF Interrupt
  <2>2. SameDoubts
    BY <2>1, HistoryFields DEF SameDoubts
  <2> QED
    BY <1>2, <2>2, ThrowTells DEF Interrupt
<1>3. CASE EditSource
  <2>1. source'.config > 0 /\ source'.domain > 0
    BY <1>3 DEF EditSource
  <2> QED
    BY <1>3, <2>1 DEF EditSource
<1>4. CASE EditTarget
  <2>1. history'.touched /\ history'.routingInDoubt = history.routingInDoubt
    BY <1>4, HistoryFields DEF EditTarget
  <2>2. /\ ~Foreign(mem.target) /\ ~Foreign(disk.target)
        /\ pc = "created" => mem.target \notin {Source, Prior}
    BY <1>4, NidAssumption DEF EditTarget, TargetExists
  <2> QED
    BY <1>4, <2>1, <2>2 DEF EditTarget
<1> QED
  BY <1>1, <1>2, <1>3, <1>4 DEF Resume

LEMMA InitTells == Init => TargetStoryInv
<1> SUFFICES ASSUME Init PROVE TargetStoryInv
  OBVIOUS
<1>1. /\ pc = "idle" /\ status = ReadyStatus(request.intent) /\ request.intent \in Intents
      /\ disk = NewJournal("ABSENT", request.intent) /\ mem = disk
      /\ source.config = 1 /\ source.domain = 1 /\ work = OtherCase
      /\ ~history.routingInDoubt
  BY DEF Init, Requests
<1>2. /\ disk.kind = request.intent /\ disk.target = NoCase /\ disk.routing = "UNFROZEN"
      /\ disk.preSaveWorkId = NoRevision /\ disk.phase = "ABSENT"
  BY <1>1 DEF NewJournal
<1>3. status \in {"READY_TO_SAVE", "READY_TO_SAVE_DIAGNOSTIC_COPY"}
  BY <1>1 DEF ReadyStatus
<1>4. StatusInv
  BY <1>1, <1>2, <1>3 DEF StatusInv, Backed, Running, At, RoutedSteps, Completed
<1>5. JournalInv /\ DoubtInv /\ FrozenInv /\ RevisionInv
  BY <1>1, <1>2 DEF JournalInv, DoubtInv, FrozenInv, RevisionInv, Running
<1>6. ForeignInv
  BY <1>1, <1>2, NidAssumption DEF ForeignInv, ForeignCaseIntact, Foreign
<1>7. DeliveryInv
  BY <1>1, <1>3 DEF DeliveryInv, At, RoutedSteps, ConfiguredSteps, Finishing, Completed
<1> QED
  BY <1>4, <1>5, <1>6, <1>7 DEF TargetStoryInv

LEMMA StepTells ==
  ASSUME TypeOK, CreateInv, TargetStoryInv, [Next]_vars
  PROVE  TargetStoryInv'
<1>1. CASE UNCHANGED vars
  BY <1>1 DEF vars, TargetStoryInv, JournalInv, StatusInv, Backed, DoubtInv, ForeignInv, Foreign,
     ForeignCaseIntact, FrozenInv, RevisionInv, DeliveryInv, Running, At, Finishing
<1>2. CASE Next
  BY <1>2, CreateTells, ConfigureTells, RouteTells, FinalSaveTells, TransitionTells, OutsideTells
     DEF Next, RunStep
<1> QED
  BY <1>1, <1>2

(* What a run knows of its target, from its journal and its place.           *)
THEOREM TargetStory == Spec => [](TypeOK /\ CreateInv /\ TargetStoryInv)
<1>1. Spec => []TargetStoryInv
  BY InitTells, StepTells, TypeCorrect, CreateInvariant, PTL DEF Spec
<1> QED
  BY <1>1, TypeCorrect, CreateInvariant, PTL

(* Whatever save-as command is issued, a Job completes as what it is.        *)
THEOREM PathsStayApart == Spec => []PathsKeepApart
<1>1. TargetStoryInv => PathsKeepApart
  BY DEF TargetStoryInv, StatusInv, Backed, PathsKeepApart
<1> QED
  BY <1>1, TargetStory, PTL

(* transitionIfNeeded only ever follows the persist() that backs the status. *)
THEOREM StatusIsBacked == Spec => []StatusFollowsJournal
<1>1. TargetStoryInv => StatusFollowsJournal
  BY DEF TargetStoryInv, StatusInv, Backed, StatusFollowsJournal
<1> QED
  BY <1>1, TargetStory, PTL

(* assertCreatedTargetIdentity comes before every write of the returned case, *)
(* and no resume gets past it.                                               *)
THEOREM ForeignCaseIsSafe == Spec => []ForeignCaseIntact
<1>1. TargetStoryInv => ForeignCaseIntact
  BY DEF TargetStoryInv, ForeignInv
<1> QED
  BY <1>1, TargetStory, PTL

(* #ensureDomainRouting sends no write while an earlier one may have landed. *)
THEOREM NoRoutingReplay == Spec => []RoutingNotReplayed
<1>1. TargetStoryInv => RoutingNotReplayed
  BY DEF TargetStoryInv, DoubtInv, RoutingNotReplayed
<1> QED
  BY <1>1, TargetStory, PTL

(* A completed Job has delivered: the final work, the frozen configuration   *)
(* and the frozen routing are all on the target that nobody else touched.    *)
THEOREM CompletedIsDelivered == Spec => []Delivered
<1>1. TargetStoryInv => Delivered
  BY DEF TargetStoryInv, DeliveryInv, Finishing, Delivered
<1> QED
  BY <1>1, TargetStory, PTL

-----------------------------------------------------------------------------
(* What a step writes to the checkpoint: the frozen fields of the journal in *)
(* memory, and a requested save only with the revision just read.            *)
DiskStep ==
  \/ disk' = disk
  \/ /\ Running
     /\ disk'.config = mem.config /\ disk'.domain = mem.domain
     /\ disk'.phase = "FINAL_SAVE_REQUESTED" =>
          \/ mem.phase = "FINAL_SAVE_REQUESTED"
          \/ pc = "requestSave" /\ disk'.preSaveWorkId = read.workId

LEMMA CheckpointKeeps ==
  ASSUME TypeOK, Next
  PROVE  DiskStep
<1> USE DEF TypeOK, DiskStep, Running, Journal, Persist, PersistThen, Checkpoint, Continue, Throw
<1>1. CASE Create
  <2>1. CASE Preflight
    BY <2>1 DEF Preflight
  <2>2. CASE RecheckSource
    BY <2>2 DEF RecheckSource
  <2>3. CASE ReadEnvironment
    BY <2>3 DEF ReadEnvironment
  <2>4. CASE RequestCreate
    BY <2>4 DEF RequestCreate, Phase
  <2>5. CASE CreateAnswered
    BY <2>5 DEF CreateAnswered
  <2>6. CASE CreateFails
    BY <2>6 DEF CreateFails
  <2>7. CASE RecordCreateRejected
    BY <2>7 DEF RecordCreateRejected, Phase
  <2>8. CASE RecordCreateUnknown
    BY <2>8 DEF RecordCreateUnknown, UnknownCreate
  <2>9. CASE RecordCreated
    BY <2>9 DEF RecordCreated, Phase
  <2> QED
    BY <1>1, <2>1, <2>2, <2>3, <2>4, <2>5, <2>6, <2>7, <2>8, <2>9 DEF Create
<1>2. CASE Configure
  <2>1. CASE ReadConfig
    BY <2>1 DEF ReadConfig
  <2>2. CASE WriteConfig
    BY <2>2 DEF WriteConfig
  <2>3. CASE CheckConfig
    BY <2>3 DEF CheckConfig
  <2>4. CASE RecordConfigIncomplete
    BY <2>4 DEF RecordConfigIncomplete, Phase
  <2> QED
    BY <1>2, <2>1, <2>2, <2>3, <2>4 DEF Configure
<1>3. CASE Route
  <2>1. CASE ReadRouting
    BY <2>1 DEF ReadRouting
  <2>2. CASE FreezeRouting
    BY <2>2 DEF FreezeRouting
  <2>3. CASE CompareRouting
    BY <2>3 DEF CompareRouting, Routing
  <2>4. CASE WriteRouting
    BY <2>4 DEF WriteRouting
  <2>5. CASE ReadBackRouting
    BY <2>5 DEF ReadBackRouting, Routing
  <2>6. CASE RecordRoutingFailure
    BY <2>6 DEF RecordRoutingFailure, Routing
  <2> QED
    BY <1>3, <2>1, <2>2, <2>3, <2>4, <2>5, <2>6 DEF Route
<1>4. CASE FinalSave
  <2>1. CASE ReadContent
    BY <2>1 DEF ReadContent
  <2>2. CASE ConfirmContent
    BY <2>2 DEF ConfirmContent, Phase
  <2>3. CASE RequestSave
    BY <2>3 DEF RequestSave
  <2>4. CASE Save
    BY <2>4 DEF Save
  <2>5. CASE RecordSaveResponse
    BY <2>5 DEF RecordSaveResponse, Phase
  <2>6. CASE RecordSaveUnknown
    BY <2>6 DEF RecordSaveUnknown, Phase
  <2>7. CASE Verify
    BY <2>7 DEF Verify, Phase
  <2>8. CASE Complete
    BY <2>8 DEF Complete
  <2> QED
    BY <1>4, <2>1, <2>2, <2>3, <2>4, <2>5, <2>6, <2>7, <2>8 DEF FinalSave
<1>5. CASE Transition \/ Resume \/ Interrupt \/ EditSource \/ EditTarget
  BY <1>5 DEF Transition, Resume, Start, Interrupt, EditSource, EditTarget
<1> QED
  BY <1>1, <1>2, <1>3, <1>4, <1>5 DEF Next, RunStep

(* No run, and no change of the source in between, replaces what the target  *)
(* was frozen with.                                                          *)
THEOREM FrozenStays == Spec => FrozenAtCreation
<1>1. (TypeOK /\ CreateInv /\ TargetStoryInv) /\ [Next]_vars =>
        [disk.target # NoCase =>
           disk'.config = disk.config /\ disk'.domain = disk.domain]_vars
  BY CheckpointKeeps DEF DiskStep, TargetStoryInv, FrozenInv
<1> QED
  BY <1>1, TargetStory, PTL DEF Spec, FrozenAtCreation

(* A save of unknown outcome is sent again only if nothing has moved the     *)
(* target since the first request.                                           *)
THEOREM RevisionStays == Spec => RetryKeepsRevision
<1>1. (TypeOK /\ CreateInv /\ TargetStoryInv) /\ [Next]_vars =>
        [disk.phase = "FINAL_SAVE_OUTCOME_UNKNOWN" /\ disk'.phase = "FINAL_SAVE_REQUESTED"
           => disk'.preSaveWorkId = disk.preSaveWorkId]_vars
  BY CheckpointKeeps DEF DiskStep, TargetStoryInv, JournalInv, RevisionInv, Running
<1> QED
  BY <1>1, TargetStory, PTL DEF Spec, RetryKeepsRevision
=============================================================================

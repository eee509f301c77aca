----------------------------- MODULE RefreshProofs -----------------------------
(* Proofs about Refresh, for every number of kills, faults and edits.        *)
EXTENDS Refresh, TLAPS

Histories ==
  [sends : Nat, touched : BOOLEAN, candidates : SUBSET Nat, baselineReads : 0 .. 2]
Bounds == [kills : Nat, faults : Nat, edits : Nat]

(* The statuses a mutation of the journal may lead to.                       *)
Outcomes ==
  {"REFRESH_WRITE_REQUESTED", "REFRESH_RECONCILIATION_REQUIRED",
   "TARGET_REFRESHED", "REFRESH_BLOCKED", "REFRESH_TARGET_DRIFTED",
   "REFRESH_OUTCOME_UNKNOWN"}
Unsettled == {"REFRESH_WRITE_REQUESTED", "REFRESH_RECONCILIATION_REQUIRED"}

BeforeRequest == {"lease", "permission", "check", "judge", "stale", "request"}
LeasedByApply ==
  {"permission", "check", "judge", "stale", "request", "send", "answer",
   "readResponse", "readRejection", "readUnknown",
   "settleResponse", "settleRejection", "settleUnknown"}

(* What a command has read when it acts on it.                               *)
ReadInv ==
  /\ pc["prepare"] \in {"recheck", "plan"} => read["prepare"] \in Observation
  /\ pc["reconcile"] = "decide" => read["reconcile"] \in Observation

(* The journal tells how far the permit is.                                  *)
JournalInv ==
  /\ status \in {"REFRESH_PREPARING", "AWAITING_REFRESH_AUTHORIZATION"}
       => journal = "ABSENT"
  /\ status = "REFRESH_READY_TO_APPLY" => granted
  /\ journal = "ABSENT" => history.sends = 0
  /\ pc["apply"] \in BeforeRequest => journal = "ABSENT"

(* Before it sends, apply finds the permit spent, nothing sent and the       *)
(* Refresh open; a rejection it handles is the platform's.                   *)
SendInv ==
  /\ pc["apply"] = "send" =>
       journal # "ABSENT" /\ history.sends = 0 /\ status \in Unsettled
  /\ pc["apply"] \in {"readRejection", "settleRejection"} => wire = "rejected"

(* The target write lease is held by whoever works on the target.            *)
LeaseInv ==
  /\ pc["apply"] \in LeasedByApply => lease = "apply"
  /\ pc["reconcile"] \in {"observe", "decide"} => lease = "reconcile"

(* A mutation between its two writes.  Only the adoption of an interrupted   *)
(* write's journal happens without the lease.                                *)
CommitInv ==
  commit # NoCommit =>
    /\ commit.by \in {"apply", "reconcile"}
    /\ pc[commit.by] = "commit"
    /\ commit.status \in Outcomes
    /\ commit.then \in {"send", "idle", "finalize", "lease"}
    /\ journal # "ABSENT"
    /\ commit.then = "send" =>
         commit.by = "apply" /\ history.sends = 0
         /\ commit.status = "REFRESH_WRITE_REQUESTED"
    /\ commit.then = "lease" =>
         commit.by = "reconcile" /\ commit.status = "REFRESH_RECONCILIATION_REQUIRED"
    /\ commit.then # "lease" => lease = commit.by
    /\ commit.status = "REFRESH_BLOCKED" => commit.by = "apply" /\ wire = "rejected"
    /\ commit.status = "TARGET_REFRESHED" => read[commit.by] \in Observation

Inv == ReadInv /\ JournalInv /\ SendInv /\ LeaseInv /\ CommitInv
IInv == TypeOK /\ Inv

-----------------------------------------------------------------------------
LEMMA Values ==
  /\ Outcomes \subseteq Statuses
  /\ {"REFRESH_PREPARING", "AWAITING_REFRESH_AUTHORIZATION", "REFRESH_READY_TO_APPLY",
      "REFRESH_PLAN_STALE"} \subseteq Statuses
  /\ Commands = {"prepare", "apply", "reconcile", "finalize"}
  BY DEF Outcomes, Statuses, Terminal, Transitions, Commands

LEMMA InitIInv == Init => IInv
<1> SUFFICES ASSUME Init PROVE IInv
  OBVIOUS
<1>1. TypeOK
  <2>1. history \in Histories
    <3>1. {n \in {0} : target.content = "candidate"} \in SUBSET Nat
      OBVIOUS
    <3> QED
      BY <3>1 DEF Init, Histories
  <2>2. target \in Target
    BY DEF Init, Target, Contents
  <2>3. pc \in [Commands -> Steps] /\ read \in [Commands -> Observation \cup {NoRead}]
    BY DEF Init, Steps
  <2>4. status \in Statuses /\ journal \in Phases /\ wire \in Wires /\ source \in Nat
    BY Values DEF Init, Phases, Wires
  <2>5. result \in [workId : Nat \cup {NoRevision}, succession : BOOLEAN]
    BY DEF Init
  <2>6. spent \in [kills : Nat, faults : Nat, edits : Nat]
    BY DEF Init
  <2> QED
    BY <2>1, <2>2, <2>3, <2>4, <2>5, <2>6 DEF Init, TypeOK, Histories
<1>2. Inv
  BY DEF Init, Inv, ReadInv, JournalInv, SendInv, LeaseInv, CommitInv,
         BeforeRequest, LeasedByApply, Commands
<1> QED
  BY <1>1, <1>2 DEF IInv

LEMMA BoundsType ==
  ASSUME spent \in Bounds
  PROVE  /\ FaultHappens => spent' \in Bounds
         /\ EditHappens => spent' \in Bounds
         /\ [spent EXCEPT !.kills = @ + 1] \in Bounds
  BY DEF Bounds, FaultHappens, EditHappens

LEMMA HistoryType ==
  ASSUME history \in Histories
  PROVE  /\ [history EXCEPT !.sends = @ + 1] \in Histories
         /\ \A b \in BOOLEAN : [history EXCEPT !.touched = b] \in Histories
         /\ \A c \in SUBSET Nat : [history EXCEPT !.candidates = c] \in Histories
         /\ history.baselineReads < 2 =>
              [history EXCEPT !.baselineReads = @ + 1] \in Histories
  BY DEF Histories

(* A command that ends, and is not between the two writes of a mutation.     *)
LEMMA ThrowKeeps ==
  ASSUME IInv, NEW c \in Commands, pc[c] # "commit", Throw(c), spent' \in Bounds,
         UNCHANGED <<expired, accepting, wire, target, source, history>>
  PROVE  IInv'
<1>1. TypeOK'
  BY DEF IInv, TypeOK, Throw, End, Goto, store, Steps, Bounds
<1>2. Inv'
  BY Values DEF IInv, TypeOK, Inv, ReadInv, JournalInv, SendInv, LeaseInv, CommitInv,
         BeforeRequest, LeasedByApply, Throw, End, Goto, store
<1> QED
  BY <1>1, <1>2 DEF IInv

(* A command that mutates the journal, or throws.                            *)
LEMMA MutateKeeps ==
  ASSUME IInv, NEW c \in {"apply", "reconcile"}, pc[c] # "commit",
         NEW from, NEW to \in Outcomes, NEW phase \in Phases \ {"ABSENT"},
         NEW then \in {"idle", "finalize", "lease"},
         then = "lease" => c = "reconcile" /\ to = "REFRESH_RECONCILIATION_REQUIRED",
         then # "lease" => lease = c,
         to = "REFRESH_BLOCKED" => c = "apply" /\ wire = "rejected",
         to = "TARGET_REFRESHED" => read[c] \in Observation,
         MutateJournal(c, from, to, phase, then),
         UNCHANGED <<expired, accepting, wire, target, source, spent, history>>
  PROVE  IInv'
<1>1. CASE Throw(c)
  BY <1>1, ThrowKeeps, Values DEF IInv, TypeOK, Bounds
<1>2. CASE ~Throw(c)
  <2>1. /\ Unlocked /\ journal # "ABSENT"
        /\ journal' = phase
        /\ commit' = [by |-> c, status |-> to, then |-> then]
        /\ Goto(c, "commit")
        /\ UNCHANGED <<status, plan, granted, result, read, lease>>
    BY <1>2 DEF MutateJournal
  <2>2. TypeOK'
    <3>1. [by |-> c, status |-> to, then |-> then] \in Commits
      BY Values DEF Commits, Steps
    <3> QED
      BY <2>1, <3>1 DEF IInv, TypeOK, Goto, Steps
  <2>3. Inv'
    BY <2>1, Values DEF IInv, TypeOK, Inv, ReadInv, JournalInv, SendInv, LeaseInv,
       CommitInv, BeforeRequest, LeasedByApply, Goto, Unlocked
  <2> QED
    BY <2>2, <2>3 DEF IInv
<1> QED
  BY <1>1, <1>2

LEMMA ObservedType == IInv => Observed \in Observation
  BY DEF IInv, TypeOK, Observed, Observation, Target

-----------------------------------------------------------------------------
(* One lemma for the actions of each process.                                *)
LEMMA PrepareKeeps == IInv /\ Prepare => IInv'
<1> SUFFICES ASSUME IInv, Prepare PROVE IInv'
  OBVIOUS
<1>1. CASE PrepareRead
  <2>1. TypeOK'
    BY <1>1, ObservedType, BoundsType
    DEF IInv, TypeOK, Bounds, PrepareRead, ReadPlatform, Continue, Goto, store, platform,
        Steps, Commands
  <2>2. Inv'
    BY <1>1, ObservedType
    DEF IInv, TypeOK, Inv, ReadInv, JournalInv, SendInv, LeaseInv, CommitInv,
        BeforeRequest, LeasedByApply, PrepareRead, ReadPlatform, Continue, Goto, store,
        platform, Commands
  <2> QED
    BY <2>1, <2>2 DEF IInv
<1>2. CASE PrepareRecheck
  <2>1. TypeOK'
    BY <1>2, BoundsType
    DEF IInv, TypeOK, Bounds, PrepareRecheck, Continue, Goto, store, platform,
        Steps, Commands
  <2>2. Inv'
    BY <1>2
    DEF IInv, TypeOK, Inv, ReadInv, JournalInv, SendInv, LeaseInv, CommitInv,
        BeforeRequest, LeasedByApply, PrepareRecheck, Continue, Goto, store,
        platform, Commands
  <2> QED
    BY <2>1, <2>2 DEF IInv
<1>3. CASE SetPlan
  <2>1. CASE Throw("prepare")
    BY <1>3, <2>1, ThrowKeeps
    DEF SetPlan, Quiet, platform, IInv, TypeOK, Bounds, Commands
  <2>2. CASE ~Throw("prepare")
    <3>1. TypeOK'
      BY <1>3, <2>2, Values
      DEF IInv, TypeOK, Inv, ReadInv, SetPlan, End, Goto, Quiet, platform, Plans, Steps,
          Commands
    <3>2. Inv'
      BY <1>3, <2>2
      DEF IInv, TypeOK, Inv, ReadInv, JournalInv, SendInv, LeaseInv, CommitInv,
          BeforeRequest, LeasedByApply, SetPlan, Unlocked, End, Goto, Quiet, platform,
          Commands
    <3> QED
      BY <3>1, <3>2 DEF IInv
  <2> QED
    BY <2>1, <2>2
<1>4. CASE Block
  <2>1. CASE Throw("prepare")
    BY <1>4, <2>1, ThrowKeeps
    DEF Block, Quiet, platform, IInv, TypeOK, Bounds, Commands
  <2>2. CASE ~Throw("prepare")
    <3>1. TypeOK'
      BY <1>4, <2>2, Values
      DEF IInv, TypeOK, Block, End, Goto, Quiet, platform, Steps, Commands, Outcomes
    <3>2. Inv'
      BY <1>4, <2>2
      DEF IInv, TypeOK, Inv, ReadInv, JournalInv, SendInv, LeaseInv, CommitInv,
          BeforeRequest, LeasedByApply, Block, Unlocked, End, Goto, Quiet, platform,
          Commands
    <3> QED
      BY <3>1, <3>2 DEF IInv
  <2> QED
    BY <2>1, <2>2
<1> QED
  BY <1>1, <1>2, <1>3, <1>4 DEF Prepare

LEMMA LeaseKeeps ==
  ASSUME IInv, NEW c \in {"apply", "reconcile", "finalize"}, NEW then \in Steps,
         c = "apply" => then = "permission",
         c = "reconcile" => then = "observe",
         c = "finalize" => then = "finalize",
         Lease(c, then)
  PROVE  IInv'
<1>1. CASE Throw(c) /\ spent' \in Bounds
  <2>1. pc[c] # "commit" /\ c \in Commands
    BY DEF Lease, Commands
  <2> QED
    BY <1>1, <2>1, ThrowKeeps DEF Lease, platform
<1>2. CASE LeaseFree /\ lease' = c /\ Goto(c, then) /\ UNCHANGED <<store, read, spent>>
  <2>1. TypeOK'
    BY <1>2 DEF IInv, TypeOK, Lease, Goto, store, platform, Commands
  <2>2. Inv'
    BY <1>2
    DEF IInv, TypeOK, Inv, ReadInv, JournalInv, SendInv, LeaseInv, CommitInv,
        BeforeRequest, LeasedByApply, Lease, LeaseFree, Goto, store, platform, Commands
  <2> QED
    BY <2>1, <2>2 DEF IInv
<1>3. spent \in Bounds
  BY DEF IInv, TypeOK, Bounds
<1> QED
  BY <1>1, <1>2, <1>3, BoundsType DEF Lease

LEMMA FinalizeKeeps ==
  ASSUME IInv, NEW c \in {"apply", "reconcile", "finalize"}, FinalizeConfirmed(c)
  PROVE  IInv'
<1>0. spent \in Bounds /\ pc[c] = "finalize" /\ c \in Commands
  BY DEF IInv, TypeOK, Bounds, FinalizeConfirmed, Commands
<1>1. CASE Throw(c) /\ spent' \in Bounds
  BY <1>0, <1>1, ThrowKeeps DEF FinalizeConfirmed, platform
<1>2. CASE /\ result' = [result EXCEPT !.succession = TRUE]
           /\ End(c)
           /\ UNCHANGED <<status, plan, granted, journal, commit, spent>>
  <2>1. TypeOK'
    BY <1>0, <1>2 DEF IInv, TypeOK, FinalizeConfirmed, End, Goto, platform, Steps
  <2>2. Inv'
    BY <1>0, <1>2
    DEF IInv, TypeOK, Inv, ReadInv, JournalInv, SendInv, LeaseInv, CommitInv,
        BeforeRequest, LeasedByApply, FinalizeConfirmed, End, Goto, platform
  <2> QED
    BY <2>1, <2>2 DEF IInv
<1> QED
  BY <1>0, <1>1, <1>2, BoundsType DEF FinalizeConfirmed

LEMMA CountKeeps ==
  ASSUME IInv, CountBaseline
  PROVE  history' \in Histories /\ history'.sends = history.sends
<1>1. history \in Histories
  BY DEF IInv, TypeOK, Histories
<1>2. CASE history' = history
  BY <1>1, <1>2
<1>3. CASE /\ history.baselineReads < 2
           /\ history' = [history EXCEPT !.baselineReads = @ + 1]
  <2>1. history'.sends = history.sends
    BY <1>1, <1>3 DEF Histories
  <2> QED
    BY <1>1, <1>3, <2>1, HistoryType
<1> QED
  BY <1>2, <1>3 DEF CountBaseline

LEMMA ApplyKeeps == IInv /\ Apply => IInv'
<1> SUFFICES ASSUME IInv, Apply PROVE IInv'
  OBVIOUS
<1>1. CASE LeaseForApply
  BY <1>1, LeaseKeeps DEF LeaseForApply, Steps
<1>2. CASE CheckPermission
  <2>1. TypeOK'
    BY <1>2, BoundsType
    DEF IInv, TypeOK, Bounds, CheckPermission, Steps,
        Continue, Goto, store, platform, Commands
  <2>2. Inv'
    BY <1>2
    DEF IInv, TypeOK, Inv, ReadInv, JournalInv, SendInv, LeaseInv, CommitInv,
        BeforeRequest, LeasedByApply,
        CheckPermission, Continue, Goto, store, platform, Commands
  <2> QED
    BY <2>1, <2>2 DEF IInv
<1>3. CASE ReadBaseline
  <2>1. TypeOK'
    <3>1. history' \in Histories
      BY <1>3, HistoryType DEF IInv, TypeOK, Histories, ReadBaseline
    <3> QED
      BY <1>3, <3>1, ObservedType
      DEF IInv, TypeOK, Histories, ReadBaseline, ReadPlatform, Steps,
          Continue, Goto, store, platform, Commands
  <2>2. Inv'
    BY <1>3, HistoryType
    DEF IInv, TypeOK, Inv, ReadInv, JournalInv, SendInv, LeaseInv, CommitInv,
        BeforeRequest, LeasedByApply,
        Histories, ReadBaseline, ReadPlatform,
        Continue, Goto, store, platform, Commands
  <2> QED
    BY <2>1, <2>2 DEF IInv
<1>4. CASE JudgeBaseline
  <2>1. CASE Throw("apply")
    BY <1>4, <2>1, ThrowKeeps
    DEF JudgeBaseline, Quiet, platform, IInv, TypeOK, Bounds, Commands
  <2>2. CASE Continue("apply", IF PlanIsCurrent THEN "request" ELSE "stale")
             /\ UNCHANGED read
    <3>1. TypeOK'
      BY <1>4, <2>2
      DEF IInv, TypeOK, JudgeBaseline, Quiet, Steps,
          Continue, Goto, store, platform, Commands
    <3>2. Inv'
      BY <1>4, <2>2
      DEF IInv, TypeOK, Inv, ReadInv, JournalInv, SendInv, LeaseInv, CommitInv,
          BeforeRequest, LeasedByApply,
          JudgeBaseline, Quiet,
          Continue, Goto, store, platform, Commands
    <3> QED
      BY <3>1, <3>2 DEF IInv
  <2> QED
    BY <1>4, <2>1, <2>2 DEF JudgeBaseline
<1>5. CASE MarkPlanStale
  <2>1. CASE Throw("apply")
    BY <1>5, <2>1, ThrowKeeps
    DEF MarkPlanStale, Quiet, platform, IInv, TypeOK, Bounds, Commands
  <2>2. CASE ~Throw("apply")
    <3>1. TypeOK'
      BY <1>5, <2>2, Values
      DEF IInv, TypeOK, MarkPlanStale, End, Goto, Quiet, platform, Steps, Commands
    <3>2. Inv'
      BY <1>5, <2>2
      DEF IInv, TypeOK, Inv, ReadInv, JournalInv, SendInv, LeaseInv, CommitInv,
          BeforeRequest, LeasedByApply, MarkPlanStale, Unlocked, End, Goto, Quiet,
          platform, Commands
    <3> QED
      BY <3>1, <3>2 DEF IInv
  <2> QED
    BY <2>1, <2>2
<1>6. CASE MarkWriteRequested
  <2>1. CASE Throw("apply")
    BY <1>6, <2>1, ThrowKeeps
    DEF MarkWriteRequested, Quiet, platform, IInv, TypeOK, Bounds, Commands
  <2>2. CASE ~Throw("apply")
    <3>1. [by |-> "apply", status |-> "REFRESH_WRITE_REQUESTED", then |-> "send"]
            \in Commits
      BY Values DEF Commits, Outcomes, Steps
    <3>2. TypeOK'
      BY <1>6, <2>2, <3>1
      DEF IInv, TypeOK, MarkWriteRequested, Goto, Quiet, platform, Phases, Steps, Commands
    <3>3. Inv'
      BY <1>6, <2>2
      DEF IInv, TypeOK, Inv, ReadInv, JournalInv, SendInv, LeaseInv, CommitInv,
          BeforeRequest, LeasedByApply, MarkWriteRequested, Unlocked, JournalFree, Goto,
          Quiet, platform, Outcomes, Commands
    <3> QED
      BY <3>2, <3>3 DEF IInv
  <2> QED
    BY <2>1, <2>2
<1>7. CASE SaveWork
  <2>1. history' \in Histories
    BY <1>7, HistoryType DEF IInv, TypeOK, Histories, SaveWork
  <2>2. TypeOK'
    BY <1>7, <2>1
    DEF IInv, TypeOK, Histories, SaveWork, Wires, Steps, Continue, Goto, store, Commands
  <2>3. pc["apply"] = "send" /\ lease = "apply"
    BY <1>7 DEF SaveWork, IInv, Inv, LeaseInv, LeasedByApply
  <2>4. Inv'
    BY <1>7, <2>3
    DEF IInv, TypeOK, Inv, ReadInv, JournalInv, SendInv, LeaseInv, CommitInv,
        BeforeRequest, LeasedByApply, SaveWork, Continue, Goto, store, Commands
  <2> QED
    BY <2>2, <2>4 DEF IInv
<1>8. CASE Answer
  <2>1. TypeOK'
    BY <1>8, BoundsType
    DEF IInv, TypeOK, Bounds, Answer, Steps,
        Continue, Goto, store, platform, Commands
  <2>2. Inv'
    BY <1>8
    DEF IInv, TypeOK, Inv, ReadInv, JournalInv, SendInv, LeaseInv, CommitInv,
        BeforeRequest, LeasedByApply,
        Answer, Continue, Goto, store, platform, Commands
  <2> QED
    BY <2>1, <2>2 DEF IInv
<1>9. CASE ReadBack
  <2>1. history' \in Histories /\ history'.sends = history.sends
    BY <1>9, CountKeeps DEF ReadBack, IInv, TypeOK, Histories
  <2>2. Settling(pc["apply"]) \in {"settleResponse", "settleRejection", "settleUnknown"}
        /\ (Settling(pc["apply"]) = "settleRejection" => pc["apply"] = "readRejection")
    BY <1>9 DEF ReadBack, Settling
  <2>3. read' \in [Commands -> Observation \cup {NoRead}]
        /\ read' = [read EXCEPT !["apply"] = read'["apply"]]
    BY <1>9, ObservedType DEF ReadBack, ReadPlatform, IInv, TypeOK, Commands
  <2>4. spent' \in Bounds
    BY <1>9, BoundsType DEF ReadBack, IInv, TypeOK, Bounds
  <2>5. Continue("apply", Settling(pc["apply"])) /\ UNCHANGED <<expired, accepting, platform>>
    BY <1>9 DEF ReadBack
  <2>6. TypeOK'
    BY <2>1, <2>2, <2>3, <2>4, <2>5
    DEF IInv, TypeOK, Histories, Bounds, Steps, Continue, Goto, store, platform, Commands
  <2>7. pc["apply"] \in {"readResponse", "readRejection", "readUnknown"}
    BY <1>9 DEF ReadBack
  <2>8. Inv'
    BY <2>1, <2>2, <2>3, <2>5, <2>7
    DEF IInv, TypeOK, Inv, ReadInv, JournalInv, SendInv, LeaseInv, CommitInv,
        BeforeRequest, LeasedByApply, Continue, Goto, store, platform, Commands
  <2> QED
    BY <2>6, <2>8 DEF IInv
<1>10. CASE Settle
  <2>1. /\ pc["apply"] \in {"settleResponse", "settleRejection", "settleUnknown"}
        /\ lease = "apply"
        /\ RejectedByPlatform => wire = "rejected"
        /\ UNCHANGED <<expired, accepting, wire, target, source, spent, history>>
    BY <1>10
    DEF Settle, IInv, Inv, LeaseInv, LeasedByApply, SendInv, RejectedByPlatform, Quiet,
        platform
  <2>2. CASE ShowsCandidate(read["apply"]) /\ ConfirmWrite("apply")
    <3>1. read["apply"] \in Observation
      BY <2>2 DEF ShowsCandidate, IInv, TypeOK, Commands
    <3> QED
      BY <2>1, <2>2, <3>1, MutateKeeps DEF ConfirmWrite, Outcomes, Phases
  <2>3. CASE RejectedByPlatform /\ RecordWriteRejected
    BY <2>1, <2>3, MutateKeeps DEF RecordWriteRejected, Outcomes, Phases
  <2>4. CASE RecordWriteUnknown
    <3>1. (IF read["apply"] = NoRead THEN "WRITE_OUTCOME_UNKNOWN"
                                     ELSE "RECONCILIATION_REQUIRED")
            \in Phases \ {"ABSENT"}
      BY DEF Phases
    <3> QED
      BY <2>1, <2>4, <3>1, MutateKeeps DEF RecordWriteUnknown, Outcomes
  <2> QED
    BY <1>10, <2>2, <2>3, <2>4 DEF Settle
<1>11. CASE FinalizeConfirmed("apply")
  BY <1>11, FinalizeKeeps
<1> QED
  BY <1>1, <1>2, <1>3, <1>4, <1>5, <1>6, <1>7, <1>8, <1>9, <1>10, <1>11 DEF Apply

LEMMA ReconcileKeeps == IInv /\ Reconcile => IInv'
<1> SUFFICES ASSUME IInv, Reconcile PROVE IInv'
  OBVIOUS
<1>1. CASE Adopt
  <2>1. pc["reconcile"] = "adopt"
        /\ UNCHANGED <<expired, accepting, wire, target, source, spent, history>>
    BY <1>1 DEF Adopt, Quiet, platform
  <2>2. CASE Continue("reconcile", "lease") /\ UNCHANGED read
    <3>1. TypeOK'
      BY <2>1, <2>2 DEF IInv, TypeOK, Continue, Goto, store, Steps, Commands
    <3>2. Inv'
      BY <2>1, <2>2
      DEF IInv, TypeOK, Inv, ReadInv, JournalInv, SendInv, LeaseInv, CommitInv,
          BeforeRequest, LeasedByApply, Continue, Goto, store, Commands
    <3> QED
      BY <3>1, <3>2 DEF IInv
  <2>3. CASE MutateJournal("reconcile", Adoptable, "REFRESH_RECONCILIATION_REQUIRED",
                           "WRITE_OUTCOME_UNKNOWN", "lease")
    BY <2>1, <2>3, MutateKeeps DEF Outcomes, Phases
  <2> QED
    BY <1>1, <2>2, <2>3 DEF Adopt
<1>2. CASE LeaseForReconcile
  BY <1>2, LeaseKeeps DEF LeaseForReconcile, Steps
<1>3. CASE Observe
  <2>1. CASE ReadPlatform("reconcile") /\ Continue("reconcile", "decide")
             /\ CountBaseline /\ UNCHANGED spent
    <3>1. history' \in Histories /\ history'.sends = history.sends
      BY <2>1, CountKeeps
    <3>2. UNCHANGED <<expired, accepting, wire, target, source>> /\ pc["reconcile"] = "observe"
      BY <1>3 DEF Observe, platform
    <3>3. TypeOK'
      BY <2>1, <3>1, <3>2, ObservedType
      DEF IInv, TypeOK, Histories, ReadPlatform, Steps, Continue, Goto, store, Commands
    <3>4. Inv'
      BY <2>1, <3>1, <3>2, ObservedType
      DEF IInv, TypeOK, Inv, ReadInv, JournalInv, SendInv, LeaseInv, CommitInv,
          BeforeRequest, LeasedByApply, ReadPlatform, Continue, Goto, store, Commands
    <3> QED
      BY <3>3, <3>4 DEF IInv
  <2>2. CASE FaultHappens /\ Throw("reconcile") /\ UNCHANGED history
    BY <1>3, <2>2, ThrowKeeps, BoundsType
    DEF Observe, platform, IInv, TypeOK, Bounds, Commands
  <2> QED
    BY <1>3, <2>1, <2>2 DEF Observe
<1>4. CASE Decide
  <2>1. /\ pc["reconcile"] = "decide"
        /\ lease = "reconcile"
        /\ read["reconcile"] \in Observation
        /\ UNCHANGED <<expired, accepting, wire, target, source, spent, history>>
    BY <1>4 DEF Decide, IInv, Inv, LeaseInv, ReadInv, Quiet, platform
  <2>2. CASE ConfirmWrite("reconcile")
    BY <2>1, <2>2, MutateKeeps DEF ConfirmWrite, Outcomes, Phases
  <2>3. CASE MarkBaselineStillPresent
    BY <2>1, <2>3, MutateKeeps DEF MarkBaselineStillPresent, Outcomes, Phases
  <2>4. CASE MarkTargetDrifted
    BY <2>1, <2>4, MutateKeeps DEF MarkTargetDrifted, Outcomes, Phases
  <2> QED
    BY <1>4, <2>2, <2>3, <2>4 DEF Decide
<1>5. CASE FinalizeConfirmed("reconcile")
  BY <1>5, FinalizeKeeps
<1> QED
  BY <1>1, <1>2, <1>3, <1>4, <1>5 DEF Reconcile

LEMMA FinalizersKeep == IInv /\ Finalize => IInv'
  BY LeaseKeeps, FinalizeKeeps DEF Finalize, LeaseForFinalize, Steps

LEMMA CommitKeeps == IInv /\ Commit => IInv'
<1> SUFFICES ASSUME IInv, Commit PROVE IInv'
  OBVIOUS
<1>1. /\ commit \in Commits
      /\ commit.by \in {"apply", "reconcile"}
      /\ pc[commit.by] = "commit"
      /\ commit' = NoCommit
      /\ UNCHANGED <<plan, granted, expired, accepting, journal, wire, target, source, spent, history>>
  BY DEF Commit, IInv, TypeOK, Inv, CommitInv, Quiet, platform
<1>2. CASE End(commit.by) /\ UNCHANGED <<status, result>>
  <2>1. TypeOK'
    BY <1>1, <1>2 DEF IInv, TypeOK, End, Goto, Steps, Commands
  <2>2. Inv'
    BY <1>1, <1>2
    DEF IInv, TypeOK, Inv, ReadInv, JournalInv, SendInv, LeaseInv, CommitInv,
        BeforeRequest, LeasedByApply, End, Goto, Commands
  <2> QED
    BY <2>1, <2>2 DEF IInv
<1>3. CASE Allowed(status, commit.status)
  <2>1. /\ status' = commit.status
        /\ result' \in [workId : Nat \cup {NoRevision}, succession : BOOLEAN]
    <3>1. CASE Confirms(commit.status)
      <4>1. read[commit.by].workId \in Nat
        BY <1>3, <3>1 DEF Commit, Confirms, IInv, Inv, CommitInv, Observation
      <4> QED
        BY <1>3, <3>1, <4>1 DEF Commit, IInv, TypeOK
    <3>2. CASE ~Confirms(commit.status)
      BY <1>3, <3>2 DEF Commit, IInv, TypeOK
    <3> QED
      BY <3>1, <3>2
  <2>2. commit.status \in Statuses
    BY <1>1 DEF Commits
  <2>3. CASE End(commit.by)
    <3>1. TypeOK'
      BY <1>1, <2>1, <2>2, <2>3 DEF IInv, TypeOK, End, Goto, Steps, Commands
    <3>2. Inv'
      BY <1>1, <2>1, <2>3
      DEF IInv, TypeOK, Inv, ReadInv, JournalInv, SendInv, LeaseInv, CommitInv, Commit,
          BeforeRequest, LeasedByApply, End, Goto, Outcomes, Unsettled, Commands
    <3> QED
      BY <3>1, <3>2 DEF IInv
  <2>4. CASE Goto(commit.by, commit.then) /\ UNCHANGED <<read, lease>>
    <3>1. TypeOK'
      BY <1>1, <2>1, <2>2, <2>4 DEF IInv, TypeOK, Goto, Commits, Commands
    <3>2. Inv'
      BY <1>1, <2>1, <2>4
      DEF IInv, TypeOK, Inv, ReadInv, JournalInv, SendInv, LeaseInv, CommitInv, Commit,
          BeforeRequest, LeasedByApply, Goto, Outcomes, Unsettled, Commands
    <3> QED
      BY <3>1, <3>2 DEF IInv
  <2> QED
    BY <1>3, <2>3, <2>4 DEF Commit
<1> QED
  BY <1>2, <1>3 DEF Commit

-----------------------------------------------------------------------------
LEMMA StartKeeps == IInv /\ Start => IInv'
<1> SUFFICES ASSUME IInv, Start PROVE IInv'
  OBVIOUS
<1>1. CASE Authorize
  <2>1. TypeOK'
    BY <1>1, Values
    DEF IInv, TypeOK, Authorize, Quiet, platform
  <2>2. Inv'
    BY <1>1
    DEF IInv, TypeOK, Inv, ReadInv, JournalInv, SendInv, LeaseInv, CommitInv,
        BeforeRequest, LeasedByApply,
        Authorize, Quiet, platform, Unlocked
  <2> QED
    BY <2>1, <2>2 DEF IInv
<1>2. CASE StartApply
  <2>1. TypeOK'
    BY <1>2
    DEF IInv, TypeOK, StartApply, Quiet, Steps,
        Continue, Goto, store, platform, Commands
  <2>2. Inv'
    BY <1>2
    DEF IInv, TypeOK, Inv, ReadInv, JournalInv, SendInv, LeaseInv, CommitInv,
        BeforeRequest, LeasedByApply,
        StartApply, JournalFree, Quiet,
        Continue, Goto, store, platform, Commands
  <2> QED
    BY <2>1, <2>2 DEF IInv
<1>3. CASE StartReconcile
  <2>1. TypeOK'
    BY <1>3
    DEF IInv, TypeOK, StartReconcile, Quiet, Steps,
        Continue, Goto, store, platform, Commands
  <2>2. Inv'
    BY <1>3
    DEF IInv, TypeOK, Inv, ReadInv, JournalInv, SendInv, LeaseInv, CommitInv,
        BeforeRequest, LeasedByApply,
        StartReconcile, Quiet,
        Continue, Goto, store, platform, Commands
  <2> QED
    BY <2>1, <2>2 DEF IInv
<1>4. CASE StartFinalize
  <2>1. TypeOK'
    BY <1>4
    DEF IInv, TypeOK, StartFinalize, Quiet, Steps,
        Continue, Goto, store, platform, Commands
  <2>2. Inv'
    BY <1>4
    DEF IInv, TypeOK, Inv, ReadInv, JournalInv, SendInv, LeaseInv, CommitInv,
        BeforeRequest, LeasedByApply,
        StartFinalize, Quiet,
        Continue, Goto, store, platform, Commands
  <2> QED
    BY <2>1, <2>2 DEF IInv
<1> QED
  BY <1>1, <1>2, <1>3, <1>4 DEF Start

(* Whoever writes the target: its revision advances, a candidate is          *)
(* remembered.                                                               *)
LEMMA WriteType ==
  ASSUME IInv, NEW content \in Contents, WriteTarget(content)
  PROVE  target' \in Target /\ history' \in Histories /\ history'.sends = history.sends
<1>1. target \in Target /\ history \in Histories
  BY DEF IInv, TypeOK, Histories
<1>2. target.workId + 1 \in Nat
  BY <1>1 DEF Target
<1>3. target' \in Target
  <2>1. \A n \in Nat : [target EXCEPT !.content = content, !.workId = n] \in Target
    BY <1>1 DEF Target
  <2> QED
    BY <1>2, <2>1 DEF WriteTarget, NextRevision
<1>4. \E c \in SUBSET Nat : history' = [history EXCEPT !.candidates = c]
  <2>1. history.candidates \in SUBSET Nat
    BY <1>1 DEF Histories
  <2>2. history.candidates \cup {target.workId + 1} \in SUBSET Nat
    BY <1>2, <2>1
  <2> QED
    BY <2>1, <2>2 DEF WriteTarget
<1> QED
  BY <1>1, <1>3, <1>4 DEF Histories

(* A step of the platform or of another user of it.                          *)
LEMMA OutsideKeeps ==
  ASSUME IInv, UNCHANGED <<store, expired, pc, read, lease>>, accepting' \in BOOLEAN,
         wire' \in Wires, wire = "rejected" => wire' = "rejected",
         target' \in Target, source' \in Nat, spent' \in Bounds,
         history' \in Histories, history'.sends = history.sends
  PROVE  IInv'
  BY DEF IInv, TypeOK, Bounds, Histories, Inv, ReadInv, JournalInv, SendInv, LeaseInv,
         CommitInv, store

LEMMA PlatformKeeps == IInv /\ Platform => IInv'
<1> SUFFICES ASSUME IInv, Platform PROVE IInv'
  OBVIOUS
<1>1. /\ spent \in Bounds /\ history \in Histories
      /\ target \in Target /\ source \in Nat /\ accepting \in BOOLEAN
  BY DEF IInv, TypeOK, Bounds, Histories
<1>2. CASE Land
  BY <1>1, <1>2, WriteType, OutsideKeeps DEF Land, Contents, Wires
<1>3. CASE Misland
  BY <1>1, <1>3, WriteType, OutsideKeeps, BoundsType DEF Misland, Contents, Wires
<1> QED
  BY <1>2, <1>3 DEF Platform

LEMMA OthersKeep == IInv /\ Others => IInv'
<1> SUFFICES ASSUME IInv, Others PROVE IInv'
  OBVIOUS
<1>1. /\ spent \in Bounds /\ history \in Histories /\ wire \in Wires
      /\ target \in Target /\ source \in Nat /\ accepting \in BOOLEAN
  BY DEF IInv, TypeOK, Bounds, Histories
<1>2. CASE WorkflowWrite
  <2>1. PICK content \in {"candidate", "other"} : WriteTarget(content)
    BY <1>2 DEF WorkflowWrite
  <2> QED
    BY <1>1, <1>2, <2>1, WriteType, OutsideKeeps, BoundsType DEF WorkflowWrite, Contents
<1>3. CASE EditTarget
  <2>1. target' \in Target
    <3>1. \A n \in Nat : [target EXCEPT !.content = "other", !.workId = n] \in Target
      BY <1>1 DEF Target, Contents
    <3>2. \A n \in Nat : [target EXCEPT !.config = n] \in Target
      BY <1>1 DEF Target
    <3>3. target.workId + 1 \in Nat /\ target.config + 1 \in Nat
      BY <1>1 DEF Target
    <3> QED
      BY <1>3, <3>1, <3>2, <3>3 DEF EditTarget, NextRevision
  <2>2. history' \in Histories /\ history'.sends = history.sends
    BY <1>1, <1>3, HistoryType DEF EditTarget, Histories
  <2> QED
    BY <1>1, <1>3, <2>1, <2>2, OutsideKeeps, BoundsType DEF EditTarget
<1>4. CASE EditSource
  BY <1>1, <1>4, OutsideKeeps, BoundsType DEF EditSource
<1>5. CASE ReviewsChange
  BY <1>1, <1>5, OutsideKeeps DEF ReviewsChange, platform
<1> QED
  BY <1>2, <1>3, <1>4, <1>5 DEF Others

LEMMA KillKeeps ==
  ASSUME IInv, NEW c \in Commands, Kill(c)
  PROVE  IInv'
<1>1. spent' \in Bounds
  BY BoundsType DEF IInv, TypeOK, Bounds, Kill
<1>2. TypeOK'
  BY <1>1 DEF IInv, TypeOK, Bounds, Kill, End, Goto, platform, Steps
<1>3. Inv'
  BY DEF IInv, TypeOK, Inv, ReadInv, JournalInv, SendInv, LeaseInv, CommitInv,
         BeforeRequest, LeasedByApply, Kill, End, Goto, platform, Commands
<1> QED
  BY <1>2, <1>3 DEF IInv

LEMMA ExpireKeeps == IInv /\ Expire => IInv'
  BY DEF IInv, TypeOK, Inv, ReadInv, JournalInv, SendInv, LeaseInv, CommitInv, Expire,
         store, platform

LEMMA StepKeeps == IInv /\ [Next]_vars => IInv'
<1> SUFFICES ASSUME IInv, [Next]_vars PROVE IInv'
  OBVIOUS
<1>1. CASE UNCHANGED vars
  BY <1>1 DEF vars, IInv, TypeOK, Inv, ReadInv, JournalInv, SendInv, LeaseInv, CommitInv
<1>2. CASE Next
  BY <1>2, PrepareKeeps, ApplyKeeps, ReconcileKeeps, FinalizersKeep, CommitKeeps,
     StartKeeps, PlatformKeeps, OthersKeep, ExpireKeeps, KillKeeps
  DEF Next, CommandStep
<1> QED
  BY <1>1, <1>2

(* The invariant the other theorems rest on.                                 *)
LEMMA IInvariant == Spec => []IInv
  BY InitIInv, StepKeeps, PTL DEF Spec

(* Every variable of a Refresh keeps its type, for every number of kills,    *)
(* faults and edits.                                                         *)
THEOREM Typing == Spec => []TypeOK
<1>1. IInv => TypeOK
  BY DEF IInv
<1> QED
  BY <1>1, IInvariant, PTL

-----------------------------------------------------------------------------
(* The refinement: which step of OneShotWrite each action is.                *)
LEMMA SameSeen ==
  ASSUME UNCHANGED <<journal, granted, status, wire>>,
         history'.sends = history.sends
  PROVE  UNCHANGED Promise!vars
  BY DEF Promise!vars, Permit, Fate, Verdict

LEMMA OpenVerdict ==
  /\ status \notin Terminal => Verdict = "open"
  /\ (status \notin Terminal)' => Verdict' = "open"
  BY DEF Terminal, Verdict

LEMMA PermitValues ==
  /\ journal # "ABSENT" => Permit = "spent"
  /\ journal = "ABSENT" /\ granted => Permit = "granted"
  /\ journal = "ABSENT" /\ ~granted => Permit = "none"
  /\ journal' # "ABSENT" => Permit' = "spent"
  /\ journal' = "ABSENT" /\ granted' => Permit' = "granted"
  /\ journal' = "ABSENT" /\ ~granted' => Permit' = "none"
  BY DEF Permit

(* A mutation of the journal shows only when state.json is written.          *)
LEMMA MutateSame ==
  ASSUME NEW c, NEW from, NEW to, NEW phase \in Phases \ {"ABSENT"}, NEW then,
         MutateJournal(c, from, to, phase, then), UNCHANGED <<wire, history>>
  PROVE  UNCHANGED Promise!vars
<1>1. CASE Throw(c)
  BY <1>1, SameSeen DEF Throw, store
<1>2. CASE ~Throw(c)
  <2>1. journal # "ABSENT" /\ journal' # "ABSENT" /\ UNCHANGED <<status, granted>>
    BY <1>2 DEF MutateJournal
  <2> QED
    BY <2>1 DEF Promise!vars, Permit, Fate, Verdict
<1> QED
  BY <1>1, <1>2

LEMMA PrepareImplements == IInv /\ Prepare => [Promise!Next]_(Promise!vars)
<1> SUFFICES ASSUME IInv, Prepare PROVE [Promise!Next]_(Promise!vars)
  OBVIOUS
<1>1. CASE PrepareRead \/ PrepareRecheck
  BY <1>1, SameSeen DEF PrepareRead, PrepareRecheck, Continue, store, platform
<1>2. CASE SetPlan
  <2>1. UNCHANGED <<journal, granted, wire, history>>
    BY <1>2 DEF SetPlan, Throw, store, Quiet, platform
  <2>2. CASE status' = status
    BY <2>1, <2>2, SameSeen
  <2>3. CASE status = "REFRESH_PREPARING" /\ status' = "AWAITING_REFRESH_AUTHORIZATION"
    <3>1. Verdict = "open" /\ Verdict' = "open"
      BY <2>3, OpenVerdict DEF Terminal
    <3> QED
      BY <2>1, <3>1 DEF Promise!vars, Permit, Fate
  <2> QED
    BY <1>2, <2>2, <2>3 DEF SetPlan, Throw, store
<1>3. CASE Block
  <2>1. UNCHANGED <<journal, granted, wire, history>>
    BY <1>3 DEF Block, Throw, store, Quiet, platform
  <2>2. CASE status' = status
    BY <2>1, <2>2, SameSeen
  <2>3. CASE status = "REFRESH_PREPARING" /\ status' = "REFRESH_BLOCKED"
    <3>1. Verdict = "open"
      BY <2>3, OpenVerdict DEF Terminal
    <3>2. journal = "ABSENT"
      BY <2>3 DEF IInv, Inv, JournalInv
    <3>3. Verdict' = "void"
      BY <2>1, <2>3, <3>2 DEF Verdict
    <3>4. Permit # "spent"
      BY <3>2 DEF Permit
    <3> QED
      BY <2>1, <3>1, <3>3, <3>4 DEF Promise!Next, Promise!Abandon, Permit, Fate
  <2> QED
    BY <1>3, <2>2, <2>3 DEF Block, Throw, store
<1> QED
  BY <1>1, <1>2, <1>3 DEF Prepare

LEMMA ApplyImplements == IInv /\ Apply => [Promise!Next]_(Promise!vars)
<1> SUFFICES ASSUME IInv, Apply PROVE [Promise!Next]_(Promise!vars)
  OBVIOUS
<1>1. CASE LeaseForApply
  BY <1>1, SameSeen DEF LeaseForApply, Lease, Throw, store, platform
<1>2. CASE CheckPermission \/ JudgeBaseline \/ Answer
  BY <1>2, SameSeen
  DEF CheckPermission, JudgeBaseline, Answer, Continue, Throw, store, platform, Quiet
<1>3. CASE ReadBaseline
  <2>1. history'.sends = history.sends
    BY <1>3 DEF ReadBaseline, IInv, TypeOK
  <2> QED
    BY <1>3, <2>1, SameSeen DEF ReadBaseline, Continue, store, platform
<1>4. CASE MarkPlanStale
  <2>1. UNCHANGED <<journal, granted, wire, history>>
    BY <1>4 DEF MarkPlanStale, Throw, store, Quiet, platform
  <2>2. CASE status' = status
    BY <2>1, <2>2, SameSeen
  <2>3. CASE Allowed(status, "REFRESH_PLAN_STALE") /\ status' = "REFRESH_PLAN_STALE"
    <3>1. Verdict = "open"
      BY <2>3, OpenVerdict DEF Allowed
    <3>2. journal = "ABSENT"
      BY <1>4 DEF MarkPlanStale, IInv, Inv, JournalInv, BeforeRequest
    <3>3. Verdict' = "void"
      BY <2>3 DEF Verdict
    <3>4. Permit # "spent"
      BY <3>2 DEF Permit
    <3> QED
      BY <2>1, <3>1, <3>3, <3>4 DEF Promise!Next, Promise!Abandon, Permit, Fate
  <2> QED
    BY <1>4, <2>2, <2>3 DEF MarkPlanStale, Throw, store
<1>5. CASE MarkWriteRequested
  <2>1. UNCHANGED <<status, granted, wire, history>>
    BY <1>5 DEF MarkWriteRequested, Throw, store, Quiet, platform
  <2>2. CASE journal' = journal
    BY <2>1, <2>2, SameSeen
  <2>3. CASE status = "REFRESH_READY_TO_APPLY" /\ JournalFree
             /\ journal' = "WRITE_REQUESTED"
    <3>1. Verdict = "open" /\ Verdict' = "open"
      BY <2>1, <2>3, OpenVerdict DEF Terminal
    <3>2. Permit = "granted" /\ Permit' = "spent"
      BY <2>3, PermitValues DEF JournalFree, IInv, Inv, JournalInv
    <3> QED
      BY <2>1, <3>1, <3>2 DEF Promise!Next, Promise!Spend, Fate
  <2> QED
    BY <1>5, <2>2, <2>3 DEF MarkWriteRequested, Throw, store
<1>6. CASE SaveWork
  <2>1. UNCHANGED <<journal, granted, status>> /\ pc["apply"] = "send" /\ wire' = "flying"
    BY <1>6 DEF SaveWork, Continue, store
  <2>2. journal # "ABSENT" /\ history.sends = 0 /\ status \in Unsettled
    BY <2>1 DEF IInv, Inv, SendInv
  <2>3. history'.sends = 1
    BY <1>6, <2>2 DEF SaveWork, IInv, TypeOK
  <2>4. Verdict = "open" /\ Verdict' = "open"
    BY <2>1, <2>2, OpenVerdict DEF Unsettled, Terminal
  <2>5. Permit = "spent" /\ Permit' = "spent"
    BY <2>1, <2>2, PermitValues
  <2>6. Fate' = "out"
    BY <2>1 DEF Fate
  <2> QED
    BY <2>2, <2>3, <2>4, <2>5, <2>6 DEF Promise!Next, Promise!Send
<1>7. CASE ReadBack
  <2>1. history'.sends = history.sends
    BY <1>7, CountKeeps DEF ReadBack
  <2> QED
    BY <1>7, <2>1, SameSeen DEF ReadBack, Continue, store, platform
<1>8. CASE Settle
  <2>1. UNCHANGED <<wire, history>>
    BY <1>8 DEF Settle, Quiet, platform
  <2>2. CASE ConfirmWrite("apply")
    BY <2>1, <2>2, MutateSame DEF ConfirmWrite, Phases
  <2>3. CASE RecordWriteRejected
    BY <2>1, <2>3, MutateSame DEF RecordWriteRejected, Phases
  <2>4. CASE RecordWriteUnknown
    <3>1. (IF read["apply"] = NoRead THEN "WRITE_OUTCOME_UNKNOWN"
                                     ELSE "RECONCILIATION_REQUIRED")
            \in Phases \ {"ABSENT"}
      BY DEF Phases
    <3> QED
      BY <2>1, <2>4, <3>1, MutateSame DEF RecordWriteUnknown
  <2> QED
    BY <1>8, <2>2, <2>3, <2>4 DEF Settle
<1>9. CASE FinalizeConfirmed("apply")
  BY <1>9, SameSeen DEF FinalizeConfirmed, Throw, store, platform
<1> QED
  BY <1>1, <1>2, <1>3, <1>4, <1>5, <1>6, <1>7, <1>8, <1>9 DEF Apply

LEMMA ReconcileImplements == IInv /\ Reconcile => [Promise!Next]_(Promise!vars)
<1> SUFFICES ASSUME IInv, Reconcile PROVE [Promise!Next]_(Promise!vars)
  OBVIOUS
<1>1. CASE Adopt
  <2>1. UNCHANGED <<wire, history>>
    BY <1>1 DEF Adopt, Quiet, platform
  <2>2. CASE Continue("reconcile", "lease")
    BY <2>1, <2>2, SameSeen DEF Continue, store
  <2>3. CASE MutateJournal("reconcile", Adoptable, "REFRESH_RECONCILIATION_REQUIRED",
                           "WRITE_OUTCOME_UNKNOWN", "lease")
    BY <2>1, <2>3, MutateSame DEF Phases
  <2> QED
    BY <1>1, <2>2, <2>3 DEF Adopt
<1>2. CASE LeaseForReconcile
  BY <1>2, SameSeen DEF LeaseForReconcile, Lease, Throw, store, platform
<1>3. CASE Observe
  <2>1. history'.sends = history.sends
    BY <1>3, CountKeeps DEF Observe
  <2> QED
    BY <1>3, <2>1, SameSeen DEF Observe, Throw, Continue, store, platform
<1>4. CASE Decide
  <2>1. UNCHANGED <<wire, history>>
    BY <1>4 DEF Decide, Quiet, platform
  <2> QED
    BY <1>4, <2>1, MutateSame
    DEF Decide, ConfirmWrite, MarkBaselineStillPresent, MarkTargetDrifted, Phases
<1>5. CASE FinalizeConfirmed("reconcile")
  BY <1>5, SameSeen DEF FinalizeConfirmed, Throw, store, platform
<1> QED
  BY <1>1, <1>2, <1>3, <1>4, <1>5 DEF Reconcile

(* The second write of a mutation decides the plan, or leaves it open.       *)
LEMMA CommitImplements == IInv /\ Commit => [Promise!Next]_(Promise!vars)
<1> SUFFICES ASSUME IInv, Commit PROVE [Promise!Next]_(Promise!vars)
  OBVIOUS
<1>1. UNCHANGED <<journal, granted, wire, history>>
  BY DEF Commit, Quiet, platform
<1>2. CASE status' = status
  BY <1>1, <1>2, SameSeen
<1>3. CASE Allowed(status, commit.status) /\ status' = commit.status
  <2>1. journal # "ABSENT" /\ commit.status \in Outcomes
        /\ (commit.status = "REFRESH_BLOCKED" => wire = "rejected")
    BY DEF Commit, IInv, Inv, CommitInv
  <2>2. Verdict = "open" /\ Permit = "spent"
    BY <1>3, <2>1, OpenVerdict, PermitValues DEF Allowed
  <2>3. UNCHANGED <<Permit, Fate, history.sends>>
    BY <1>1 DEF Permit, Fate
  <2>4. CASE status' \in Unsettled
    <3>1. Verdict' = "open"
      BY <2>4, OpenVerdict DEF Unsettled, Terminal
    <3> QED
      BY <2>2, <2>3, <3>1 DEF Promise!vars
  <2>5. CASE status' = "REFRESH_BLOCKED"
    <3>1. Verdict' = "refused"
      BY <1>1, <2>1, <2>5 DEF Verdict
    <3>2. Fate = "refused"
      BY <1>3, <2>1, <2>5 DEF Fate
    <3> QED
      BY <2>2, <2>3, <3>1, <3>2 DEF Promise!Next, Promise!Decide
  <2>6. CASE status' \in {"TARGET_REFRESHED", "REFRESH_TARGET_DRIFTED",
                          "REFRESH_OUTCOME_UNKNOWN"}
    <3>1. Verdict' \in {"confirmed", "unknown", "drifted"}
      BY <2>6 DEF Verdict
    <3> QED
      BY <2>2, <2>3, <3>1 DEF Promise!Next, Promise!Decide
  <2> QED
    BY <1>3, <2>1, <2>4, <2>5, <2>6 DEF Outcomes, Unsettled
<1> QED
  BY <1>2, <1>3 DEF Commit

LEMMA StartImplements == IInv /\ Start => [Promise!Next]_(Promise!vars)
<1> SUFFICES ASSUME IInv, Start PROVE [Promise!Next]_(Promise!vars)
  OBVIOUS
<1>1. CASE Authorize
  <2>1. /\ UNCHANGED <<journal, wire, history>>
        /\ granted' = TRUE
        /\ status = "AWAITING_REFRESH_AUTHORIZATION"
        /\ status' = "REFRESH_READY_TO_APPLY"
    BY <1>1 DEF Authorize, Quiet, platform
  <2>2. journal = "ABSENT"
    BY <2>1 DEF IInv, Inv, JournalInv
  <2>3. Verdict = "open" /\ Verdict' = "open"
    BY <2>1, OpenVerdict DEF Terminal
  <2>4. CASE granted
    <3>1. Permit = "granted" /\ Permit' = "granted"
      BY <2>1, <2>2, <2>4, PermitValues
    <3> QED
      BY <2>1, <2>3, <3>1 DEF Promise!vars, Fate
  <2>5. CASE ~granted
    <3>1. Permit = "none" /\ Permit' = "granted"
      BY <2>1, <2>2, <2>5, PermitValues
    <3> QED
      BY <2>1, <2>3, <3>1 DEF Promise!Next, Promise!Grant, Fate
  <2> QED
    BY <2>4, <2>5
<1>2. CASE StartApply \/ StartReconcile \/ StartFinalize
  BY <1>2, SameSeen
  DEF StartApply, StartReconcile, StartFinalize, Continue, store, platform, Quiet
<1> QED
  BY <1>1, <1>2 DEF Start

LEMMA PlatformImplements == IInv /\ Platform => [Promise!Next]_(Promise!vars)
<1> SUFFICES ASSUME IInv, Platform PROVE [Promise!Next]_(Promise!vars)
  OBVIOUS
<1>1. wire = "flying" /\ UNCHANGED <<journal, granted, status>>
      /\ wire' \in {"landed", "rejected", "lost"}
  BY DEF Platform, Land, Misland, store
<1>2. history'.sends = history.sends
  BY WriteType DEF Platform, Land, Misland, Contents
<1>3. Fate = "out" /\ Fate' \in {"applied", "refused", "lost"}
  BY <1>1 DEF Fate
<1>4. UNCHANGED <<Permit, Verdict>>
  BY <1>1 DEF Permit, Verdict
<1> QED
  BY <1>2, <1>3, <1>4 DEF Promise!Next, Promise!TakeEffect

LEMMA OthersImplement == IInv /\ Others => [Promise!Next]_(Promise!vars)
<1> SUFFICES ASSUME IInv, Others PROVE [Promise!Next]_(Promise!vars)
  OBVIOUS
<1>1. UNCHANGED <<journal, granted, status, wire>>
  BY DEF Others, WorkflowWrite, EditTarget, EditSource, ReviewsChange, store, platform
<1>2. history'.sends = history.sends
  BY WriteType
  DEF Others, WorkflowWrite, EditTarget, EditSource, ReviewsChange, Contents, IInv, TypeOK
<1> QED
  BY <1>1, <1>2, SameSeen

LEMMA StepImplements == IInv /\ [Next]_vars => [Promise!Next]_(Promise!vars)
<1> SUFFICES ASSUME IInv, [Next]_vars PROVE [Promise!Next]_(Promise!vars)
  OBVIOUS
<1>1. CASE UNCHANGED vars
  BY <1>1, SameSeen DEF vars
<1>2. CASE Finalize
  BY <1>2, SameSeen
  DEF Finalize, LeaseForFinalize, Lease, FinalizeConfirmed, Throw, store, platform
<1>3. CASE Expire
  BY <1>3, SameSeen DEF Expire, store, platform
<1>4. CASE \E c \in Commands : Kill(c)
  BY <1>4, SameSeen DEF Kill, platform
<1> QED
  BY <1>1, <1>2, <1>3, <1>4, PrepareImplements, ApplyImplements, ReconcileImplements,
     CommitImplements, StartImplements, PlatformImplements, OthersImplement
  DEF Next, CommandStep

LEMMA InitImplements == Init => Promise!Init
  BY DEF Init, Promise!Init, Permit, Fate, Verdict

(* A Refresh implements the one-shot write: whatever its commands, their     *)
(* deaths, the platform and others do, at most one request leaves, after the *)
(* journal, never from a closed Refresh, and the verdict is final.           *)
THEOREM Implements == Spec => KeepsPromise
  BY IInvariant, InitImplements, StepImplements, PTL DEF Spec, KeepsPromise, Promise!Spec

-----------------------------------------------------------------------------
(* What a Refresh records, and what it writes over: the rest of the safety   *)
(* properties, which need more than the permit.                              *)

(* The journal, the status, and the mutation between them.                   *)
OutcomeInv ==
  /\ JournalAgrees
  /\ NoRefusedStatus
  /\ commit # NoCommit => journal \in JournalOf(commit.status)

LEMMA Mutations ==
  /\ \A from \in Unsettled : Allowed(from, "TARGET_REFRESHED")
  /\ \A from \in Adoptable : Allowed(from, "REFRESH_RECONCILIATION_REQUIRED")
  /\ Allowed("REFRESH_READY_TO_APPLY", "REFRESH_WRITE_REQUESTED")
  /\ Allowed("REFRESH_WRITE_REQUESTED", "REFRESH_BLOCKED")
  /\ Allowed("REFRESH_RECONCILIATION_REQUIRED", "REFRESH_TARGET_DRIFTED")
  /\ Allowed("REFRESH_RECONCILIATION_REQUIRED", "REFRESH_OUTCOME_UNKNOWN")
  BY DEF Unsettled, Adoptable, Allowed, Terminal, Transitions

LEMMA JournalsOf ==
  /\ JournalOf("TARGET_REFRESHED") = {"READBACK_VERIFIED"}
  /\ JournalOf("REFRESH_BLOCKED") = {"ABSENT", "WRITE_REJECTED"}
  /\ JournalOf("REFRESH_TARGET_DRIFTED") = {"TARGET_DRIFTED"}
  /\ JournalOf("REFRESH_OUTCOME_UNKNOWN") = {"BASELINE_STILL_PRESENT"}
  /\ \A s \in Unsettled : JournalOf(s) = Phases \ {"ABSENT"}
  /\ JournalOf("REFRESH_READY_TO_APPLY") = Phases
  /\ JournalOf("REFRESH_PREPARING") = {"ABSENT"}
  /\ JournalOf("AWAITING_REFRESH_AUTHORIZATION") = {"ABSENT"}
  /\ JournalOf("REFRESH_PLAN_STALE") = {"ABSENT"}
  BY DEF JournalOf, Unsettled

LEMMA OutcomeFrame ==
  ASSUME OutcomeInv, UNCHANGED <<status, journal, commit>>
  PROVE  OutcomeInv'
  BY DEF OutcomeInv, JournalAgrees, NoRefusedStatus

LEMMA OutcomeMutates ==
  ASSUME IInv, OutcomeInv, NEW c \in Commands,
         NEW from \in SUBSET (Adoptable \cup Unsettled),
         NEW to, NEW phase \in JournalOf(to) \ {"ABSENT"}, NEW then,
         \A s \in from : Allowed(s, to),
         phase \in Phases,
         MutateJournal(c, from, to, phase, then)
  PROVE  OutcomeInv'
<1>1. CASE Throw(c)
  BY <1>1, OutcomeFrame DEF Throw, store
<1>2. CASE ~Throw(c)
  <2>1. /\ status \in from
        /\ status' = status
        /\ journal' = phase
        /\ commit' = [by |-> c, status |-> to, then |-> then]
    BY <1>2 DEF MutateJournal
  <2>2. JournalOf(status) \in {Phases, Phases \ {"ABSENT"}}
    BY <2>1, JournalsOf DEF Adoptable, Unsettled
  <2> QED
    BY <2>1, <2>2 DEF OutcomeInv, JournalAgrees, NoRefusedStatus
<1> QED
  BY <1>1, <1>2

LEMMA OutcomeStep == IInv /\ OutcomeInv /\ [Next]_vars => OutcomeInv'
<1> SUFFICES ASSUME IInv, OutcomeInv, [Next]_vars PROVE OutcomeInv'
  OBVIOUS
<1>1. CASE UNCHANGED <<status, journal, commit>>
  BY <1>1, OutcomeFrame
<1>2. CASE SetPlan \/ Block \/ MarkPlanStale
  <2>1. CASE UNCHANGED status
    BY <1>2, <2>1, <1>1 DEF SetPlan, Block, MarkPlanStale, Throw, store
  <2>2. ASSUME ~UNCHANGED status
        PROVE  journal = "ABSENT" /\ UNCHANGED <<journal, commit>>
    <3>1. UNCHANGED <<journal, commit>>
      BY <1>2 DEF SetPlan, Block, MarkPlanStale, Throw, store
    <3>2. CASE MarkPlanStale
      BY <3>1, <3>2 DEF MarkPlanStale, IInv, Inv, JournalInv, BeforeRequest
    <3>3. CASE status = "REFRESH_PREPARING"
      BY <3>1, <3>3 DEF IInv, Inv, JournalInv
    <3> QED
      BY <1>2, <2>2, <3>1, <3>2, <3>3 DEF SetPlan, Block, Throw, store
  <2>3. CASE ~UNCHANGED status
    <3>1. /\ commit = NoCommit
          /\ status' \in {"AWAITING_REFRESH_AUTHORIZATION", "REFRESH_BLOCKED",
                          "REFRESH_PLAN_STALE"}
      BY <1>2, <2>3 DEF SetPlan, Block, MarkPlanStale, Throw, store, Unlocked
    <3> QED
      BY <2>2, <2>3, <3>1, JournalsOf DEF OutcomeInv, JournalAgrees, NoRefusedStatus
  <2> QED
    BY <2>1, <2>3
<1>3. CASE Authorize
  <2>1. journal \in Phases
    BY DEF IInv, TypeOK
  <2> QED
    BY <1>3, <2>1, JournalsOf
    DEF Authorize, Unlocked, OutcomeInv, JournalAgrees, NoRefusedStatus
<1>4. CASE MarkWriteRequested
  <2>1. CASE Throw("apply")
    BY <2>1, <1>1 DEF Throw, store
  <2>2. CASE ~Throw("apply")
    <3>1. /\ status = "REFRESH_READY_TO_APPLY" /\ UNCHANGED status
          /\ journal' = "WRITE_REQUESTED"
          /\ commit' = [by |-> "apply", status |-> "REFRESH_WRITE_REQUESTED",
                        then |-> "send"]
      BY <1>4, <2>2 DEF MarkWriteRequested
    <3> QED
      BY <3>1, JournalsOf, Mutations
      DEF OutcomeInv, JournalAgrees, NoRefusedStatus, Phases, Unsettled
  <2> QED
    BY <2>1, <2>2
<1>5. CASE Settle
  <2>1. CASE ConfirmWrite("apply")
    BY <2>1, OutcomeMutates, Mutations, JournalsOf
    DEF ConfirmWrite, Commands, Phases, Unsettled
  <2>2. CASE RecordWriteRejected
    BY <2>2, OutcomeMutates, Mutations, JournalsOf
    DEF RecordWriteRejected, Commands, Phases, Unsettled
  <2>3. CASE RecordWriteUnknown
    <3>1. (IF read["apply"] = NoRead THEN "WRITE_OUTCOME_UNKNOWN"
                                     ELSE "RECONCILIATION_REQUIRED")
            \in Phases \ {"ABSENT"}
      BY DEF Phases
    <3> QED
      BY <2>3, <3>1, OutcomeMutates, Mutations, JournalsOf
      DEF RecordWriteUnknown, Commands, Unsettled, Adoptable
  <2> QED
    BY <1>5, <2>1, <2>2, <2>3 DEF Settle
<1>6. CASE Adopt
  <2>1. CASE Continue("reconcile", "lease")
    BY <2>1, <1>1 DEF Continue, store
  <2>2. CASE MutateJournal("reconcile", Adoptable, "REFRESH_RECONCILIATION_REQUIRED",
                           "WRITE_OUTCOME_UNKNOWN", "lease")
    BY <2>2, OutcomeMutates, Mutations, JournalsOf DEF Commands, Phases, Unsettled
  <2> QED
    BY <1>6, <2>1, <2>2 DEF Adopt
<1>7. CASE Decide
  <2>1. CASE ConfirmWrite("reconcile")
    BY <2>1, OutcomeMutates, Mutations, JournalsOf
    DEF ConfirmWrite, Commands, Phases, Unsettled
  <2>2. CASE MarkBaselineStillPresent
    BY <2>2, OutcomeMutates, Mutations, JournalsOf
    DEF MarkBaselineStillPresent, Commands, Phases, Unsettled
  <2>3. CASE MarkTargetDrifted
    BY <2>3, OutcomeMutates, Mutations, JournalsOf
    DEF MarkTargetDrifted, Commands, Phases, Unsettled
  <2> QED
    BY <1>7, <2>1, <2>2, <2>3 DEF Decide
<1>8. CASE Commit
  BY <1>8 DEF Commit, End, OutcomeInv, JournalAgrees, NoRefusedStatus
<1>9. CASE \E c \in Commands : Kill(c)
  BY <1>9 DEF Kill, End, OutcomeInv, JournalAgrees, NoRefusedStatus
<1>10. CASE PrepareRead \/ PrepareRecheck
  BY <1>10, <1>1 DEF PrepareRead, PrepareRecheck, Continue, store
<1>11. CASE LeaseForApply \/ LeaseForReconcile \/ LeaseForFinalize
  BY <1>11, <1>1
  DEF LeaseForApply, LeaseForReconcile, LeaseForFinalize, Lease, Throw, store
<1>12. CASE \/ CheckPermission \/ ReadBaseline \/ JudgeBaseline \/ SaveWork \/ Answer
            \/ ReadBack \/ Observe
  BY <1>12, <1>1
  DEF CheckPermission, ReadBaseline, JudgeBaseline, SaveWork, Answer, ReadBack, Observe,
      Continue, Throw, store
<1>13. CASE \E c \in Commands : FinalizeConfirmed(c)
  BY <1>13, <1>1 DEF FinalizeConfirmed, Throw, store
<1>14. CASE StartApply \/ StartReconcile \/ StartFinalize
  BY <1>14, <1>1 DEF StartApply, StartReconcile, StartFinalize, Continue, store
<1>15. CASE Platform \/ Others \/ Expire
  BY <1>15, <1>1
  DEF Platform, Land, Misland, Others, WorkflowWrite, EditTarget, EditSource,
      ReviewsChange, Expire, store
<1>16. CASE UNCHANGED vars
  BY <1>16, <1>1 DEF vars
<1> QED
  BY <1>2, <1>3, <1>4, <1>5, <1>6, <1>7, <1>8, <1>9, <1>10, <1>11, <1>12, <1>13, <1>14,
     <1>15, <1>16
  DEF Next, CommandStep, Prepare, Apply, Reconcile, Finalize, Start, Commands

LEMMA InitOutcome == Init => OutcomeInv
  BY JournalsOf DEF Init, OutcomeInv, JournalAgrees, NoRefusedStatus

LEMMA OutcomeInvariant == Spec => []OutcomeInv
  BY InitOutcome, OutcomeStep, IInvariant, PTL DEF Spec

(* Once the journal is written, state.json is never refused the status that  *)
(* goes with it: no kill and no other command closes the Refresh in between. *)
THEOREM StatusFollows == Spec => []NoRefusedStatus
<1>1. OutcomeInv => NoRefusedStatus
  BY DEF OutcomeInv
<1> QED
  BY <1>1, OutcomeInvariant, PTL

(* state.json and the journal tell the same outcome, wherever a mutation was *)
(* cut between their two writes.                                             *)
THEOREM JournalsAgree == Spec => []JournalAgrees
<1>1. OutcomeInv => JournalAgrees
  BY DEF OutcomeInv
<1> QED
  BY <1>1, OutcomeInvariant, PTL

-----------------------------------------------------------------------------
(* A candidate that was seen at a revision was written there.                *)
CandidateInv ==
  /\ target.content = "candidate" => target.workId \in history.candidates
  /\ \A c \in Commands : read[c] # NoRead /\ read[c].content = "candidate"
                           => read[c].workId \in history.candidates
  /\ commit # NoCommit /\ commit.status = "TARGET_REFRESHED"
       => IsConfirmedCandidate(read[commit.by])
  /\ ConfirmedMeansCandidate

(* Nothing but what was read changes, and the reads are of the platform.     *)
LEMMA CandidateFrame ==
  ASSUME IInv, CandidateInv,
         UNCHANGED <<status, plan, result, commit, target>>,
         history'.candidates = history.candidates,
         \A c \in Commands : read'[c] \in {read[c], NoRead, Observed},
         commit # NoCommit => read'[commit.by] = read[commit.by]
  PROVE  CandidateInv'
<1>1. Observed.content = target.content /\ Observed.workId = target.workId
  BY DEF Observed
<1>2. \A c \in Commands : read'[c] # NoRead /\ read'[c].content = "candidate"
                            => read'[c].workId \in history.candidates
  BY <1>1 DEF CandidateInv
<1>3. ConfirmedMeansCandidate'
  BY DEF CandidateInv, ConfirmedMeansCandidate
<1>4. commit # NoCommit /\ commit.status = "TARGET_REFRESHED"
        => IsConfirmedCandidate(read[commit.by])'
  BY DEF CandidateInv, IsConfirmedCandidate, ConfigurationMatches
<1> QED
  BY <1>2, <1>3, <1>4 DEF CandidateInv

(* A command that is not between the two writes of a mutation.               *)
LEMMA NotCommitting ==
  ASSUME IInv, NEW c \in Commands, pc[c] # "commit", commit # NoCommit
  PROVE  commit.by # c /\ commit.by \in Commands
  BY DEF IInv, Inv, CommitInv, Commands

LEMMA CandidateThrow ==
  ASSUME IInv, CandidateInv, NEW c \in Commands, pc[c] # "commit", Throw(c),
         UNCHANGED <<target, history>>
  PROVE  CandidateInv'
<1>1. /\ \A d \in Commands : read'[d] \in {read[d], NoRead}
      /\ \A d \in Commands : d # c => read'[d] = read[d]
      /\ UNCHANGED <<status, plan, result, commit>>
  BY DEF Throw, End, store, IInv, TypeOK
<1> QED
  BY <1>1, CandidateFrame, NotCommitting

LEMMA CandidateMutates ==
  ASSUME IInv, CandidateInv, NEW c \in Commands, pc[c] # "commit",
         NEW from, NEW to, NEW phase, NEW then,
         to = "TARGET_REFRESHED" => IsConfirmedCandidate(read[c]),
         MutateJournal(c, from, to, phase, then), UNCHANGED <<target, history>>
  PROVE  CandidateInv'
<1>1. CASE Throw(c)
  BY <1>1, CandidateThrow
<1>2. CASE ~Throw(c)
  <2>1. /\ commit' = [by |-> c, status |-> to, then |-> then]
        /\ UNCHANGED <<status, plan, result, read>>
    BY <1>2 DEF MutateJournal
  <2>2. ConfirmedMeansCandidate'
    BY <2>1 DEF CandidateInv, ConfirmedMeansCandidate
  <2>3. to = "TARGET_REFRESHED" => IsConfirmedCandidate(read[c])'
    BY <2>1 DEF IsConfirmedCandidate, ConfigurationMatches
  <2> QED
    BY <2>1, <2>2, <2>3 DEF CandidateInv
<1> QED
  BY <1>1, <1>2

LEMMA CandidateWrites ==
  ASSUME IInv, CandidateInv, NEW content \in Contents, WriteTarget(content),
         UNCHANGED <<status, plan, result, commit, read>>
  PROVE  CandidateInv'
<1>1. target \in Target /\ history \in Histories /\ target.workId + 1 \in Nat
  BY DEF IInv, TypeOK, Histories, Target
<1>2. target'.content = content /\ target'.workId = target.workId + 1
  BY <1>1 DEF WriteTarget, NextRevision, Target
<1>3. history'.candidates = IF content = "candidate"
                              THEN history.candidates \cup {target.workId + 1}
                              ELSE history.candidates
  BY <1>1 DEF WriteTarget, Histories
<1>4. ConfirmedMeansCandidate'
  BY <1>3 DEF CandidateInv, ConfirmedMeansCandidate
<1>5. commit # NoCommit /\ commit.status = "TARGET_REFRESHED"
        => IsConfirmedCandidate(read[commit.by])'
  BY DEF CandidateInv, IsConfirmedCandidate, ConfigurationMatches
<1> QED
  BY <1>2, <1>3, <1>4, <1>5 DEF CandidateInv

LEMMA CandidateStep == IInv /\ CandidateInv /\ [Next]_vars => CandidateInv'
<1> SUFFICES ASSUME IInv, CandidateInv, [Next]_vars PROVE CandidateInv'
  OBVIOUS
<1> DEFINE Still == UNCHANGED <<status, plan, result, commit, target>>
<1>0. history \in Histories /\ read \in [Commands -> Observation \cup {NoRead}]
  BY DEF IInv, TypeOK, Histories
<1>1. CASE Still /\ UNCHANGED <<read, history>>
  BY <1>1, CandidateFrame
<1>2. CASE SetPlan \/ Block \/ MarkPlanStale
  <2>1. \E c \in {"prepare", "apply"} :
          pc[c] # "commit" /\ (UNCHANGED status => Throw(c)) /\ End(c)
    <3>1. CASE SetPlan
      BY <1>2, <3>1 DEF SetPlan, Throw
    <3>2. CASE Block
      BY <1>2, <3>2 DEF Block, Throw
    <3>3. CASE MarkPlanStale
      <4>1. status # "REFRESH_PLAN_STALE" \/ Throw("apply")
        BY <3>3 DEF MarkPlanStale, Allowed, Terminal
      <4> QED
        BY <3>3, <4>1 DEF MarkPlanStale, Throw
    <3> QED
      BY <1>2, <3>1, <3>2, <3>3
  <2>2. UNCHANGED <<target, history>>
    BY <1>2 DEF SetPlan, Block, MarkPlanStale, Quiet, platform
  <2>3. PICK c \in {"prepare", "apply"} :
          pc[c] # "commit" /\ (UNCHANGED status => Throw(c)) /\ End(c)
    BY <2>1
  <2>4. CASE Throw(c)
    BY <2>3, <2>2, <2>4, CandidateThrow DEF Commands
  <2>5. CASE ~Throw(c)
    <3>1. status' # "TARGET_REFRESHED" /\ commit = NoCommit /\ commit' = commit
      BY <1>2, <2>3, <2>5 DEF SetPlan, Block, MarkPlanStale, Throw, Unlocked, End, Goto, store
    <3>2. \A d \in Commands : read'[d] \in {read[d], NoRead}
      BY <1>0, <2>3 DEF End
    <3> QED
      BY <2>2, <3>1, <3>2 DEF CandidateInv, ConfirmedMeansCandidate
  <2> QED
    BY <2>4, <2>5
<1>3. CASE Authorize
  BY <1>3
  DEF Authorize, Unlocked, Quiet, platform, CandidateInv, ConfirmedMeansCandidate
<1>4. CASE MarkWriteRequested
  <2>1. pc["apply"] # "commit" /\ UNCHANGED <<target, history>>
    BY <1>4 DEF MarkWriteRequested, Quiet, platform
  <2>2. CASE Throw("apply")
    BY <2>1, <2>2, CandidateThrow DEF Commands
  <2>3. CASE ~Throw("apply")
    <3>1. /\ commit' = [by |-> "apply", status |-> "REFRESH_WRITE_REQUESTED",
                        then |-> "send"]
          /\ UNCHANGED <<status, plan, result, read>>
      BY <1>4, <2>3 DEF MarkWriteRequested
    <3> QED
      BY <2>1, <3>1 DEF CandidateInv, ConfirmedMeansCandidate
  <2> QED
    BY <2>2, <2>3
<1>5. CASE Settle
  <2>1. pc["apply"] # "commit" /\ UNCHANGED <<target, history>>
    BY <1>5 DEF Settle, Quiet, platform
  <2>2. CASE ShowsCandidate(read["apply"]) /\ ConfirmWrite("apply")
    BY <2>1, <2>2, CandidateMutates DEF ConfirmWrite, ShowsCandidate, Commands
  <2>3. CASE RecordWriteRejected \/ RecordWriteUnknown
    BY <2>1, <2>3, CandidateMutates DEF RecordWriteRejected, RecordWriteUnknown, Commands
  <2> QED
    BY <1>5, <2>2, <2>3 DEF Settle
<1>6. CASE Adopt
  <2>1. pc["reconcile"] # "commit" /\ UNCHANGED <<target, history>>
    BY <1>6 DEF Adopt, Quiet, platform
  <2>2. CASE Continue("reconcile", "lease") /\ UNCHANGED read
    BY <2>1, <2>2, <1>1 DEF Continue, store
  <2>3. CASE MutateJournal("reconcile", Adoptable, "REFRESH_RECONCILIATION_REQUIRED",
                           "WRITE_OUTCOME_UNKNOWN", "lease")
    BY <2>1, <2>3, CandidateMutates DEF Commands
  <2> QED
    BY <1>6, <2>2, <2>3 DEF Adopt
<1>7. CASE Decide
  <2>1. pc["reconcile"] # "commit" /\ UNCHANGED <<target, history>>
    BY <1>7 DEF Decide, Quiet, platform
  <2>2. CASE IsConfirmedCandidate(read["reconcile"]) /\ ConfirmWrite("reconcile")
    BY <2>1, <2>2, CandidateMutates DEF ConfirmWrite, Commands
  <2>3. CASE MarkBaselineStillPresent \/ MarkTargetDrifted
    BY <2>1, <2>3, CandidateMutates
    DEF MarkBaselineStillPresent, MarkTargetDrifted, Commands
  <2> QED
    BY <1>7, <2>2, <2>3 DEF Decide
<1>8. CASE Commit
  <2>1. /\ commit # NoCommit /\ commit' = NoCommit
        /\ UNCHANGED <<plan, target, history>>
        /\ commit.by \in Commands
    BY <1>8 DEF Commit, Quiet, platform, IInv, Inv, CommitInv, Commands
  <2>2. \A c \in Commands : read'[c] \in {read[c], NoRead}
    BY <1>8, <1>0 DEF Commit, End
  <2>3. CASE UNCHANGED <<status, result>>
    BY <2>1, <2>2, <2>3 DEF CandidateInv, ConfirmedMeansCandidate
  <2>4. CASE status' = commit.status /\ commit.status # "TARGET_REFRESHED"
    BY <2>1, <2>2, <2>4 DEF CandidateInv, ConfirmedMeansCandidate
  <2>5. CASE status' = commit.status /\ commit.status = "TARGET_REFRESHED"
             /\ Allowed(status, commit.status)
    <3>1. /\ IsConfirmedCandidate(read[commit.by])
          /\ read[commit.by] \in Observation
      BY <2>1, <2>5 DEF CandidateInv, IInv, Inv, CommitInv
    <3>2. read[commit.by] # NoRead => read[commit.by].workId \in history.candidates
      BY <2>1, <3>1 DEF CandidateInv, IsConfirmedCandidate
    <3>3. result' = [result EXCEPT !.workId = read[commit.by].workId]
      BY <1>8, <2>5 DEF Commit, Confirms
    <3>4. result'.workId = read[commit.by].workId
      BY <3>3 DEF IInv, TypeOK
    <3>5. read[commit.by] # NoRead
      BY <3>1, ReadAssumption
    <3> QED
      BY <2>1, <2>2, <3>1, <3>2, <3>4, <3>5
      DEF CandidateInv, ConfirmedMeansCandidate, IsConfirmedCandidate
  <2> QED
    BY <1>8, <2>3, <2>4, <2>5 DEF Commit
<1>9. CASE \E c \in Commands : Kill(c)
  <2>1. PICK c \in Commands : Kill(c)
    BY <1>9
  <2>2. /\ \A d \in Commands : read'[d] \in {read[d], NoRead}
        /\ \A d \in Commands : d # c => read'[d] = read[d]
        /\ UNCHANGED <<status, plan, result, target, history>>
    BY <1>0, <2>1 DEF Kill, End, platform
  <2>3. CASE pc[c] = "commit"
    BY <2>1, <2>2, <2>3 DEF Kill, CandidateInv, ConfirmedMeansCandidate
  <2>4. CASE pc[c] # "commit"
    BY <2>1, <2>2, <2>4, CandidateFrame, NotCommitting DEF Kill
  <2> QED
    BY <2>3, <2>4
<1>10. CASE PrepareRead \/ ReadBaseline \/ ReadBack \/ Observe
  <2>1. PICK c \in {"prepare", "apply", "reconcile"} :
          /\ pc[c] # "commit"
          /\ \/ read' = [read EXCEPT ![c] = Observed]
             \/ read' = [read EXCEPT ![c] = NoRead]
             \/ read' = read
    BY <1>10 DEF PrepareRead, ReadBaseline, ReadBack, Observe, ReadPlatform, Throw, End
  <2>2. Still
    BY <1>10
    DEF PrepareRead, ReadBaseline, ReadBack, Observe, Continue, Throw, store, platform
  <2>3. history'.candidates = history.candidates
    <3>1. CountBaseline => history'.candidates = history.candidates
      BY <1>0 DEF CountBaseline, Histories
    <3> QED
      BY <1>0, <1>10, <3>1 DEF PrepareRead, ReadBaseline, ReadBack, Observe, Histories
  <2>4. \A d \in Commands : read'[d] \in {read[d], NoRead, Observed}
    BY <1>0, <2>1
  <2>5. \A d \in Commands : d # c => read'[d] = read[d]
    BY <1>0, <2>1
  <2> QED
    BY <2>1, <2>2, <2>3, <2>4, <2>5, CandidateFrame, NotCommitting DEF Commands
<1>11. CASE SaveWork
  <2>1. history'.candidates = history.candidates
    BY <1>0, <1>11 DEF SaveWork, Histories
  <2> QED
    BY <1>11, <2>1, CandidateFrame DEF SaveWork, Continue, store
<1>12. CASE PrepareRecheck \/ CheckPermission \/ JudgeBaseline \/ Answer
  <2>1. CASE JudgeBaseline /\ Throw("apply")
    BY <2>1, CandidateThrow DEF JudgeBaseline, platform, Quiet, Commands
  <2>2. CASE JudgeBaseline /\ UNCHANGED read
    BY <2>2, <1>1 DEF JudgeBaseline, Continue, Throw, store, platform, Quiet
  <2> QED
    BY <1>12, <1>1, <2>1, <2>2
    DEF PrepareRecheck, CheckPermission, JudgeBaseline, Answer, Continue, store, platform,
        Quiet
<1>13. CASE \E c \in Commands : \E then \in Steps : Lease(c, then)
  <2>1. PICK c \in Commands : \E then \in Steps : Lease(c, then)
    BY <1>13
  <2>2. pc[c] # "commit" /\ UNCHANGED <<target, history>>
    BY <2>1 DEF Lease, platform
  <2>3. CASE Throw(c)
    BY <2>2, <2>3, CandidateThrow
  <2>4. CASE UNCHANGED <<store, read>>
    BY <2>2, <2>4, <1>1 DEF store
  <2> QED
    BY <2>1, <2>3, <2>4 DEF Lease
<1>14. CASE \E c \in Commands : FinalizeConfirmed(c)
  <2>1. PICK c \in Commands : FinalizeConfirmed(c)
    BY <1>14
  <2>2. pc[c] # "commit" /\ UNCHANGED <<target, history>>
    BY <2>1 DEF FinalizeConfirmed, platform
  <2>3. CASE Throw(c)
    BY <2>2, <2>3, CandidateThrow
  <2>4. CASE ~Throw(c)
    <3>1. /\ result' = [result EXCEPT !.succession = TRUE]
          /\ End(c)
          /\ UNCHANGED <<status, plan, commit>>
      BY <2>1, <2>4 DEF FinalizeConfirmed
    <3>2. result'.workId = result.workId /\ commit = NoCommit
      BY <2>1, <2>4, <3>1 DEF IInv, TypeOK, FinalizeConfirmed, Unlocked
    <3>3. \A d \in Commands : read'[d] \in {read[d], NoRead}
      BY <1>0, <3>1 DEF End
    <3> QED
      BY <2>2, <3>1, <3>2, <3>3 DEF CandidateInv, ConfirmedMeansCandidate
  <2> QED
    BY <2>3, <2>4
<1>15. CASE StartApply \/ StartReconcile \/ StartFinalize
  BY <1>15, <1>1
  DEF StartApply, StartReconcile, StartFinalize, Continue, store, platform, Quiet
<1>16. CASE Platform \/ WorkflowWrite
  <2>1. CASE \E content \in Contents : WriteTarget(content)
    BY <1>16, <2>1, CandidateWrites DEF Platform, Land, Misland, WorkflowWrite, store
  <2>2. CASE UNCHANGED <<target, history>>
    BY <1>16, <2>2, <1>1 DEF Platform, Land, Misland, WorkflowWrite, store
  <2> QED
    BY <1>16, <2>1, <2>2 DEF Platform, Land, Misland, WorkflowWrite, Contents
<1>17. CASE EditTarget
  <2>1. target \in Target
    BY DEF IInv, TypeOK
  <2>2. target'.content = "candidate"
          => target.content = "candidate" /\ target'.workId = target.workId
    BY <1>17, <2>1 DEF EditTarget, NextRevision, Target
  <2>3. history'.candidates = history.candidates
    BY <1>0, <1>17 DEF EditTarget, Histories
  <2>4. UNCHANGED <<status, plan, result, commit, read>>
    BY <1>17 DEF EditTarget, store
  <2>5. ConfirmedMeansCandidate'
    BY <2>3, <2>4 DEF CandidateInv, ConfirmedMeansCandidate
  <2>6. commit # NoCommit /\ commit.status = "TARGET_REFRESHED"
          => IsConfirmedCandidate(read[commit.by])'
    BY <2>4 DEF CandidateInv, IsConfirmedCandidate, ConfigurationMatches
  <2> QED
    BY <2>2, <2>3, <2>4, <2>5, <2>6 DEF CandidateInv
<1>18. CASE EditSource \/ ReviewsChange \/ Expire \/ UNCHANGED vars
  BY <1>18, <1>1 DEF EditSource, ReviewsChange, Expire, vars, store, platform
<1>19. Lease("apply", "permission") \/ Lease("reconcile", "observe")
         \/ Lease("finalize", "finalize") => \E c \in Commands : \E then \in Steps : Lease(c, then)
  BY DEF Commands, Steps
<1> QED
  BY <1>2, <1>3, <1>4, <1>5, <1>6, <1>7, <1>8, <1>9, <1>10, <1>11, <1>12, <1>13, <1>14,
     <1>15, <1>16, <1>17, <1>18, <1>19
  DEF Next, CommandStep, Prepare, Apply, Reconcile, Finalize, Start, Others, Commands,
      LeaseForApply, LeaseForReconcile, LeaseForFinalize

LEMMA InitCandidate == Init => CandidateInv
<1> SUFFICES ASSUME Init PROVE CandidateInv
  OBVIOUS
<1>1. target.content = "candidate" => target.workId \in history.candidates
  BY DEF Init
<1> QED
  BY <1>1 DEF Init, CandidateInv, ConfirmedMeansCandidate

(* A confirmed Refresh names a revision at which the target did hold the     *)
(* candidate, and that is not the baseline's.                                *)
THEOREM ConfirmationsAreTrue == Spec => []ConfirmedMeansCandidate
<1>1. Spec => []CandidateInv
  BY InitCandidate, CandidateStep, IInvariant, PTL DEF Spec
<1>2. CandidateInv => ConfirmedMeansCandidate
  BY DEF CandidateInv
<1> QED
  BY <1>1, <1>2, PTL

-----------------------------------------------------------------------------
(* What apply compared with the plan is still there when the request leaves. *)
Judging == pc["apply"] = "judge"
BaselineInv ==
  /\ status = "REFRESH_PREPARING" => pc["apply"] = "idle" /\ commit = NoCommit
  /\ history.sends = 0 => wire = "idle"
  /\ Judging /\ ~history.touched =>
       /\ read["apply"].workId = target.workId
       /\ read["apply"].content = target.content
       /\ read["apply"].config = target.config
  /\ LeaseKeepsBaseline

LEMMA TargetRecord ==
  ASSUME IInv, NEW w, NEW c, NEW g
  PROVE  target = [workId |-> w, content |-> c, config |-> g]
           <=> target.workId = w /\ target.content = c /\ target.config = g
  BY DEF IInv, TypeOK, Target

(* Who judges or is about to write holds the lease, and nothing was sent.    *)
LEMMA Writing ==
  ASSUME IInv, BaselineInv, Judging \/ AboutToWrite
  PROVE  lease = "apply" /\ wire = "idle" /\ status # "REFRESH_PREPARING"
<1>1. CASE pc["apply"] \in {"judge", "request"}
  BY <1>1
  DEF IInv, Inv, JournalInv, LeaseInv, BeforeRequest, LeasedByApply, BaselineInv
<1>2. CASE pc["apply"] = "send"
  BY <1>2 DEF IInv, Inv, SendInv, LeaseInv, LeasedByApply, BaselineInv
<1>3. CASE commit # NoCommit /\ commit.then = "send"
  BY <1>3 DEF IInv, Inv, CommitInv, BaselineInv
<1> QED
  BY <1>1, <1>2, <1>3 DEF Judging, AboutToWrite

(* The target stays, and apply comes no nearer to its request.               *)
LEMMA BaselineFrame ==
  ASSUME IInv, BaselineInv,
         UNCHANGED <<wire, target>>,
         history'.sends = history.sends, history'.touched = history.touched,
         status' = "REFRESH_PREPARING" =>
           /\ status = "REFRESH_PREPARING"
           /\ pc'["apply"] = "idle" /\ commit' = NoCommit,
         (Judging \/ AboutToWrite) /\ (Judging \/ AboutToWrite)' => plan' = plan,
         Judging' => Judging /\ read'["apply"] = read["apply"],
         AboutToWrite' => AboutToWrite
  PROVE  BaselineInv'
<1>1. CASE AboutToWrite'
  BY <1>1 DEF BaselineInv, LeaseKeepsBaseline, Judging
<1>2. CASE ~AboutToWrite'
  BY <1>2 DEF BaselineInv, LeaseKeepsBaseline, Judging
<1> QED
  BY <1>1, <1>2

(* A step of another command than apply, or of another user.                 *)
LEMMA BaselineElsewhere ==
  ASSUME IInv, BaselineInv, UNCHANGED <<wire, target>>,
         history'.sends = history.sends, history'.touched = history.touched,
         pc'["apply"] = pc["apply"], read'["apply"] = read["apply"],
         status' = "REFRESH_PREPARING" =>
           status = "REFRESH_PREPARING" /\ commit' = NoCommit,
         status # "REFRESH_PREPARING" => plan' = plan,
         commit' # NoCommit /\ commit'.then = "send" => commit' = commit
  PROVE  BaselineInv'
<1>1. AboutToWrite' => AboutToWrite
  BY DEF AboutToWrite
<1>2. Judging' => Judging /\ read'["apply"] = read["apply"]
  BY DEF Judging
<1>3. Judging \/ AboutToWrite => plan' = plan
  BY Writing
<1> QED
  BY <1>1, <1>2, <1>3, BaselineFrame DEF BaselineInv

(* apply ends, or goes on to a step from which it does not write.            *)
LEMMA BaselineLeaves ==
  ASSUME IInv, BaselineInv, UNCHANGED <<plan, wire, target>>,
         history'.sends = history.sends, history'.touched = history.touched,
         NEW step \in Steps \ {"judge", "request", "send"}, Goto("apply", step),
         step = "idle" \/ status # "REFRESH_PREPARING",
         status' = "REFRESH_PREPARING" => status = "REFRESH_PREPARING",
         commit' # NoCommit => commit' = commit \/ commit'.then # "send",
         commit' # NoCommit => status' # "REFRESH_PREPARING"
  PROVE  BaselineInv'
<1>1. pc'["apply"] = step
  BY DEF Goto, IInv, TypeOK, Commands
<1>2. AboutToWrite' => AboutToWrite
  BY <1>1 DEF AboutToWrite
<1>3. ~Judging'
  BY <1>1 DEF Judging
<1> QED
  BY <1>1, <1>2, <1>3, BaselineFrame

LEMMA CountLeaves ==
  ASSUME IInv, CountBaseline
  PROVE  history'.sends = history.sends /\ history'.touched = history.touched
  BY DEF CountBaseline, IInv, TypeOK

LEMMA BaselineMutates ==
  ASSUME IInv, BaselineInv, NEW from, "REFRESH_PREPARING" \notin from,
         NEW to, NEW phase, NEW then \in Steps \ {"send"},
         NEW c \in {"apply", "reconcile"}, pc[c] # "commit", pc[c] # "idle",
         MutateJournal(c, from, to, phase, then), UNCHANGED <<wire, target, history>>
  PROVE  BaselineInv'
<1>1. /\ UNCHANGED <<status, plan>>
      /\ commit' # NoCommit =>
           commit' = commit \/ (commit'.then # "send" /\ status # "REFRESH_PREPARING")
  BY DEF MutateJournal, Throw, store
<1>2. CASE c = "apply"
  <2>1. \E step \in {"idle", "commit"} : Goto(c, step)
    BY DEF MutateJournal, Throw, End
  <2>2. status # "REFRESH_PREPARING"
    BY <1>2 DEF BaselineInv
  <2>3. PICK step \in {"idle", "commit"} : Goto("apply", step)
    BY <1>2, <2>1
  <2>4. step \in Steps \ {"judge", "request", "send"}
    BY DEF Steps
  <2> QED
    BY <1>1, <2>2, <2>3, <2>4, BaselineLeaves
<1>3. CASE c = "reconcile"
  <2>1. pc'["apply"] = pc["apply"] /\ read'["apply"] = read["apply"]
    BY <1>3 DEF MutateJournal, Throw, End, Goto, IInv, TypeOK, Commands
  <2>2. status' = "REFRESH_PREPARING" => commit' = NoCommit
    BY <1>1 DEF BaselineInv
  <2> QED
    BY <1>1, <2>1, <2>2, BaselineElsewhere
<1> QED
  BY <1>2, <1>3

LEMMA BaselinePrepare == IInv /\ BaselineInv /\ Prepare => BaselineInv'
<1> SUFFICES ASSUME IInv, BaselineInv, Prepare PROVE BaselineInv'
  OBVIOUS
<1>1. /\ pc'["apply"] = pc["apply"] /\ read'["apply"] = read["apply"]
      /\ UNCHANGED <<wire, target, history, commit>>
  BY DEF Prepare, PrepareRead, PrepareRecheck, SetPlan, Block, Continue, Throw, End, Goto,
         ReadPlatform, store, platform, Quiet, IInv, TypeOK, Commands
<1>2. status' = "REFRESH_PREPARING" => status = "REFRESH_PREPARING"
  BY DEF Prepare, PrepareRead, PrepareRecheck, SetPlan, Block, Continue, Throw, store
<1>3. status # "REFRESH_PREPARING" => plan' = plan
  BY DEF Prepare, PrepareRead, PrepareRecheck, SetPlan, Block, Continue, Throw, store
<1> QED
  BY <1>1, <1>2, <1>3, BaselineElsewhere DEF BaselineInv

LEMMA BaselineApply == IInv /\ BaselineInv /\ Apply => BaselineInv'
<1> SUFFICES ASSUME IInv, BaselineInv, Apply PROVE BaselineInv'
  OBVIOUS
<1> DEFINE Outside == UNCHANGED <<plan, wire, target>>
                      /\ history'.sends = history.sends
                      /\ history'.touched = history.touched
           Ahead == \E step \in Steps \ {"judge", "request", "send"} : Goto("apply", step)
<1>0. history \in Histories
  BY DEF IInv, TypeOK, Histories
<1>1. CASE Ahead /\ Outside /\ UNCHANGED commit /\ pc["apply"] # "idle"
           /\ (status' = "REFRESH_PREPARING" => status = "REFRESH_PREPARING")
  <2>1. status # "REFRESH_PREPARING"
    BY <1>1 DEF BaselineInv
  <2> QED
    BY <1>1, <2>1, BaselineLeaves
<1>2. CASE \/ LeaseForApply \/ CheckPermission \/ MarkPlanStale \/ Answer
           \/ FinalizeConfirmed("apply")
  <2>1. Ahead /\ pc["apply"] # "idle"
    BY <1>2
    DEF LeaseForApply, Lease, CheckPermission, MarkPlanStale, Answer, FinalizeConfirmed,
        Continue, Throw, End, Steps
  <2>2. Outside /\ UNCHANGED commit
        /\ (status' = "REFRESH_PREPARING" => status = "REFRESH_PREPARING")
    BY <1>2
    DEF LeaseForApply, Lease, CheckPermission, MarkPlanStale, Answer, FinalizeConfirmed,
        Continue, Throw, store, platform, Quiet
  <2> QED
    BY <2>1, <2>2, <1>1
<1>3. CASE ReadBack
  <2>1. Settling(pc["apply"]) \in Steps \ {"judge", "request", "send"}
    BY <1>3 DEF ReadBack, Settling, Steps
  <2>2. Ahead /\ pc["apply"] # "idle" /\ UNCHANGED <<store, wire, target>>
    BY <1>3, <2>1 DEF ReadBack, Continue, platform
  <2>3. history'.sends = history.sends /\ history'.touched = history.touched
    BY <1>3, CountLeaves DEF ReadBack
  <2> QED
    BY <2>2, <2>3, <1>1 DEF store
<1>4. CASE Settle
  <2>1. pc["apply"] \notin {"commit", "idle"} /\ UNCHANGED <<wire, target, history>>
    BY <1>4 DEF Settle, Quiet, platform
  <2> QED
    BY <1>4, <2>1, BaselineMutates
    DEF Settle, ConfirmWrite, RecordWriteRejected, RecordWriteUnknown, Steps
<1>5. CASE ReadBaseline
  <2>1. /\ pc["apply"] = "check" /\ pc'["apply"] = "judge"
        /\ read'["apply"] = Observed
        /\ UNCHANGED <<store, wire, target>>
    BY <1>5
    DEF ReadBaseline, ReadPlatform, Continue, Goto, platform, IInv, TypeOK, Commands
  <2>2. ~AboutToWrite'
    <3>1. ~(commit # NoCommit /\ commit.then = "send")
      BY <2>1 DEF IInv, Inv, CommitInv
    <3> QED
      BY <2>1, <3>1 DEF AboutToWrite, store
  <2>3. history'.sends = history.sends
    BY <1>0, <1>5 DEF ReadBaseline, Histories
  <2> QED
    BY <2>1, <2>2, <2>3 DEF BaselineInv, LeaseKeepsBaseline, Observed, store
<1>6. CASE JudgeBaseline
  <2>1. /\ Judging
        /\ pc'["apply"] \in {"request", "stale", "idle"}
        /\ pc'["apply"] = "request" => PlanIsCurrent
        /\ UNCHANGED <<store, wire, target, history>>
    BY <1>6
    DEF JudgeBaseline, Judging, Continue, Throw, End, Goto, platform, Quiet, IInv, TypeOK,
        Commands
  <2>2. status # "REFRESH_PREPARING" /\ ~(commit # NoCommit /\ commit.then = "send")
    BY <2>1 DEF BaselineInv, Judging, IInv, Inv, CommitInv
  <2>3. ~Judging'
    BY <2>1 DEF Judging
  <2>4. LeaseKeepsBaseline'
    <3>1. CASE PlanIsCurrent /\ ~history.touched
      <4>1. target = [workId |-> plan.workId, content |-> plan.content,
                      config |-> plan.config]
        BY <2>1, <3>1, TargetRecord
        DEF BaselineInv, PlanIsCurrent, IsExactBaseline, ConfigurationMatches
      <4> QED
        BY <2>1, <4>1 DEF LeaseKeepsBaseline, store
    <3>2. CASE ~PlanIsCurrent
      BY <2>1, <2>2, <3>2 DEF LeaseKeepsBaseline, AboutToWrite, store
    <3>3. CASE history.touched
      BY <2>1, <3>3 DEF LeaseKeepsBaseline
    <3> QED
      BY <3>1, <3>2, <3>3
  <2> QED
    BY <2>1, <2>2, <2>3, <2>4 DEF BaselineInv, store
<1>7. CASE MarkWriteRequested
  <2>1. pc["apply"] = "request" /\ UNCHANGED <<wire, target, history, plan, status>>
    BY <1>7 DEF MarkWriteRequested, Throw, store, Quiet, platform
  <2>2. CASE Throw("apply")
    BY <2>1, <2>2, <1>1 DEF Throw, End, store, Steps
  <2>3. CASE ~Throw("apply")
    <3>1. pc'["apply"] = "commit" /\ status # "REFRESH_PREPARING"
      BY <1>7, <2>3 DEF MarkWriteRequested, Goto, IInv, TypeOK, Commands
    <3>2. AboutToWrite /\ ~Judging'
      BY <2>1, <3>1 DEF AboutToWrite, Judging
    <3> QED
      BY <2>1, <3>1, <3>2, BaselineFrame
  <2> QED
    BY <2>2, <2>3
<1>8. CASE SaveWork
  <2>1. /\ pc["apply"] = "send" /\ pc'["apply"] = "answer"
        /\ UNCHANGED <<store, target>>
    BY <1>8 DEF SaveWork, Continue, Goto, IInv, TypeOK, Commands
  <2>2. ~(commit # NoCommit /\ commit.then = "send")
    BY <2>1 DEF IInv, Inv, CommitInv
  <2>3. history'.sends # 0
    BY <1>8 DEF SaveWork, IInv, TypeOK
  <2>4. status # "REFRESH_PREPARING"
    BY <2>1 DEF BaselineInv
  <2>5. ~AboutToWrite' /\ ~Judging'
    BY <2>1, <2>2 DEF AboutToWrite, Judging, store
  <2> QED
    BY <2>1, <2>3, <2>4, <2>5 DEF BaselineInv, LeaseKeepsBaseline, Judging, store
<1> QED
  BY <1>2, <1>3, <1>4, <1>5, <1>6, <1>7, <1>8 DEF Apply

LEMMA BaselineReconcile ==
  IInv /\ BaselineInv /\ (Reconcile \/ Finalize) => BaselineInv'
<1> SUFFICES ASSUME IInv, BaselineInv, Reconcile \/ Finalize PROVE BaselineInv'
  OBVIOUS
<1>1. CASE Adopt
  <2>1. pc["reconcile"] \notin {"commit", "idle"} /\ UNCHANGED <<wire, target, history>>
    BY <1>1 DEF Adopt, Quiet, platform
  <2>2. CASE Continue("reconcile", "lease") /\ UNCHANGED read
    BY <2>1, <2>2, BaselineElsewhere
    DEF Continue, Goto, store, BaselineInv, IInv, TypeOK, Commands
  <2>3. CASE MutateJournal("reconcile", Adoptable, "REFRESH_RECONCILIATION_REQUIRED",
                           "WRITE_OUTCOME_UNKNOWN", "lease")
    BY <2>1, <2>3, BaselineMutates DEF Adoptable, Steps
  <2> QED
    BY <1>1, <2>2, <2>3 DEF Adopt
<1>2. CASE Decide
  <2>1. pc["reconcile"] \notin {"commit", "idle"} /\ UNCHANGED <<wire, target, history>>
    BY <1>2 DEF Decide, Quiet, platform
  <2> QED
    BY <1>2, <2>1, BaselineMutates
    DEF Decide, ConfirmWrite, MarkBaselineStillPresent, MarkTargetDrifted, Steps
<1>3. CASE \/ LeaseForReconcile \/ LeaseForFinalize \/ Observe
           \/ FinalizeConfirmed("reconcile") \/ FinalizeConfirmed("finalize")
  <2>1. pc'["apply"] = pc["apply"] /\ read'["apply"] = read["apply"]
    BY <1>3
    DEF LeaseForReconcile, LeaseForFinalize, Lease, Observe, FinalizeConfirmed, Continue,
        Throw, End, Goto, ReadPlatform, IInv, TypeOK, Commands
  <2>2. UNCHANGED <<status, plan, commit, wire, target>>
    BY <1>3
    DEF LeaseForReconcile, LeaseForFinalize, Lease, Observe, FinalizeConfirmed, Continue,
        Throw, store, platform
  <2>3. history'.sends = history.sends /\ history'.touched = history.touched
    BY <1>3, CountLeaves
    DEF LeaseForReconcile, LeaseForFinalize, Lease, Observe, FinalizeConfirmed
  <2> QED
    BY <2>1, <2>2, <2>3, BaselineElsewhere DEF BaselineInv
<1> QED
  BY <1>1, <1>2, <1>3 DEF Reconcile, Finalize

LEMMA BaselineCommit == IInv /\ BaselineInv /\ Commit => BaselineInv'
<1> SUFFICES ASSUME IInv, BaselineInv, Commit PROVE BaselineInv'
  OBVIOUS
<1>1. /\ commit # NoCommit /\ commit' = NoCommit
      /\ commit.by \in {"apply", "reconcile"}
      /\ status # "REFRESH_PREPARING" /\ status' # "REFRESH_PREPARING"
      /\ UNCHANGED <<plan, wire, target, history>>
  <2>1. commit.status \in Outcomes /\ commit.by \in {"apply", "reconcile"}
    BY DEF Commit, IInv, Inv, CommitInv
  <2>2. status' \in {status, commit.status}
    BY DEF Commit
  <2>3. status # "REFRESH_PREPARING"
    BY DEF Commit, BaselineInv
  <2> QED
    BY <2>1, <2>2, <2>3 DEF Commit, Quiet, platform, Outcomes
<1>2. PICK step \in {"idle", commit.then} :
        Goto(commit.by, step) /\ read' \in {read, [read EXCEPT ![commit.by] = NoRead]}
  BY DEF Commit, End
<1>3. CASE commit.by = "reconcile"
  <2>1. pc'["apply"] = pc["apply"] /\ read'["apply"] = read["apply"]
    BY <1>2, <1>3 DEF Goto, IInv, TypeOK, Commands
  <2> QED
    BY <1>1, <2>1, BaselineElsewhere
<1>4. CASE commit.by = "apply"
  <2>1. pc'["apply"] = step
    BY <1>2, <1>4 DEF Goto, IInv, TypeOK, Commands
  <2>2. commit.then \in {"send", "idle", "finalize", "lease"}
    BY <1>1 DEF IInv, Inv, CommitInv
  <2>3. AboutToWrite' => AboutToWrite
    BY <1>1, <2>1, <2>2, <1>2 DEF AboutToWrite
  <2>4. ~Judging'
    BY <2>1, <2>2 DEF Judging
  <2> QED
    BY <1>1, <2>3, <2>4, BaselineFrame
<1> QED
  BY <1>1, <1>3, <1>4

LEMMA BaselineStart == IInv /\ BaselineInv /\ Start => BaselineInv'
<1> SUFFICES ASSUME IInv, BaselineInv, Start PROVE BaselineInv'
  OBVIOUS
<1>1. CASE Authorize \/ StartReconcile \/ StartFinalize
  BY <1>1, BaselineElsewhere
  DEF Authorize, StartReconcile, StartFinalize, Continue, Goto, store, platform, Quiet,
      BaselineInv, IInv, TypeOK, Commands
<1>2. CASE StartApply
  BY <1>2, BaselineLeaves DEF StartApply, Continue, store, platform, Quiet, Steps
<1> QED
  BY <1>1, <1>2 DEF Start

(* The platform writes only what was sent, other workflow writers only       *)
(* without the lease, users of the platform leave a trace.                   *)
LEMMA BaselineOutside ==
  IInv /\ BaselineInv /\ (Platform \/ Others \/ Expire) => BaselineInv'
<1> SUFFICES ASSUME IInv, BaselineInv, Platform \/ Others \/ Expire PROVE BaselineInv'
  OBVIOUS
<1>0. /\ UNCHANGED <<store, pc, read, lease>>
      /\ history'.sends = history.sends
  <2>1. history'.sends = history.sends
    BY WriteType
    DEF Platform, Land, Misland, Others, WorkflowWrite, EditTarget, EditSource,
        ReviewsChange, Expire, Contents, IInv, TypeOK
  <2> QED
    BY <2>1 DEF Platform, Land, Misland, Others, WorkflowWrite, EditTarget, EditSource,
                ReviewsChange, Expire
<1>1. CASE EditSource \/ ReviewsChange \/ Expire
  BY <1>0, <1>1, BaselineElsewhere
  DEF EditSource, ReviewsChange, Expire, platform, store, BaselineInv
<1>2. CASE Platform \/ WorkflowWrite \/ EditTarget
  <2>1. wire = "idle" => wire' = "idle"
    BY <1>2 DEF Platform, Land, Misland, WorkflowWrite, EditTarget
  <2>2. Judging \/ AboutToWrite => history'.touched
    <3>1. Judging \/ AboutToWrite => EditTarget
      BY <1>2, Writing DEF Platform, Land, Misland, WorkflowWrite, LeaseFree
    <3>2. EditTarget => history'.touched
      BY DEF EditTarget, IInv, TypeOK
    <3> QED
      BY <3>1, <3>2
  <2>3. (Judging' <=> Judging) /\ (AboutToWrite' <=> AboutToWrite)
    BY <1>0 DEF Judging, AboutToWrite, store
  <2> QED
    BY <1>0, <2>1, <2>2, <2>3 DEF BaselineInv, LeaseKeepsBaseline, store
<1> QED
  BY <1>1, <1>2 DEF Others

LEMMA BaselineKill ==
  ASSUME IInv, BaselineInv, NEW c \in Commands, Kill(c)
  PROVE  BaselineInv'
<1>1. UNCHANGED <<status, plan, wire, target, history>> /\ commit' \in {commit, NoCommit}
  BY DEF Kill, platform
<1>2. CASE c = "apply"
  BY <1>1, <1>2, BaselineLeaves DEF Kill, End, Steps, BaselineInv
<1>3. CASE c # "apply"
  <2>1. pc'["apply"] = pc["apply"] /\ read'["apply"] = read["apply"]
    BY <1>3 DEF Kill, End, Goto, IInv, TypeOK, Commands
  <2> QED
    BY <1>1, <2>1, BaselineElsewhere DEF BaselineInv
<1> QED
  BY <1>2, <1>3

LEMMA BaselineStep == IInv /\ BaselineInv /\ [Next]_vars => BaselineInv'
<1> SUFFICES ASSUME IInv, BaselineInv, [Next]_vars PROVE BaselineInv'
  OBVIOUS
<1>1. CASE UNCHANGED vars
  BY <1>1, BaselineElsewhere DEF vars, BaselineInv
<1> QED
  BY <1>1, BaselinePrepare, BaselineApply, BaselineReconcile, BaselineCommit,
     BaselineStart, BaselineOutside, BaselineKill
  DEF Next, CommandStep

LEMMA InitBaseline == Init => BaselineInv
  BY DEF Init, BaselineInv, LeaseKeepsBaseline, AboutToWrite, Judging, Commands

(* Unless a user of the platform changed it since it was read, the target    *)
(* still is the authorized baseline when the request leaves.                 *)
THEOREM BaselineKept == Spec => []LeaseKeepsBaseline
<1>1. Spec => []BaselineInv
  BY InitBaseline, BaselineStep, IInvariant, PTL DEF Spec
<1>2. BaselineInv => LeaseKeepsBaseline
  BY DEF BaselineInv
<1> QED
  BY <1>1, <1>2, PTL
=============================================================================

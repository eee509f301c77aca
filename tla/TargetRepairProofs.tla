--------------------------- MODULE TargetRepairProofs ---------------------------
(* Proofs about TargetRepair, for every limit of the budgets and every       *)
(* number of kills, faults and edits.                                        *)
EXTENDS TargetRepair, FiniteSetTheorems, WellFoundedInduction, TLAPS

-----------------------------------------------------------------------------
(* A batch exists once its attempt was counted.                              *)
AttemptInv == \A b \in Batches : b > attempts => InState(b, {"NONE"})

(* What the batch file says of its request.                                  *)
PermitInv ==
  \A b \in Batches :
    /\ sends[b] \in {0, 1}
    /\ sends[b] = 0 <=> wire[b] = "idle"
    /\ InState(b, {"NONE", "LOCAL_VALIDATED"}) => sends[b] = 0
    /\ InState(b, {"WRITE_OUTCOME_UNKNOWN"} \cup Verified) => sends[b] = 1

(* What the writer knows of the request of its batch, and of what it read.   *)
BeforeSend == {"preflight", "reset", "send"}
AfterSend == {"answer", "confirm", "reject", "reconcile"} \cup Outcomes

WriterInv ==
  writer.pc # "idle" =>
    /\ writer.batch \in Batches
    /\ writer.pc \in BeforeSend => sends[writer.batch] = 0
    /\ writer.pc \in AfterSend => sends[writer.batch] = 1
    /\ writer.pc \in {"rejected", "reject"} => wire[writer.batch] = "rejected"
    /\ writer.pc = "uncertain" /\ sends[writer.batch] = 0 => ~BaselineStillPresent
    /\ writer.pc = "confirm" => writer.read # NoRead /\ works[writer.read] = writer.batch

WriteInv == AttemptInv /\ PermitInv /\ WriterInv /\ WriterOwnsBatch

(* Without a kill, a checkpoint beside the first is that of a verified batch;*)
(* so a confirm finds none of its own.                                       *)
VerifiedBatches == {b \in Batches : InState(b, Verified)}

CheckpointInv ==
  /\ works[1] = 0
  /\ spent.kills = 0 => \A work \in checkpoints : work = 1 \/ works[work] \in VerifiedBatches

CountInv == CheckpointInv /\ CheckpointsAreValidated /\ VerifiedIsCounted

(* Without a kill, a retest that runs has its batch.                         *)
RetestInv ==
  spent.kills = 0 /\ review.status = "RUNTIME_RETESTING" => BatchIn("RUNTIME_TESTING") # {}

ReviewInv == RetestsTheCandidate /\ RetestHasBatch /\ RetestInv

IInv == TypeOK /\ WriteInv /\ CountInv /\ ReviewInv

-----------------------------------------------------------------------------
LEMMA BatchesAreNat == Batches \subseteq Nat \ {0} /\ IsFiniteSet(Batches)
<1>1. AttemptLimit + AttemptExtension \in Nat
  BY LimitAssumption
<1>2. IsFiniteSet(1 .. AttemptLimit + AttemptExtension)
  BY <1>1, FS_Interval
<1> QED
  BY <1>1, <1>2 DEF Batches

LEMMA StatusValues ==
  {"REVIEW_OPEN", "RUNTIME_NOT_TESTED", "RUNTIME_TESTING", "MISMATCH_DETECTED", "DIAGNOSING",
   "REPAIR_PROPOSED", "AUTO_REPAIR_STOPPED", "LOCAL_VALIDATING", "READY_TO_UPDATE_TARGET",
   "TARGET_UPDATED", "TARGET_EXTERNALLY_MODIFIED", "RUNTIME_RETESTING",
   "BLOCKED_PLATFORM_RUNTIME", "RUNTIME_PARITY_PASSED"} \cup Native \subseteq Statuses
  BY DEF Statuses, Transitions, Terminal, Native

LEMMA InitIInv == Init => IInv
<1> SUFFICES ASSUME Init PROVE IInv
  OBVIOUS
<1>0. Latest = 1 /\ works[1] = 0 /\ works \in Seq(Contents)
  BY DEF Init, Latest, Contents
<1>1. TypeOK
  <2>1. review \in [status : Statuses, baseline : 1 .. Latest, active : BOOLEAN,
                    diagnosed : BOOLEAN]
    BY <1>0, StatusValues DEF Init
  <2>2. batch \in [Batches -> [state : BatchStates, base : 0 .. Latest, scope : Scopes]]
    BY <1>0 DEF Init, BatchStates, Scopes
  <2>3. /\ wire \in [Batches -> Wires] /\ sends \in [Batches -> Nat]
        /\ cycle \in [pc : {"idle", "driving", "failed"}, file : CycleFiles]
        /\ writer \in [pc : WriterSteps, batch : {0} \cup Batches,
                       read : 1 .. Latest \cup {NoRead}]
    BY DEF Init, Wires, CycleFiles, WriterSteps
  <2>4. spent \in [kills : 0 .. MaxKills, faults : 0 .. MaxFaults, edits : 0 .. MaxEdits]
    BY BoundAssumption DEF Init
  <2>5. attempts \in 0 .. AttemptLimit + AttemptExtension
    BY LimitAssumption DEF Init
  <2>6. revisions \in 0 .. BaseLimit + RevisionExtension + 1
    BY LimitAssumption DEF Init
  <2>7. checkpoints \subseteq 1 .. Latest /\ environment \in 0 .. Latest
    BY <1>0 DEF Init
  <2>8. frozen \in BOOLEAN /\ granted \subseteq Scopes
    BY DEF Init
  <2> QED
    BY <1>0, <2>1, <2>2, <2>3, <2>4, <2>5, <2>6, <2>7, <2>8 DEF TypeOK
<1>2. \A b \in Batches : ~InState(b, Verified) /\ InState(b, {"NONE"})
  BY DEF Init, InState, Verified
<1>3. WriteInv
  BY <1>2 DEF Init, WriteInv, AttemptInv, PermitInv, WriterInv, WriterOwnsBatch, InState,
              Verified
<1>4. CheckpointInv /\ CheckpointsAreValidated
  BY <1>0, <1>2, ValueAssumption DEF Init, CheckpointInv, CheckpointsAreValidated
<1>5. VerifiedIsCounted
  <2>1. {b \in Batches : InState(b, Verified)} = {}
    BY <1>2
  <2> QED
    BY <2>1, FS_EmptySet DEF Init, VerifiedIsCounted
<1>6. ReviewInv
  BY DEF Init, ReviewInv, RetestsTheCandidate, RetestHasBatch, RetestInv
<1> QED
  BY <1>1, <1>3, <1>4, <1>5, <1>6 DEF IInv, CountInv

-----------------------------------------------------------------------------
(* The records, and what a step makes of them.                               *)
ReviewFiles ==
  [status : Statuses, baseline : 1 .. Latest, active : BOOLEAN, diagnosed : BOOLEAN]
BatchFiles == [Batches -> [state : BatchStates, base : 0 .. Latest, scope : Scopes]]
Writers == [pc : WriterSteps, batch : {0} \cup Batches, read : 1 .. Latest \cup {NoRead}]
Cycles == [pc : {"idle", "driving", "failed"}, file : CycleFiles]
Bounds == [kills : 0 .. MaxKills, faults : 0 .. MaxFaults, edits : 0 .. MaxEdits]

LEMMA ReviewTypes ==
  ASSUME TypeOK, NEW s \in Statuses, NEW work \in 1 .. Latest
  PROVE  /\ StatusSet(s) \in ReviewFiles
         /\ [StatusSet(s) EXCEPT !.baseline = work] \in ReviewFiles
         /\ \A b \in BOOLEAN : /\ [StatusSet(s) EXCEPT !.active = b] \in ReviewFiles
                               /\ [StatusSet(s) EXCEPT !.diagnosed = b] \in ReviewFiles
  BY DEF TypeOK, ReviewFiles, StatusSet

LEMMA SetBatchEffect ==
  ASSUME TypeOK, NEW b \in Batches, NEW s \in BatchStates, SetBatch(b, s)
  PROVE  /\ batch' \in BatchFiles
         /\ batch'[b].state = s /\ batch'[b].base = batch[b].base
         /\ \A c \in Batches \ {b} : batch'[c] = batch[c]
<1>1. batch \in BatchFiles
  BY DEF TypeOK, BatchFiles
<1>2. batch' = [batch EXCEPT ![b] = [batch[b] EXCEPT !.state = s]]
  BY DEF SetBatch
<1>3. [batch[b] EXCEPT !.state = s] \in [state : BatchStates, base : 0 .. Latest, scope : Scopes]
  BY <1>1 DEF BatchFiles
<1> QED
  BY <1>1, <1>2, <1>3 DEF BatchFiles

LEMMA SpentEffect ==
  ASSUME TypeOK, Quiet \/ KillHappens \/ FaultHappens \/ EditHappens
  PROVE  /\ spent' \in Bounds
         /\ spent'.kills = 0 => spent.kills = 0
         /\ KillHappens => spent'.kills # 0
<1>1. spent \in Bounds
  BY DEF TypeOK, Bounds
<1>2. CASE Quiet
  BY <1>1, <1>2, BoundAssumption DEF Quiet, KillHappens, Bounds
<1>3. CASE KillHappens
  BY <1>1, <1>3, BoundAssumption DEF KillHappens, Bounds
<1>4. CASE FaultHappens
  BY <1>1, <1>4, BoundAssumption DEF FaultHappens, KillHappens, Bounds
<1>5. CASE EditHappens
  BY <1>1, <1>5, BoundAssumption DEF EditHappens, KillHappens, Bounds
<1> QED
  BY <1>2, <1>3, <1>4, <1>5

(* Revisions are added, never changed.                                       *)
Extended ==
  /\ works' \in Seq(Contents)
  /\ Latest' >= Latest
  /\ \A i \in 1 .. Latest : works'[i] = works[i]

LEMMA StillExtended == TypeOK /\ UNCHANGED works => Extended
  BY DEF TypeOK, Extended, Latest

LEMMA AppendExtends ==
  ASSUME TypeOK, NEW content \in Contents, works' = Append(works, content)
  PROVE  Extended
  BY DEF TypeOK, Extended, Latest

LEMMA Retype ==
  ASSUME TypeOK, Extended, review' \in ReviewFiles, batch' \in BatchFiles,
         attempts' \in 0 .. AttemptLimit + AttemptExtension, frozen' \in BOOLEAN,
         revisions' \in 0 .. BaseLimit + RevisionExtension + 1, granted' \subseteq Scopes,
         checkpoints' \subseteq 1 .. Latest, environment' \in 0 .. Latest,
         writer' \in Writers, cycle' \in Cycles, wire' \in [Batches -> Wires],
         spent' \in Bounds, sends' \in [Batches -> Nat]
  PROVE  TypeOK'
<1>0. Latest \in Nat /\ Latest' \in Nat /\ Latest <= Latest'
  BY DEF TypeOK, Extended, Latest
<1>1. 1 .. Latest \subseteq 1 .. Latest' /\ 0 .. Latest \subseteq 0 .. Latest'
  BY <1>0
<1>2. review' \in [status : Statuses, baseline : 1 .. Latest', active : BOOLEAN,
                  diagnosed : BOOLEAN]
  BY <1>1 DEF ReviewFiles
<1>3. batch' \in [Batches -> [state : BatchStates, base : 0 .. Latest', scope : Scopes]]
  BY <1>1 DEF BatchFiles
<1>4. writer' \in [pc : WriterSteps, batch : {0} \cup Batches, read : 1 .. Latest' \cup {NoRead}]
  BY <1>1 DEF Writers
<1>5. checkpoints' \subseteq 1 .. Latest' /\ environment' \in 0 .. Latest'
  BY <1>1
<1> QED
  BY <1>2, <1>3, <1>4, <1>5 DEF TypeOK, Extended, Cycles, Bounds

-----------------------------------------------------------------------------
(* What leaves the parts of the invariant alone.                             *)
BatchesRest == \A b \in Batches : batch'[b].state = batch[b].state /\ batch'[b].base = batch[b].base
VerifiedRest == \A b \in Batches : InState(b, Verified)' <=> InState(b, Verified)
MoreKills == spent'.kills = 0 => spent.kills = 0

LEMMA WriteFrame ==
  ASSUME TypeOK, WriteInv, BatchesRest, Extended, attempts' \in Nat, attempts' >= attempts,
         UNCHANGED <<writer, wire, sends>>
  PROVE  WriteInv'
<1>1. AttemptInv'
  BY DEF WriteInv, TypeOK, AttemptInv, BatchesRest, InState, Batches
<1>2. PermitInv'
  BY DEF WriteInv, PermitInv, BatchesRest, InState
<1>3. WriterInv'
  BY DEF WriteInv, TypeOK, WriterInv, BatchesRest, Extended, BaselineStillPresent, Target
<1>4. WriterOwnsBatch'
  BY DEF WriteInv, WriterInv, WriterOwnsBatch, BatchesRest, InState
<1> QED
  BY <1>1, <1>2, <1>3, <1>4 DEF WriteInv

LEMMA CountFrame ==
  ASSUME TypeOK, CountInv, VerifiedRest, Extended, MoreKills,
         UNCHANGED <<checkpoints, revisions>>
  PROVE  CountInv'
<1>1. VerifiedBatches' = VerifiedBatches
  BY DEF VerifiedBatches, VerifiedRest
<1>2. \A work \in checkpoints : work \in 1 .. Latest /\ works'[work] = works[work]
  BY DEF TypeOK, Extended
<1>3. CheckpointInv'
  <2>1. works'[1] = works[1]
    BY DEF TypeOK, Extended, Latest
  <2> QED
    BY <1>1, <1>2, <2>1 DEF CountInv, CheckpointInv, MoreKills
<1>4. CheckpointsAreValidated'
  BY <1>2 DEF CountInv, CheckpointsAreValidated, VerifiedRest
<1>5. VerifiedIsCounted'
  BY <1>1 DEF CountInv, VerifiedIsCounted, MoreKills, VerifiedBatches
<1> QED
  BY <1>3, <1>4, <1>5 DEF CountInv

(* A Review that is in no retest, or the same one with its batches.          *)
ReviewLeaves == review'.status \notin {"TARGET_UPDATED", "RUNTIME_RETESTING"}
ReviewRests == review'.status = review.status /\ review'.baseline = review.baseline

LEMMA ReviewLeft == ReviewLeaves => ReviewInv'
  BY DEF ReviewLeaves, ReviewInv, RetestsTheCandidate, RetestHasBatch, RetestInv

LEMMA CandidateFrame ==
  ASSUME TypeOK, RetestsTheCandidate, ReviewRests, Extended, checkpoints \subseteq checkpoints',
         \A b \in Batches : InState(b, Verified) => InState(b, Verified)'
  PROVE  RetestsTheCandidate'
<1>1. works'[review.baseline] = works[review.baseline]
  BY DEF TypeOK, Extended
<1> QED
  BY <1>1 DEF ReviewRests, RetestsTheCandidate, HasConfirmedCheckpoint

(* After a kill only the candidate is promised.                              *)
LEMMA ReviewKilled ==
  ASSUME TypeOK, ReviewInv, ReviewRests, Extended, KillHappens,
         checkpoints \subseteq checkpoints',
         \A b \in Batches : InState(b, Verified) => InState(b, Verified)'
  PROVE  ReviewInv'
<1>1. spent'.kills # 0
  BY SpentEffect
<1>2. RetestsTheCandidate'
  BY CandidateFrame DEF ReviewInv
<1> QED
  BY <1>1, <1>2 DEF ReviewInv, RetestHasBatch, RetestInv

LEMMA ReviewFrame ==
  ASSUME TypeOK, ReviewInv, ReviewRests \/ ReviewLeaves, Extended, MoreKills,
         checkpoints \subseteq checkpoints',
         \A b \in Batches : InState(b, Verified) => batch'[b].state = batch[b].state
  PROVE  ReviewInv'
<1>1. CASE ReviewLeaves
  BY <1>1, ReviewLeft
<1>2. CASE ReviewRests
  <2>1. \A b \in Batches : InState(b, Verified) => InState(b, Verified)'
    BY DEF InState
  <2>2. /\ BatchIn("READBACK_VERIFIED") \subseteq BatchIn("READBACK_VERIFIED")'
        /\ BatchIn("RUNTIME_TESTING") \subseteq BatchIn("RUNTIME_TESTING")'
    BY DEF BatchIn, InState, Verified
  <2>3. RetestsTheCandidate'
    BY <1>2, <2>1, CandidateFrame DEF ReviewInv
  <2> QED
    BY <1>2, <2>2, <2>3 DEF ReviewInv, ReviewRests, RetestHasBatch, RetestInv, MoreKills
<1> QED
  BY <1>1, <1>2

-----------------------------------------------------------------------------
(* The promise, batch by batch.                                              *)
Moves(b) == UNCHANGED Promise(b)!vars \/ Promise(b)!Next

Undecided ==
  {"NONE", "LOCAL_VALIDATED", "WRITE_REQUESTED", "WRITE_OUTCOME_UNKNOWN"}

LEMMA VerdictValue ==
  ASSUME NEW b \in Batches
  PROVE  /\ InState(b, Verified) => Verdict(b) = "confirmed"
         /\ InState(b, {"WRITE_REJECTED"}) => Verdict(b) = "refused"
         /\ InState(b, {"RECONCILIATION_REQUIRED"}) =>
              Verdict(b) = IF sends[b] = 0 THEN "void" ELSE "drifted"
         /\ InState(b, Undecided) => Verdict(b) = "open"
<1> DEFINE V == InState(b, Verified)
           R == InState(b, {"WRITE_REJECTED"})
           D == InState(b, {"RECONCILIATION_REQUIRED"})
           U == InState(b, Undecided)
<1>1. /\ V => ~R /\ ~D
      /\ R => ~V /\ ~D
      /\ D => ~V /\ ~R
      /\ U => ~V /\ ~R /\ ~D
  BY DEF InState, Verified, Undecided
<1> QED
  BY <1>1 DEF Verdict

LEMMA VerdictNext ==
  ASSUME NEW b \in Batches
  PROVE  /\ InState(b, Verified)' => Verdict(b)' = "confirmed"
         /\ InState(b, {"WRITE_REJECTED"})' => Verdict(b)' = "refused"
         /\ InState(b, {"RECONCILIATION_REQUIRED"})' =>
              Verdict(b)' = IF sends'[b] = 0 THEN "void" ELSE "drifted"
         /\ InState(b, Undecided)' => Verdict(b)' = "open"
<1> DEFINE V == InState(b, Verified)'
           R == InState(b, {"WRITE_REJECTED"})'
           D == InState(b, {"RECONCILIATION_REQUIRED"})'
           U == InState(b, Undecided)'
<1>1. /\ V => ~R /\ ~D
      /\ R => ~V /\ ~D
      /\ D => ~V /\ ~R
      /\ U => ~V /\ ~R /\ ~D
  BY DEF InState, Verified, Undecided
<1> QED
  BY <1>1 DEF Verdict

LEMMA Stutters ==
  ASSUME NEW b \in Batches, batch'[b].state = batch[b].state,
         sends'[b] = sends[b], wire'[b] = wire[b], Unsent(b)' <=> Unsent(b)
  PROVE  Moves(b)
<1>1. UNCHANGED Promise(b)!vars
  BY DEF Promise!vars, Permit, Fate, Verdict, InState
<1> QED
  BY <1>1 DEF Moves

(* What a step beside the writer keeps: the invariant and the promise.       *)
LEMMA BesideTheWriter ==
  ASSUME IInv, TypeOK', Extended, BatchesRest, MoreKills, ReviewRests \/ ReviewLeaves,
         attempts' \in {attempts, attempts + 1},
         UNCHANGED <<writer, wire, sends, checkpoints, revisions>>
  PROVE  IInv' /\ \A b \in Batches : Moves(b)
<1>1. WriteInv'
  <2>1. attempts' \in Nat /\ attempts' >= attempts
    BY LimitAssumption DEF IInv, TypeOK
  <2> QED
    BY <2>1, WriteFrame DEF IInv
<1>2. CountInv'
  <2>1. VerifiedRest
    BY DEF VerifiedRest, BatchesRest, InState
  <2> QED
    BY <2>1, CountFrame DEF IInv
<1>3. ReviewInv'
  BY ReviewFrame DEF IInv, BatchesRest
<1>4. ASSUME NEW b \in Batches PROVE Moves(b)
  <2>1. Unsent(b)' <=> Unsent(b)
    BY DEF Unsent, InState, BatchesRest
  <2> QED
    BY <2>1, Stutters DEF BatchesRest
<1> QED
  BY <1>1, <1>2, <1>3, <1>4 DEF IInv

-----------------------------------------------------------------------------
(* Diagnosis, authorizations, observations.                                  *)
LEMMA SubmitDiagnosisKeeps ==
  ASSUME IInv, SubmitDiagnosis \/ SubmitHumanFinding
  PROVE  IInv' /\ \A b \in Batches : Moves(b)
<1>1. Extended /\ BatchesRest /\ MoreKills
  BY StillExtended DEF IInv, SubmitDiagnosis, SubmitHumanFinding, platform, BatchesRest, MoreKills, Quiet
<1>2. review' \in ReviewFiles /\ (ReviewRests \/ ReviewLeaves)
  <2>1. review \in ReviewFiles
    BY DEF IInv, TypeOK, ReviewFiles
  <2>2. "DIAGNOSING" \in Statuses
    BY StatusValues
  <2> QED
    BY <2>1, <2>2 DEF SubmitDiagnosis, SubmitHumanFinding, StatusSet, ReviewFiles, ReviewLeaves
<1>3. TypeOK'
  BY <1>1, <1>2, Retype
     DEF IInv, TypeOK, SubmitDiagnosis, SubmitHumanFinding, platform, budgets, Quiet, BatchFiles, Writers, Cycles, Bounds
<1>4. /\ attempts' \in {attempts, attempts + 1}
      /\ UNCHANGED <<writer, wire, sends, checkpoints, revisions>>
  BY DEF SubmitDiagnosis, SubmitHumanFinding, platform, budgets
<1> QED
  BY <1>1, <1>2, <1>3, <1>4, BesideTheWriter

LEMMA RecordEnvironmentKeeps ==
  ASSUME IInv, RecordEnvironment
  PROVE  IInv' /\ \A b \in Batches : Moves(b)
<1>1. Extended /\ BatchesRest /\ MoreKills
  BY StillExtended DEF IInv, RecordEnvironment, platform, BatchesRest, MoreKills, Quiet
<1>2. review' \in ReviewFiles /\ (ReviewRests \/ ReviewLeaves)
  BY DEF IInv, TypeOK, RecordEnvironment, ReviewFiles, ReviewRests
<1>3. TypeOK'
  BY <1>1, <1>2, Retype
     DEF IInv, TypeOK, RecordEnvironment, platform, budgets, Quiet, BatchFiles, Writers, Cycles, Bounds
<1>4. /\ attempts' \in {attempts, attempts + 1}
      /\ UNCHANGED <<writer, wire, sends, checkpoints, revisions>>
  BY DEF RecordEnvironment, platform, budgets
<1> QED
  BY <1>1, <1>2, <1>3, <1>4, BesideTheWriter

LEMMA AuthorizeKeeps ==
  ASSUME IInv, NEW scope \in Scopes, AuthorizeTargetRepair(scope)
  PROVE  IInv' /\ \A b \in Batches : Moves(b)
<1>1. Extended /\ BatchesRest /\ MoreKills
  <2>1. BatchesRest
    BY DEF IInv, TypeOK, AuthorizeTargetRepair, BatchesRest
  <2>2. MoreKills
    BY SpentEffect DEF IInv, AuthorizeTargetRepair, SaveState, MoreKills
  <2> QED
    BY <2>1, <2>2, StillExtended DEF IInv, AuthorizeTargetRepair, platform
<1>2. review' \in ReviewFiles /\ (ReviewRests \/ ReviewLeaves)
  <2>1. review \in ReviewFiles /\ "DIAGNOSING" \in Statuses
    BY StatusValues DEF IInv, TypeOK, ReviewFiles
  <2> QED
    BY <2>1 DEF AuthorizeTargetRepair, SaveState, StatusSet, ReviewFiles, ReviewLeaves, ReviewRests
<1>3. TypeOK'
  <2>1. batch' \in BatchFiles
    BY DEF IInv, TypeOK, AuthorizeTargetRepair, BatchFiles
  <2>2. spent' \in Bounds
    BY SpentEffect DEF IInv, AuthorizeTargetRepair, SaveState
  <2>3. granted' \subseteq Scopes
    BY DEF IInv, TypeOK, AuthorizeTargetRepair
  <2> QED
    BY <1>1, <1>2, <2>1, <2>2, <2>3, Retype
       DEF IInv, TypeOK, AuthorizeTargetRepair, platform, Writers, Cycles
<1>4. /\ attempts' \in {attempts, attempts + 1}
      /\ UNCHANGED <<writer, wire, sends, checkpoints, revisions>>
  BY DEF AuthorizeTargetRepair, platform, budgets
<1> QED
  BY <1>1, <1>2, <1>3, <1>4, BesideTheWriter

LEMMA ObserveKeeps ==
  ASSUME IInv, ObserveTargetRevision
  PROVE  IInv' /\ \A b \in Batches : Moves(b)
<1>1. Extended /\ BatchesRest /\ MoreKills
  BY StillExtended, SpentEffect
     DEF IInv, ObserveTargetRevision, SaveState, platform, BatchesRest, MoreKills
<1>2. review' \in ReviewFiles /\ (ReviewRests \/ ReviewLeaves)
  <2>1. review \in ReviewFiles /\ "TARGET_EXTERNALLY_MODIFIED" \in Statuses
    BY StatusValues DEF IInv, TypeOK, ReviewFiles
  <2> QED
    BY <2>1 DEF ObserveTargetRevision, SaveState, StatusSet, ReviewFiles, ReviewLeaves, ReviewRests
<1>3. TypeOK'
  <2>1. spent' \in Bounds
    BY SpentEffect DEF IInv, ObserveTargetRevision, SaveState
  <2> QED
    BY <1>1, <1>2, <2>1, Retype
       DEF IInv, TypeOK, ObserveTargetRevision, platform, budgets, BatchFiles, Writers, Cycles
<1>4. /\ attempts' \in {attempts, attempts + 1}
      /\ UNCHANGED <<writer, wire, sends, checkpoints, revisions>>
  BY DEF ObserveTargetRevision, platform, budgets
<1> QED
  BY <1>1, <1>2, <1>3, <1>4, BesideTheWriter

LEMMA AcceptKeeps ==
  ASSUME IInv, NEW work \in 1 .. Latest, AcceptExternalRevision(work)
  PROVE  IInv' /\ \A b \in Batches : Moves(b)
<1>1. Extended /\ BatchesRest /\ MoreKills
  BY StillExtended DEF IInv, AcceptExternalRevision, platform, BatchesRest, MoreKills, Quiet
<1>2. review' \in ReviewFiles /\ (ReviewRests \/ ReviewLeaves)
  <2>1. review \in ReviewFiles /\ "LOCAL_VALIDATING" \in Statuses
    BY StatusValues DEF IInv, TypeOK, ReviewFiles
  <2> QED
    BY <2>1 DEF AcceptExternalRevision, StatusSet, ReviewFiles, ReviewLeaves
<1>3. TypeOK'
  BY <1>1, <1>2, Retype
     DEF IInv, TypeOK, AcceptExternalRevision, platform, budgets, Quiet, BatchFiles, Writers, Cycles, Bounds
<1>4. /\ attempts' \in {attempts, attempts + 1}
      /\ UNCHANGED <<writer, wire, sends, checkpoints, revisions>>
  BY DEF AcceptExternalRevision, platform, budgets
<1> QED
  BY <1>1, <1>2, <1>3, <1>4, BesideTheWriter

LEMMA DriverWaitsKeeps ==
  ASSUME IInv, ResumeRuntimeCycle \/ DriverFails \/ KillDriver
  PROVE  IInv' /\ \A b \in Batches : Moves(b)
<1>1. Extended /\ BatchesRest /\ MoreKills
  <2>1. MoreKills
    BY SpentEffect DEF IInv, ResumeRuntimeCycle, DriverFails, KillDriver, MoreKills
  <2> QED
    BY <2>1, StillExtended DEF IInv, ResumeRuntimeCycle, DriverFails, KillDriver, CycleFrame, platform, BatchesRest
<1>2. review' \in ReviewFiles /\ (ReviewRests \/ ReviewLeaves)
  BY DEF IInv, TypeOK, ResumeRuntimeCycle, DriverFails, KillDriver, CycleFrame, ReviewFiles, ReviewRests
<1>3. TypeOK'
  <2>1. spent' \in Bounds
    BY SpentEffect DEF IInv, ResumeRuntimeCycle, DriverFails, KillDriver
  <2>2. cycle' \in Cycles
    BY DEF IInv, TypeOK, ResumeRuntimeCycle, DriverFails, KillDriver, Cycles
  <2> QED
    BY <1>1, <1>2, <2>1, <2>2, Retype
       DEF IInv, TypeOK, ResumeRuntimeCycle, DriverFails, KillDriver, CycleFrame, platform, budgets, BatchFiles, Writers
<1>4. /\ attempts' \in {attempts, attempts + 1}
      /\ UNCHANGED <<writer, wire, sends, checkpoints, revisions>>
  BY DEF ResumeRuntimeCycle, DriverFails, KillDriver, CycleFrame, platform, budgets
<1> QED
  BY <1>1, <1>2, <1>3, <1>4, BesideTheWriter

(* A verified batch changes its state among the verified ones.              *)
LEMMA VerifiedStays ==
  ASSUME IInv, NEW b \in Batches, InState(b, Verified), batch'[b].state \in Verified,
         batch'[b].base = batch[b].base, \A c \in Batches \ {b} : batch'[c] = batch[c],
         Extended, UNCHANGED <<attempts, writer, wire, sends>>
  PROVE  WriteInv' /\ VerifiedRest /\ \A c \in Batches : Moves(c)
<1>1. writer.pc # "idle" => writer.batch \in Batches \ {b}
  BY DEF IInv, WriteInv, WriterInv, WriterOwnsBatch, InState, Verified
<1>2. AttemptInv'
  <2>1. b <= attempts
    BY LimitAssumption DEF IInv, TypeOK, WriteInv, AttemptInv, InState, Verified, Batches
  <2> QED
    BY <2>1 DEF IInv, TypeOK, WriteInv, AttemptInv, InState, Batches
<1>3. PermitInv'
  BY DEF IInv, WriteInv, PermitInv, InState, Verified
<1>4. WriterInv'
  BY <1>1 DEF IInv, WriteInv, TypeOK, WriterInv, Extended, BaselineStillPresent, Target
<1>5. WriterOwnsBatch'
  BY <1>1 DEF IInv, WriteInv, WriterOwnsBatch, InState
<1>6. VerifiedRest
  BY DEF VerifiedRest, InState
<1>7. ASSUME NEW c \in Batches \ {b} PROVE Moves(c)
  BY Stutters, <1>7 DEF Unsent, InState
<1>8. Moves(b)
  <2>1. sends[b] = 1
    BY DEF IInv, WriteInv, PermitInv, InState
  <2>2. ~InState(b, {"NONE"}) /\ ~InState(b, {"NONE"})' /\ ~Unsent(b) /\ ~Unsent(b)'
    BY <2>1 DEF Unsent, InState, Verified
  <2>3. Permit(b)' = Permit(b)
    BY <2>2 DEF Permit
  <2>4. Verdict(b) = "confirmed" /\ Verdict(b)' = "confirmed"
    BY VerdictValue, VerdictNext DEF InState
  <2> QED
    BY <2>3, <2>4 DEF Moves, Promise!vars, Fate
<1> QED
  BY <1>2, <1>3, <1>4, <1>5, <1>6, <1>7, <1>8 DEF WriteInv

LEMMA ClosesToVerified ==
  ASSUME NEW status \in Native
  PROVE  NativeBatchState(status) \in {"RUNTIME_VERIFIED", "RUNTIME_FAILED"}
  BY DEF NativeBatchState

LEMMA RecordNativeKeeps ==
  ASSUME IInv, NEW status \in Native, NEW b \in {0} \cup Batches,
         RecordNativeObservation(status, b)
  PROVE  IInv' /\ \A c \in Batches : Moves(c)
<1>1. Extended /\ MoreKills /\ spent' \in Bounds
  BY StillExtended, SpentEffect
     DEF IInv, RecordNativeObservation, SaveState, platform, MoreKills
<1>2. review' \in ReviewFiles /\ (ReviewRests \/ ReviewLeaves)
  <2>1. review \in ReviewFiles /\ status \in Statuses
    BY StatusValues DEF IInv, TypeOK, ReviewFiles
  <2> QED
    BY <2>1 DEF RecordNativeObservation, SaveState, StatusSet, ReviewFiles, ReviewLeaves,
                ReviewRests, Native
<1>3. UNCHANGED <<attempts, frozen, granted, revisions, checkpoints, environment, writer, cycle,
                  wire, works, sends>>
  BY DEF RecordNativeObservation, platform, budgets
<1>4. CASE b = 0
  <2>1. UNCHANGED batch
    BY <1>4 DEF RecordNativeObservation
  <2>2. TypeOK'
    BY <1>1, <1>2, <1>3, <2>1, Retype DEF IInv, TypeOK, BatchFiles, Writers, Cycles
  <2> QED
    BY <1>1, <1>2, <1>3, <2>1, <2>2, BesideTheWriter DEF BatchesRest
<1>5. CASE b # 0
  <2> DEFINE to == NativeBatchState(status)
  <2>1. b \in Batches /\ InState(b, Verified) /\ to \in Verified /\ to \in BatchStates
        /\ SetBatch(b, to)
        /\ batch[b].state \in {"READBACK_VERIFIED", "RUNTIME_VERIFIED", "RUNTIME_FAILED"}
    BY <1>5, ClosesToVerified
       DEF RecordNativeObservation, BatchMayClose, InState, Verified, BatchStates
  <2>2. /\ batch' \in BatchFiles
        /\ batch'[b].state = to /\ batch'[b].base = batch[b].base
        /\ \A c \in Batches \ {b} : batch'[c] = batch[c]
    BY <2>1, SetBatchEffect DEF IInv
  <2>3. WriteInv' /\ VerifiedRest /\ \A c \in Batches : Moves(c)
    BY <1>1, <1>3, <2>1, <2>2, VerifiedStays
  <2>4. TypeOK'
    BY <1>1, <1>2, <1>3, <2>2, Retype DEF IInv, TypeOK, Writers, Cycles
  <2>5. CountInv'
    BY <1>1, <1>3, <2>3, CountFrame DEF IInv
  <2>6. ReviewInv'
    <3>1. CASE KillHappens /\ UNCHANGED review
      BY <1>1, <1>3, <2>3, <3>1, ReviewKilled DEF IInv, ReviewRests, VerifiedRest
    <3>2. CASE review' = StatusSet(status)
      BY <3>2, ReviewLeft DEF IInv, TypeOK, StatusSet, ReviewLeaves, Native
    <3> QED
      BY <3>1, <3>2 DEF RecordNativeObservation, SaveState
  <2> QED
    BY <2>3, <2>4, <2>5, <2>6 DEF IInv
<1> QED
  BY <1>4, <1>5

(* A proposal that passes is the grant of a permit to a new batch.           *)
LEMMA ProposalPassesKeeps ==
  ASSUME IInv, SubmitRepairProposal, ProposalPasses
  PROVE  IInv' /\ \A b \in Batches : Moves(b)
<1> DEFINE n == attempts + 1
           new == [state |-> "LOCAL_VALIDATED", base |-> review.baseline,
                   scope |-> ScopeOfAttempt]
<1>1. n \in Batches /\ attempts \in Nat /\ attempts' = n
  BY LimitAssumption DEF IInv, TypeOK, SubmitRepairProposal, Proposable, Batches
<1>2. InState(n, {"NONE"}) /\ sends[n] = 0
  BY <1>1 DEF IInv, WriteInv, AttemptInv, PermitInv, InState
<1>3. writer.pc # "idle" => writer.batch \in Batches \ {n}
  BY <1>2 DEF IInv, WriteInv, WriterInv, WriterOwnsBatch, InState
<1>4. /\ batch' \in BatchFiles /\ batch'[n] = new
      /\ \A c \in Batches \ {n} : batch'[c] = batch[c]
  <2>1. batch \in BatchFiles
    BY DEF IInv, TypeOK, BatchFiles
  <2>2. new \in [state : BatchStates, base : 0 .. Latest, scope : Scopes]
    BY DEF IInv, TypeOK, BatchStates, Scopes, ScopeOfAttempt
  <2>3. batch' = [batch EXCEPT ![n] = new]
    BY DEF ProposalPasses
  <2> QED
    BY <1>1, <2>1, <2>2, <2>3 DEF BatchFiles
<1>5. UNCHANGED <<granted, revisions, checkpoints, environment, writer, cycle, wire, works, sends>>
  BY DEF SubmitRepairProposal, platform
<1>6. Extended /\ MoreKills /\ spent' \in Bounds
  BY <1>5, StillExtended, SpentEffect DEF IInv, ProposalPasses, SaveState, MoreKills
<1>7. review' \in ReviewFiles /\ (ReviewRests \/ ReviewLeaves)
  <2>1. review \in ReviewFiles /\ "READY_TO_UPDATE_TARGET" \in Statuses
    BY StatusValues DEF IInv, TypeOK, ReviewFiles
  <2> QED
    BY <2>1 DEF ProposalPasses, SaveState, StatusSet, ReviewFiles, ReviewLeaves, ReviewRests
<1>8. TypeOK'
  <2>1. attempts' \in 0 .. AttemptLimit + AttemptExtension
    BY <1>1, LimitAssumption DEF Batches
  <2>2. frozen' \in BOOLEAN
    BY DEF ProposalPasses
  <2> QED
    BY <1>4, <1>5, <1>6, <1>7, <2>1, <2>2, Retype DEF IInv, TypeOK, Writers, Cycles
<1>9. WriteInv'
  <2>1. AttemptInv'
    BY <1>1, <1>4 DEF IInv, WriteInv, AttemptInv, InState, Batches
  <2>2. PermitInv'
    BY <1>2, <1>4, <1>5 DEF IInv, WriteInv, PermitInv, InState, Verified
  <2>3. WriterInv'
    BY <1>3, <1>4, <1>5 DEF IInv, WriteInv, WriterInv, BaselineStillPresent, Target
  <2>4. WriterOwnsBatch'
    BY <1>3, <1>4, <1>5 DEF IInv, WriteInv, WriterOwnsBatch, InState
  <2> QED
    BY <2>1, <2>2, <2>3, <2>4 DEF WriteInv
<1>10. CountInv'
  <2>1. VerifiedRest
    BY <1>2, <1>4 DEF VerifiedRest, InState, Verified
  <2> QED
    BY <1>5, <1>6, <2>1, CountFrame DEF IInv
<1>11. ReviewInv'
  BY <1>2, <1>4, <1>5, <1>6, <1>7, ReviewFrame DEF IInv, InState, Verified
<1>12. ASSUME NEW b \in Batches PROVE Moves(b)
  <2>1. CASE b # n
    BY <1>4, <1>5, <2>1, Stutters DEF Unsent, InState
  <2>2. CASE b = n
    <3>1. Permit(b) = "none" /\ Permit(b)' = "granted"
      BY <1>2, <1>4, <1>5, <2>2 DEF Permit, Unsent, InState
    <3>2. Verdict(b) = "open" /\ Verdict(b)' = "open"
      <4>1. InState(b, Undecided) /\ InState(b, Undecided)'
        BY <1>2, <1>4, <2>2 DEF InState, Undecided
      <4> QED
        BY <1>1, <4>1, VerdictValue, VerdictNext
    <3>3. Fate(b)' = Fate(b) /\ sends'[b] = sends[b]
      BY <1>5 DEF Fate
    <3> QED
      BY <2>2, <3>1, <3>2, <3>3 DEF Moves, Promise!Next, Promise!Grant
  <2> QED
    BY <2>1, <2>2
<1> QED
  BY <1>8, <1>9, <1>10, <1>11, <1>12 DEF IInv

LEMMA ProposalKeeps ==
  ASSUME IInv, SubmitRepairProposal
  PROVE  IInv' /\ \A b \in Batches : Moves(b)
<1>1. CASE ProposalPasses
  BY <1>1, ProposalPassesKeeps
<1>2. CASE ProposalFails
  <2>1. UNCHANGED <<batch, granted, revisions, checkpoints, environment, writer, cycle, wire,
                    works, sends>>
    BY <1>2 DEF ProposalFails, SubmitRepairProposal, platform
  <2>2. Extended /\ BatchesRest /\ MoreKills /\ spent' \in Bounds
    BY <1>2, <2>1, StillExtended, SpentEffect
       DEF IInv, ProposalFails, SaveState, BatchesRest, MoreKills
  <2>3. review' \in ReviewFiles /\ (ReviewRests \/ ReviewLeaves)
    <3>1. review \in ReviewFiles /\ {"AUTO_REPAIR_STOPPED", "DIAGNOSING"} \subseteq Statuses
      BY StatusValues DEF IInv, TypeOK, ReviewFiles
    <3> QED
      BY <1>2, <3>1 DEF ProposalFails, SaveState, StatusSet, ReviewFiles, ReviewLeaves,
                        ReviewRests
  <2>4. /\ attempts' = attempts + 1 /\ frozen' \in BOOLEAN
        /\ attempts' \in 0 .. AttemptLimit + AttemptExtension
    BY <1>2, LimitAssumption
       DEF IInv, TypeOK, SubmitRepairProposal, Proposable, ProposalFails
  <2>5. TypeOK'
    BY <2>1, <2>2, <2>3, <2>4, Retype DEF IInv, TypeOK, BatchFiles, Writers, Cycles
  <2> QED
    BY <2>1, <2>2, <2>3, <2>4, <2>5, BesideTheWriter
<1> QED
  BY <1>1, <1>2 DEF SubmitRepairProposal

-----------------------------------------------------------------------------
(* The writer.  A batch it works on is undecided.                            *)
LEMMA OwnedBatch ==
  ASSUME IInv, writer.pc # "idle"
  PROVE  /\ writer.batch \in Batches /\ batch[writer.batch].state \in BatchStates
         /\ batch[writer.batch].state \in {"WRITE_REQUESTED", "WRITE_OUTCOME_UNKNOWN"}
         /\ sends[writer.batch] = 0 => batch[writer.batch].state = "WRITE_REQUESTED"
         /\ batch[writer.batch].state = "WRITE_OUTCOME_UNKNOWN" =>
              writer.pc \in {"reconcile", "confirm", "uncertain"}
  BY DEF IInv, WriteInv, WriterInv, PermitInv, WriterOwnsBatch, InState, BatchStates

(* A step that writes no file keeps what the files say of each other.        *)
LEMMA FilesKeep ==
  ASSUME IInv, Untouched, WriterFrame, UNCHANGED works, writer' \in Writers,
         wire' \in [Batches -> Wires], sends' \in [Batches -> Nat],
         Quiet \/ KillHappens \/ FaultHappens
  PROVE  TypeOK' /\ AttemptInv' /\ CountInv' /\ ReviewInv'
<1>1. Extended /\ MoreKills /\ spent' \in Bounds
  BY StillExtended, SpentEffect DEF IInv, MoreKills
<1>2. TypeOK'
  BY <1>1, Retype
     DEF IInv, TypeOK, Untouched, WriterFrame, budgets, ReviewFiles, BatchFiles, Cycles
<1>3. AttemptInv'
  BY DEF IInv, WriteInv, AttemptInv, InState, Untouched, WriterFrame, budgets
<1>4. CountInv'
  BY <1>1, CountFrame DEF IInv, Untouched, VerifiedRest, InState
<1>5. ReviewInv'
  BY <1>1, ReviewFrame DEF IInv, Untouched, ReviewRests, InState
<1> QED
  BY <1>2, <1>3, <1>4, <1>5

(* A permit that is lost although no file changes is spent.                  *)
LEMMA SpendsPermit ==
  ASSUME IInv, NEW b \in Batches, Untouched, UNCHANGED platform, Unsent(b), ~Unsent(b)'
  PROVE  Moves(b)
<1>1. InState(b, {"WRITE_REQUESTED"}) /\ sends[b] = 0
  BY OwnedBatch DEF Unsent, InState, Untouched, platform
<1>2. InState(b, Undecided) /\ InState(b, Undecided)' /\ ~InState(b, {"NONE"})
      /\ ~InState(b, {"NONE"})'
  BY <1>1 DEF InState, Undecided, Untouched
<1>3. Permit(b) = "granted" /\ Permit(b)' = "spent"
  BY <1>2 DEF Permit
<1>4. Verdict(b) = "open" /\ Verdict(b)' = "open"
  BY <1>2, VerdictValue, VerdictNext
<1>5. Fate(b)' = Fate(b) /\ sends'[b] = sends[b]
  BY DEF Fate, platform
<1> QED
  BY <1>3, <1>4, <1>5 DEF Moves, Promise!Next, Promise!Spend

(* Killed or locked out: a permit that was not used is spent.                *)
LEMMA WriterLeaves ==
  ASSUME IInv, writer.pc # "idle", writer' = Idle, Untouched, WriterFrame, UNCHANGED platform,
         Quiet \/ KillHappens \/ FaultHappens
  PROVE  IInv' /\ \A b \in Batches : Moves(b)
<1>1. TypeOK' /\ AttemptInv' /\ CountInv' /\ ReviewInv'
  BY FilesKeep DEF IInv, TypeOK, Writers, Idle, WriterSteps, platform
<1>2. PermitInv' /\ WriterInv' /\ WriterOwnsBatch'
  BY DEF IInv, WriteInv, PermitInv, WriterInv, WriterOwnsBatch, InState, Idle, Untouched, platform
<1>3. ASSUME NEW b \in Batches PROVE Moves(b)
  <2>1. ~Unsent(b)' \/ Unsent(b)
    BY DEF Unsent, InState, Idle, Untouched, platform
  <2>2. CASE ~Unsent(b) \/ Unsent(b)'
    BY <2>1, <2>2, Stutters DEF Untouched, platform
  <2>3. CASE Unsent(b) /\ ~Unsent(b)'
    BY <2>3, SpendsPermit
  <2> QED
    BY <2>2, <2>3
<1> QED
  BY <1>1, <1>2, <1>3 DEF IInv, WriteInv

LEMMA KillWriterKeeps ==
  ASSUME IInv, KillWriter
  PROVE  IInv' /\ \A b \in Batches : Moves(b)
  BY WriterLeaves DEF KillWriter

(* It goes on: a permit that was not used is kept, or spent on the way to    *)
(* the request.                                                              *)
LEMMA WriterGoesOn ==
  ASSUME IInv, writer.pc # "idle", writer' \in Writers, writer'.batch = writer.batch,
         writer'.pc # "idle", Untouched, WriterFrame, UNCHANGED platform,
         Quiet \/ FaultHappens,
         writer'.pc \in BeforeSend => sends[writer.batch] = 0,
         writer'.pc \in AfterSend => sends[writer.batch] = 1,
         writer'.pc \in {"rejected", "reject"} => wire[writer.batch] = "rejected",
         writer'.pc = "uncertain" /\ sends[writer.batch] = 0 => writer'.read # Target,
         writer'.pc = "confirm" => writer'.read # NoRead /\ works[writer'.read] = writer.batch,
         InState(writer.batch, {"WRITE_OUTCOME_UNKNOWN"}) => writer'.pc \in {"confirm", "uncertain"},
         sends[writer.batch] = 0 => writer.pc = "preflight"
  PROVE  IInv' /\ \A b \in Batches : Moves(b)
<1>1. TypeOK' /\ AttemptInv' /\ CountInv' /\ ReviewInv'
  BY FilesKeep DEF IInv, TypeOK, platform
<1>2. PermitInv'
  BY DEF IInv, WriteInv, PermitInv, InState, Untouched, platform
<1>3. WriterInv'
  BY OwnedBatch DEF WriterInv, BaselineStillPresent, Target, Untouched, platform
<1>4. WriterOwnsBatch'
  BY OwnedBatch DEF WriterOwnsBatch, InState, Untouched
<1>5. ASSUME NEW b \in Batches PROVE Moves(b)
  <2>1. Unsent(b)' => Unsent(b)
    BY DEF Unsent, InState, Untouched, platform
  <2>2. CASE ~Unsent(b) \/ Unsent(b)'
    BY <2>1, <2>2, Stutters DEF Untouched, platform
  <2>3. CASE Unsent(b) /\ ~Unsent(b)'
    BY <2>3, SpendsPermit
  <2> QED
    BY <2>2, <2>3
<1> QED
  BY <1>1, <1>2, <1>3, <1>4, <1>5 DEF IInv, WriteInv

LEMMA PreflightKeeps ==
  ASSUME IInv, Preflight
  PROVE  IInv' /\ \A b \in Batches : Moves(b)
<1>1. Latest \in 1 .. Latest /\ sends[writer.batch] = 0
  BY DEF IInv, TypeOK, WriteInv, WriterInv, Preflight, BeforeSend, Latest
<1>2. /\ writer' \in Writers /\ writer'.batch = writer.batch
      /\ writer'.pc \in {"send", "reset", "uncertain"}
      /\ writer'.pc = "uncertain" => writer'.read # Target
  <2>1. writer \in Writers /\ {"send", "reset", "uncertain"} \subseteq WriterSteps
    BY DEF IInv, TypeOK, Writers, WriterSteps
  <2>2. CASE (Latest = Target /\ Goto("send")) \/ Goto("reset")
    BY <2>1, <2>2 DEF Goto, Writers
  <2>3. CASE Latest # Target /\ Decided("uncertain", Latest)
    BY <1>1, <2>1, <2>3 DEF Decided, Writers
  <2> QED
    BY <2>2, <2>3 DEF Preflight
<1>3. ~InState(writer.batch, {"WRITE_OUTCOME_UNKNOWN"})
  BY OwnedBatch DEF Preflight, InState
<1> QED
  BY <1>1, <1>2, <1>3, WriterGoesOn DEF Preflight, BeforeSend, AfterSend, Outcomes

LEMMA AnswerKeeps ==
  ASSUME IInv, Answer
  PROVE  IInv' /\ \A b \in Batches : Moves(b)
<1>1. sends[writer.batch] = 1
  BY DEF IInv, WriteInv, WriterInv, Answer, AfterSend
<1>2. /\ writer' \in Writers /\ writer'.batch = writer.batch
      /\ writer'.pc \in Outcomes
      /\ writer'.pc = "rejected" => wire[writer.batch] = "rejected"
  BY DEF IInv, TypeOK, Answer, Goto, Writers, WriterSteps, Outcomes
<1>3. ~InState(writer.batch, {"WRITE_OUTCOME_UNKNOWN"})
  BY OwnedBatch DEF Answer, InState
<1> QED
  BY <1>1, <1>2, <1>3, WriterGoesOn DEF Answer, BeforeSend, AfterSend, Outcomes

LEMMA ReadBackKeeps ==
  ASSUME IInv, ReadBack
  PROVE  IInv' /\ \A b \in Batches : Moves(b)
<1>1. /\ Latest \in 1 .. Latest /\ sends[writer.batch] = 1
      /\ writer.pc = "rejected" => wire[writer.batch] = "rejected"
  BY DEF IInv, TypeOK, WriteInv, WriterInv, ReadBack, AfterSend, Outcomes, Latest
<1>2. PICK work \in 1 .. Latest \cup {NoRead} : Decided(Judge(writer.pc, work), work)
  BY <1>1 DEF ReadBack
<1>3. /\ writer' \in Writers /\ writer'.batch = writer.batch
      /\ writer'.pc \in {"confirm", "reject", "uncertain"}
      /\ writer'.pc = "reject" => writer.pc = "rejected"
      /\ writer'.pc = "confirm" => writer'.read # NoRead /\ works[writer'.read] = writer.batch
  BY <1>2 DEF IInv, TypeOK, Decided, Judge, ShowsCandidate, Writers, WriterSteps
<1>4. ~InState(writer.batch, {"WRITE_OUTCOME_UNKNOWN"})
  BY OwnedBatch DEF ReadBack, InState, Outcomes
<1> QED
  BY <1>1, <1>3, <1>4, WriterGoesOn DEF ReadBack, BeforeSend, AfterSend, Outcomes

LEMMA ReconcileReadKeeps ==
  ASSUME IInv, ReconcileRead
  PROVE  IInv' /\ \A b \in Batches : Moves(b)
<1>1. Latest \in 1 .. Latest /\ sends[writer.batch] = 1
  BY DEF IInv, TypeOK, WriteInv, WriterInv, ReconcileRead, AfterSend, Latest
<1>2. CASE FaultHappens /\ writer' = Idle
  BY <1>2, WriterLeaves DEF ReconcileRead
<1>3. CASE Quiet /\ Decided(IF ShowsCandidate(Latest) THEN "confirm" ELSE "uncertain", Latest)
  <2>1. /\ writer' \in Writers /\ writer'.batch = writer.batch
        /\ writer'.pc \in {"confirm", "uncertain"}
        /\ writer'.pc = "confirm" => writer'.read # NoRead /\ works[writer'.read] = writer.batch
    BY <1>1, <1>3 DEF IInv, TypeOK, Decided, ShowsCandidate, Writers, WriterSteps
  <2> QED
    BY <1>1, <1>3, <2>1, WriterGoesOn DEF ReconcileRead, BeforeSend, AfterSend, Outcomes
<1> QED
  BY <1>2, <1>3 DEF ReconcileRead

(* The request leaves.                                                       *)
LEMMA SaveWorkKeeps ==
  ASSUME IInv, SaveWork
  PROVE  IInv' /\ \A b \in Batches : Moves(b)
<1> DEFINE w == writer.batch
<1>1. w \in Batches /\ sends[w] = 0 /\ wire[w] = "idle" /\ InState(w, {"WRITE_REQUESTED"})
  BY OwnedBatch DEF IInv, WriteInv, WriterInv, PermitInv, SaveWork, BeforeSend, InState
<1>2. /\ wire' \in [Batches -> Wires] /\ sends' \in [Batches -> Nat]
      /\ wire'[w] = "flying" /\ sends'[w] = 1
      /\ \A c \in Batches \ {w} : wire'[c] = wire[c] /\ sends'[c] = sends[c]
  BY <1>1 DEF IInv, TypeOK, SaveWork, Wires
<1>3. writer' \in Writers /\ writer'.pc = "answer" /\ writer'.batch = w
  BY DEF IInv, TypeOK, SaveWork, Goto, Writers, WriterSteps
<1>4. TypeOK' /\ AttemptInv' /\ CountInv' /\ ReviewInv'
  BY <1>2, <1>3, FilesKeep DEF SaveWork
<1>5. PermitInv'
  BY <1>1, <1>2 DEF IInv, WriteInv, PermitInv, InState, SaveWork, Untouched, Verified
<1>6. WriterInv' /\ WriterOwnsBatch'
  BY <1>1, <1>2, <1>3
     DEF WriterInv, WriterOwnsBatch, InState, SaveWork, Untouched, BeforeSend, AfterSend
<1>7. ASSUME NEW b \in Batches PROVE Moves(b)
  <2>1. CASE b # w
    BY <1>2, <1>3, <2>1, Stutters DEF Unsent, InState, SaveWork, Untouched
  <2>2. CASE b = w
    <3>1. InState(b, Undecided) /\ InState(b, Undecided)' /\ ~InState(b, {"NONE"})
          /\ ~InState(b, {"NONE"})' /\ ~Unsent(b) /\ ~Unsent(b)'
      BY <1>1, <1>2, <2>2 DEF InState, Undecided, SaveWork, Untouched, Unsent
    <3>2. Permit(b) = "spent" /\ Permit(b)' = "spent"
      BY <3>1 DEF Permit
    <3>3. Verdict(b) = "open" /\ Verdict(b)' = "open"
      BY <3>1, VerdictValue, VerdictNext
    <3>4. Fate(b)' = "out" /\ sends[b] = 0 /\ sends'[b] = 1
      BY <1>1, <1>2, <2>2 DEF Fate
    <3> QED
      BY <3>2, <3>3, <3>4 DEF Moves, Promise!Next, Promise!Send
  <2> QED
    BY <2>1, <2>2
<1> QED
  BY <1>4, <1>5, <1>6, <1>7 DEF IInv, WriteInv

(* It closes its batch.                                                      *)
LEMMA WriterCloses ==
  ASSUME IInv, writer.pc # "idle", NEW b \in Batches, b = writer.batch,
         NEW s \in BatchStates \ {"NONE"}, SetBatch(b, s), writer' = Idle, Extended,
         UNCHANGED <<attempts, wire, sends>>,
         s = "LOCAL_VALIDATED" => sends[b] = 0,
         s \in {"WRITE_OUTCOME_UNKNOWN"} \cup Verified => sends[b] = 1
  PROVE  /\ WriteInv' /\ batch' \in BatchFiles /\ batch'[b].state = s
         /\ \A c \in Batches \ {b} : batch'[c] = batch[c] /\ Moves(c)
<1>1. /\ batch' \in BatchFiles /\ batch'[b].state = s
      /\ \A c \in Batches \ {b} : batch'[c] = batch[c]
  BY SetBatchEffect DEF IInv
<1>2. b <= attempts
  <2>1. ~InState(b, {"NONE"})
    BY OwnedBatch DEF InState
  <2> QED
    BY <2>1, LimitAssumption DEF IInv, TypeOK, WriteInv, AttemptInv, Batches
<1>3. AttemptInv'
  BY <1>1, <1>2 DEF IInv, TypeOK, WriteInv, AttemptInv, InState, Batches
<1>4. PermitInv'
  BY <1>1 DEF IInv, WriteInv, PermitInv, InState
<1>5. WriterInv' /\ WriterOwnsBatch'
  BY DEF WriterInv, WriterOwnsBatch, Idle
<1>6. ASSUME NEW c \in Batches \ {b} PROVE Moves(c)
  BY <1>1, <1>6, Stutters DEF Unsent, InState, Idle
<1> QED
  BY <1>1, <1>3, <1>4, <1>5, <1>6 DEF WriteInv

(* Once the request has left, that is the verdict, if it is one.             *)
Verdicts == {"WRITE_OUTCOME_UNKNOWN", "RECONCILIATION_REQUIRED", "WRITE_REJECTED"} \cup Verified

LEMMA Decides ==
  ASSUME IInv, writer.pc # "idle", NEW b \in Batches, b = writer.batch, sends[b] = 1,
         batch'[b].state \in Verdicts, UNCHANGED <<wire, sends>>,
         batch'[b].state = "WRITE_REJECTED" => wire[b] = "rejected"
  PROVE  Moves(b)
<1>1. InState(b, Undecided) /\ ~InState(b, {"NONE"}) /\ ~InState(b, {"NONE"})'
  BY OwnedBatch DEF InState, Undecided, Verdicts, Verified
<1>2. Permit(b) = "spent" /\ Permit(b)' = "spent"
  BY <1>1 DEF Permit, Unsent
<1>3. Verdict(b) = "open"
  BY <1>1, VerdictValue
<1>4. Fate(b)' = Fate(b) /\ sends'[b] = sends[b]
  BY DEF Fate
<1>5. CASE batch'[b].state = "WRITE_OUTCOME_UNKNOWN"
  <2>1. Verdict(b)' = "open"
    BY <1>5, VerdictNext DEF InState, Undecided
  <2> QED
    BY <1>2, <1>3, <1>4, <2>1 DEF Moves, Promise!vars
<1>6. CASE batch'[b].state = "WRITE_REJECTED"
  <2>1. Verdict(b)' = "refused"
    BY <1>6, VerdictNext DEF InState
  <2>2. Fate(b) = "refused"
    BY <1>6 DEF Fate
  <2> QED
    BY <1>2, <1>3, <1>4, <2>1, <2>2 DEF Moves, Promise!Next, Promise!Decide
<1>7. CASE batch'[b].state \in {"RECONCILIATION_REQUIRED"} \cup Verified
  <2>1. Verdict(b)' \in {"drifted", "confirmed"}
    BY <1>7, VerdictNext DEF InState
  <2> QED
    BY <1>2, <1>3, <1>4, <2>1 DEF Moves, Promise!Next, Promise!Decide
<1> QED
  BY <1>5, <1>6, <1>7 DEF Verdicts

(* A closing that verifies nothing keeps the counts.                         *)
LEMMA NothingVerified ==
  ASSUME IInv, writer.pc # "idle", NEW b \in Batches, b = writer.batch,
         batch'[b].state \notin Verified, \A c \in Batches \ {b} : batch'[c] = batch[c],
         Extended, MoreKills, UNCHANGED <<checkpoints, revisions>>,
         ReviewRests \/ ReviewLeaves
  PROVE  CountInv' /\ ReviewInv'
<1>1. ~InState(b, Verified)
  BY OwnedBatch DEF InState, Verified
<1>2. VerifiedRest
  BY <1>1 DEF VerifiedRest, InState
<1>3. CountInv'
  BY <1>2, CountFrame DEF IInv
<1>4. ReviewInv'
  BY <1>1, ReviewFrame DEF IInv
<1> QED
  BY <1>3, <1>4

LEMMA ResetPreflightKeeps ==
  ASSUME IInv, ResetPreflight
  PROVE  IInv' /\ \A b \in Batches : Moves(b)
<1>1. CASE FoundLocked
  BY <1>1, WriterLeaves DEF ResetPreflight, FoundLocked
<1>2. CASE /\ SetBatch(writer.batch, "LOCAL_VALIDATED") /\ writer' = Idle /\ Quiet
           /\ UNCHANGED <<review, revisions, checkpoints>>
  <2>1. PICK b \in Batches : b = writer.batch
    BY OwnedBatch DEF ResetPreflight
  <2>2. sends[b] = 0 /\ "LOCAL_VALIDATED" \in BatchStates \ {"NONE"}
    BY <2>1 DEF IInv, WriteInv, WriterInv, ResetPreflight, BeforeSend, BatchStates
  <2>3. UNCHANGED <<attempts, frozen, granted, environment, cycle, wire, works, sends>>
    BY DEF ResetPreflight, WriterFrame, budgets, platform
  <2>4. Extended /\ MoreKills /\ spent' \in Bounds
    BY <1>2, <2>3, StillExtended, SpentEffect DEF IInv, MoreKills
  <2>5. /\ WriteInv' /\ batch' \in BatchFiles /\ batch'[b].state = "LOCAL_VALIDATED"
        /\ \A c \in Batches \ {b} : batch'[c] = batch[c] /\ Moves(c)
    BY <1>2, <2>1, <2>2, <2>3, <2>4, WriterCloses DEF ResetPreflight, Verified
  <2>6. CountInv' /\ ReviewInv'
    BY <1>2, <2>1, <2>4, <2>5, NothingVerified DEF ResetPreflight, Verified, ReviewRests
  <2>7. TypeOK'
    <3>1. writer' \in Writers
      BY <1>2 DEF Writers, Idle, WriterSteps
    <3> QED
      BY <1>2, <2>3, <2>4, <2>5, <3>1, Retype DEF IInv, TypeOK, ReviewFiles, Cycles
  <2>8. Moves(b)
    <3>1. Unsent(b) /\ Unsent(b)'
      BY <2>1, <2>2, <2>3, <2>5 DEF Unsent, InState, ResetPreflight
    <3>2. InState(b, Undecided) /\ InState(b, Undecided)' /\ ~InState(b, {"NONE"})
          /\ ~InState(b, {"NONE"})'
      BY <2>1, <2>5, OwnedBatch DEF InState, Undecided, ResetPreflight
    <3>3. Permit(b)' = Permit(b)
      BY <3>1, <3>2 DEF Permit
    <3>4. Verdict(b)' = Verdict(b)
      BY <3>2, VerdictValue, VerdictNext
    <3> QED
      BY <2>3, <3>3, <3>4 DEF Moves, Promise!vars, Fate
  <2> QED
    BY <2>5, <2>6, <2>7, <2>8 DEF IInv
<1> QED
  BY <1>1, <1>2 DEF ResetPreflight

LEMMA StartRunKeeps ==
  ASSUME IInv, NEW b \in Batches, StartRun(b)
  PROVE  IInv' /\ \A c \in Batches : Moves(c)
<1>1. /\ writer.pc = "idle" /\ InState(b, {"LOCAL_VALIDATED"}) /\ sends[b] = 0
      /\ "WRITE_REQUESTED" \in BatchStates
  BY DEF IInv, WriteInv, PermitInv, StartRun, InState, BatchStates
<1>2. /\ batch' \in BatchFiles
      /\ batch'[b].state = "WRITE_REQUESTED" /\ batch'[b].base = batch[b].base
      /\ \A c \in Batches \ {b} : batch'[c] = batch[c]
  BY <1>1, SetBatchEffect DEF IInv, StartRun
<1>3. /\ writer' \in Writers
      /\ writer' = [pc |-> "preflight", batch |-> b, read |-> NoRead]
  BY DEF StartRun, Writers, WriterSteps
<1>4. UNCHANGED <<review, attempts, frozen, granted, revisions, checkpoints, environment, cycle,
                  wire, works, sends, spent>>
  BY DEF StartRun, WriterFrame, budgets, platform, Quiet
<1>5. Extended /\ MoreKills
  BY <1>4, StillExtended DEF IInv, MoreKills
<1>6. TypeOK'
  BY <1>2, <1>3, <1>4, <1>5, Retype DEF IInv, TypeOK, ReviewFiles, Cycles, Bounds
<1>7. AttemptInv'
  BY <1>1, <1>2, <1>4 DEF IInv, WriteInv, AttemptInv, InState
<1>8. PermitInv'
  BY <1>1, <1>2, <1>4 DEF IInv, WriteInv, PermitInv, InState, Verified
<1>9. WriterInv' /\ WriterOwnsBatch'
  BY <1>1, <1>2, <1>3, <1>4
     DEF WriterInv, WriterOwnsBatch, InState, BeforeSend, AfterSend, Outcomes
<1>10. CountInv' /\ ReviewInv'
  <2>1. VerifiedRest /\ ~InState(b, Verified)
    BY <1>1, <1>2 DEF VerifiedRest, InState, Verified
  <2> QED
    BY <1>2, <1>4, <1>5, <2>1, CountFrame, ReviewFrame DEF IInv, ReviewRests
<1>11. ASSUME NEW c \in Batches PROVE Moves(c)
  <2>1. CASE c # b
    BY <1>1, <1>2, <1>3, <1>4, <2>1, Stutters DEF Unsent, InState
  <2>2. CASE c = b
    <3>1. Unsent(b) /\ Unsent(b)'
      BY <1>1, <1>2, <1>3, <1>4 DEF Unsent, InState
    <3>2. InState(b, Undecided) /\ InState(b, Undecided)' /\ ~InState(b, {"NONE"})
          /\ ~InState(b, {"NONE"})'
      BY <1>1, <1>2 DEF InState, Undecided
    <3>3. Permit(b)' = Permit(b)
      BY <3>1, <3>2 DEF Permit
    <3>4. Verdict(b)' = Verdict(b)
      BY <3>2, VerdictValue, VerdictNext
    <3> QED
      BY <1>4, <2>2, <3>3, <3>4 DEF Moves, Promise!vars, Fate
  <2> QED
    BY <2>1, <2>2
<1> QED
  BY <1>6, <1>7, <1>8, <1>9, <1>10, <1>11 DEF IInv, WriteInv

LEMMA StartReconcileKeeps ==
  ASSUME IInv, NEW b \in Batches, StartReconcile(b)
  PROVE  IInv' /\ \A c \in Batches : Moves(c)
<1>1. writer.pc = "idle" /\ InState(b, {"WRITE_OUTCOME_UNKNOWN"}) /\ sends[b] = 1
  BY DEF IInv, WriteInv, PermitInv, StartReconcile, Reconcilable, InState
<1>2. /\ writer' \in Writers
      /\ writer' = [pc |-> "reconcile", batch |-> b, read |-> NoRead]
  BY DEF StartReconcile, Writers, WriterSteps
<1>3. TypeOK' /\ AttemptInv' /\ CountInv' /\ ReviewInv'
  BY <1>2, FilesKeep DEF IInv, TypeOK, StartReconcile, platform
<1>4. PermitInv'
  BY DEF IInv, WriteInv, PermitInv, InState, StartReconcile, Untouched, platform
<1>5. WriterInv' /\ WriterOwnsBatch'
  BY <1>1, <1>2
     DEF WriterInv, WriterOwnsBatch, InState, BeforeSend, AfterSend, Outcomes, StartReconcile,
         Untouched, platform
<1>6. ASSUME NEW c \in Batches PROVE Moves(c)
  BY <1>1, <1>2, Stutters DEF Unsent, InState, StartReconcile, Untouched, platform
<1> QED
  BY <1>3, <1>4, <1>5, <1>6 DEF IInv, WriteInv

LEMMA MarkUncertainKeeps ==
  ASSUME IInv, MarkUncertain
  PROVE  IInv' /\ \A b \in Batches : Moves(b)
<1> DEFINE s == IF BaselineStillPresent THEN "WRITE_OUTCOME_UNKNOWN"
                                        ELSE "RECONCILIATION_REQUIRED"
<1>1. CASE FoundLocked
  BY <1>1, WriterLeaves DEF MarkUncertain, FoundLocked
<1>2. CASE /\ SetBatch(writer.batch, s) /\ writer' = Idle
           /\ SaveState(AllowedOrSame(UncertainStatus), StatusSet(UncertainStatus))
           /\ UNCHANGED <<revisions, checkpoints>>
  <2>1. PICK b \in Batches : b = writer.batch
    BY OwnedBatch DEF MarkUncertain
  <2>2. s \in BatchStates \ {"NONE"} /\ s \notin Verified /\ s \in Verdicts
        /\ s \in {"WRITE_OUTCOME_UNKNOWN", "RECONCILIATION_REQUIRED"}
    BY DEF BatchStates, Verified, Verdicts
  <2>3. sends[b] \in {0, 1} /\ (sends[b] = 0 => s = "RECONCILIATION_REQUIRED")
    BY <2>1 DEF IInv, WriteInv, WriterInv, PermitInv, MarkUncertain
  <2>4. UNCHANGED <<attempts, frozen, granted, environment, cycle, wire, works, sends>>
    BY DEF MarkUncertain, WriterFrame, budgets, platform
  <2>5. Extended /\ MoreKills /\ spent' \in Bounds
    BY <1>2, <2>4, StillExtended, SpentEffect DEF IInv, MoreKills, SaveState
  <2>6. /\ WriteInv' /\ batch' \in BatchFiles /\ batch'[b].state = s
        /\ \A c \in Batches \ {b} : batch'[c] = batch[c] /\ Moves(c)
    <3> HIDE DEF s
    <3> QED
      BY <1>2, <2>1, <2>2, <2>3, <2>4, <2>5, WriterCloses DEF MarkUncertain
  <2>7. review' \in ReviewFiles /\ (ReviewRests \/ ReviewLeaves)
    <3>1. review \in ReviewFiles /\ UncertainStatus \in Statuses
          /\ UncertainStatus \notin {"TARGET_UPDATED", "RUNTIME_RETESTING"}
      BY StatusValues DEF IInv, TypeOK, ReviewFiles, UncertainStatus
    <3> QED
      BY <1>2, <3>1 DEF SaveState, StatusSet, ReviewFiles, ReviewRests, ReviewLeaves
  <2>8. CountInv' /\ ReviewInv'
    BY <1>2, <2>1, <2>2, <2>5, <2>6, <2>7, NothingVerified DEF MarkUncertain
  <2>9. TypeOK'
    <3>1. writer' \in Writers
      BY <1>2 DEF Writers, Idle, WriterSteps
    <3> QED
      BY <1>2, <2>4, <2>5, <2>6, <2>7, <3>1, Retype DEF IInv, TypeOK, Cycles
  <2>10. Moves(b)
    <3>1. CASE sends[b] = 1
      BY <2>1, <2>2, <2>4, <2>6, <3>1, Decides DEF MarkUncertain
    <3>2. CASE sends[b] = 0
      <4>1. batch'[b].state = "RECONCILIATION_REQUIRED"
        BY <2>3, <2>6, <3>2
      <4>2. Unsent(b) /\ Unsent(b)'
        BY <2>1, <2>4, <3>2, <4>1 DEF Unsent, InState, MarkUncertain
      <4>3. /\ InState(b, Undecided) /\ ~InState(b, {"NONE"})
            /\ InState(b, {"RECONCILIATION_REQUIRED"})' /\ ~InState(b, {"NONE"})'
        BY <2>1, <4>1, OwnedBatch DEF InState, Undecided, MarkUncertain
      <4>4. Permit(b) = "granted" /\ Permit(b)' = "granted"
        BY <4>2, <4>3 DEF Permit
      <4>5. Verdict(b) = "open" /\ Verdict(b)' = "void"
        BY <2>4, <3>2, <4>3, VerdictValue, VerdictNext
      <4>6. Fate(b)' = Fate(b) /\ sends'[b] = sends[b]
        BY <2>4 DEF Fate
      <4> QED
        BY <4>4, <4>5, <4>6 DEF Moves, Promise!Next, Promise!Abandon
    <3> QED
      BY <2>3, <3>1, <3>2
  <2> QED
    BY <2>6, <2>8, <2>9, <2>10 DEF IInv
<1> QED
  BY <1>1, <1>2 DEF MarkUncertain

LEMMA MarkRejectedKeeps ==
  ASSUME IInv, MarkRejected
  PROVE  IInv' /\ \A b \in Batches : Moves(b)
<1>1. CASE FoundLocked
  BY <1>1, WriterLeaves DEF MarkRejected, FoundLocked
<1>2. CASE /\ SetBatch(writer.batch, "WRITE_REJECTED") /\ writer' = Idle
           /\ SaveState(AllowedOrSame("BLOCKED_PLATFORM_RUNTIME"),
                        StatusSet("BLOCKED_PLATFORM_RUNTIME"))
           /\ UNCHANGED <<revisions, checkpoints>>
  <2>1. PICK b \in Batches : b = writer.batch
    BY OwnedBatch DEF MarkRejected
  <2>2. /\ sends[b] = 1 /\ wire[b] = "rejected"
        /\ "WRITE_REJECTED" \in BatchStates \ {"NONE"} /\ "WRITE_REJECTED" \in Verdicts
    BY <2>1 DEF IInv, WriteInv, WriterInv, MarkRejected, AfterSend, BatchStates, Verdicts
  <2>3. UNCHANGED <<attempts, frozen, granted, environment, cycle, wire, works, sends>>
    BY DEF MarkRejected, WriterFrame, budgets, platform
  <2>4. Extended /\ MoreKills /\ spent' \in Bounds
    BY <1>2, <2>3, StillExtended, SpentEffect DEF IInv, MoreKills, SaveState
  <2>5. /\ WriteInv' /\ batch' \in BatchFiles /\ batch'[b].state = "WRITE_REJECTED"
        /\ \A c \in Batches \ {b} : batch'[c] = batch[c] /\ Moves(c)
    BY <1>2, <2>1, <2>2, <2>3, <2>4, WriterCloses DEF MarkRejected
  <2>6. review' \in ReviewFiles /\ (ReviewRests \/ ReviewLeaves)
    <3>1. review \in ReviewFiles /\ "BLOCKED_PLATFORM_RUNTIME" \in Statuses
      BY StatusValues DEF IInv, TypeOK, ReviewFiles
    <3> QED
      BY <1>2, <3>1 DEF SaveState, StatusSet, ReviewFiles, ReviewRests, ReviewLeaves
  <2>7. CountInv' /\ ReviewInv'
    BY <1>2, <2>1, <2>4, <2>5, <2>6, NothingVerified DEF MarkRejected, Verified
  <2>8. TypeOK'
    <3>1. writer' \in Writers
      BY <1>2 DEF Writers, Idle, WriterSteps
    <3> QED
      BY <1>2, <2>3, <2>4, <2>5, <2>6, <3>1, Retype DEF IInv, TypeOK, Cycles
  <2>9. Moves(b)
    BY <2>1, <2>2, <2>3, <2>5, Decides DEF MarkRejected
  <2> QED
    BY <2>5, <2>7, <2>8, <2>9 DEF IInv
<1> QED
  BY <1>1, <1>2 DEF MarkRejected

-----------------------------------------------------------------------------
(* The confirmation of a write, which is counted first.                      *)
Confirming == writer.pc = "confirm" /\ BudgetReadable /\ CountRevision /\ writer' = Idle

LEMMA ConfirmFacts ==
  ASSUME IInv, NEW b \in Batches, b = writer.batch, Confirming
  PROVE  /\ sends[b] = 1 /\ ~InState(b, Verified)
         /\ writer.read \in 1 .. Latest /\ works[writer.read] = b
         /\ b # Other /\ b # 0
         /\ Cardinality(VerifiedBatches) <= revisions
         /\ spent.kills = 0 => NoConflict /\ Cardinality(VerifiedBatches) = revisions
         /\ revisions \in Nat /\ revisions' \in 0 .. BaseLimit + RevisionExtension + 1
<1>1. /\ sends[b] = 1 /\ writer.read # NoRead /\ works[writer.read] = b
  BY DEF IInv, WriteInv, WriterInv, Confirming, AfterSend
<1>2. ~InState(b, Verified)
  BY OwnedBatch DEF Confirming, InState, Verified
<1>3. writer.read \in 1 .. Latest
  BY <1>1 DEF IInv, TypeOK
<1>4. b # Other /\ b # 0
  BY BatchesAreNat, ValueAssumption
<1>5. /\ Cardinality(VerifiedBatches) <= revisions
      /\ spent.kills = 0 => Cardinality(VerifiedBatches) = revisions
  BY DEF IInv, CountInv, VerifiedIsCounted, VerifiedBatches
<1>6. ASSUME spent.kills = 0 PROVE NoConflict
  <2>1. SUFFICES ASSUME writer.read \in checkpoints PROVE FALSE
    BY DEF NoConflict
  <2>2. writer.read = 1 \/ works[writer.read] \in VerifiedBatches
    BY <1>6, <2>1 DEF IInv, CountInv, CheckpointInv
  <2>3. writer.read # 1
    BY <1>1, <1>4 DEF IInv, CountInv, CheckpointInv
  <2> QED
    BY <1>1, <1>2, <2>2, <2>3 DEF VerifiedBatches
<1>7. revisions \in Nat /\ revisions' \in 0 .. BaseLimit + RevisionExtension + 1
  BY LimitAssumption DEF IInv, TypeOK, Confirming, BudgetReadable, CountRevision
<1> QED
  BY <1>1, <1>2, <1>3, <1>4, <1>5, <1>6, <1>7

(* It goes through, or state.json is not written.                            *)
LEMMA ConfirmedKeeps ==
  ASSUME IInv, Confirming, WriterFrame, UNCHANGED platform,
         checkpoints' = checkpoints \cup {writer.read},
         SetBatch(writer.batch, "READBACK_VERIFIED"), SaveState(Confirmable, ConfirmedReview)
  PROVE  IInv' /\ \A b \in Batches : Moves(b)
<1>1. PICK b \in Batches : b = writer.batch
  BY OwnedBatch DEF Confirming
<1>2. /\ sends[b] = 1 /\ ~InState(b, Verified)
      /\ writer.read \in 1 .. Latest /\ works[writer.read] = b
      /\ b # Other /\ b # 0
      /\ Cardinality(VerifiedBatches) <= revisions
      /\ spent.kills = 0 => NoConflict /\ Cardinality(VerifiedBatches) = revisions
      /\ revisions \in Nat /\ revisions' \in 0 .. BaseLimit + RevisionExtension + 1
  BY <1>1, ConfirmFacts
<1>3. UNCHANGED <<attempts, frozen, granted, environment, cycle, wire, works, sends>>
  BY DEF WriterFrame, budgets, platform
<1>4. Extended /\ MoreKills /\ spent' \in Bounds
  BY <1>3, StillExtended, SpentEffect DEF IInv, MoreKills, SaveState
<1>5. "READBACK_VERIFIED" \in Verified \cap (BatchStates \ {"NONE"}) \cap Verdicts
  BY DEF Verified, BatchStates, Verdicts
<1>6. /\ WriteInv' /\ batch' \in BatchFiles /\ batch'[b].state = "READBACK_VERIFIED"
      /\ \A c \in Batches \ {b} : batch'[c] = batch[c] /\ Moves(c)
  BY <1>1, <1>2, <1>3, <1>4, <1>5, WriterCloses DEF Confirming
<1>7. review' = review \/ review' = ConfirmedReview
  BY DEF SaveState
<1>8. TypeOK'
  <2>1. writer' \in Writers
    BY DEF Confirming, Writers, Idle, WriterSteps
  <2>2. review' \in ReviewFiles
    <3>1. review \in ReviewFiles /\ "TARGET_UPDATED" \in Statuses
      BY StatusValues DEF IInv, TypeOK, ReviewFiles
    <3>2. ConfirmedReview \in ReviewFiles
      BY <1>2, <3>1, ReviewTypes DEF IInv, ConfirmedReview
    <3> QED
      BY <1>7, <3>1, <3>2
  <2>3. checkpoints' \subseteq 1 .. Latest
    BY <1>2 DEF IInv, TypeOK
  <2> QED
    BY <1>2, <1>3, <1>4, <1>6, <2>1, <2>2, <2>3, Retype DEF IInv, TypeOK, Cycles
<1>9. VerifiedBatches' = VerifiedBatches \cup {b}
  BY <1>2, <1>5, <1>6 DEF VerifiedBatches, InState
<1>10. CountInv'
  <2>1. CheckpointInv'
    BY <1>2, <1>3, <1>4, <1>9 DEF IInv, CountInv, CheckpointInv, MoreKills
  <2>2. CheckpointsAreValidated'
    <3>1. \A work \in checkpoints' : works'[work] # Other
      BY <1>2, <1>3 DEF IInv, CountInv, CheckpointsAreValidated
    <3>2. ASSUME NEW c \in Batches, InState(c, Verified)'
          PROVE  \E work \in checkpoints' : works'[work] = c
      <4>1. CASE c = b
        BY <1>2, <1>3, <4>1
      <4>2. CASE c # b
        BY <1>3, <1>6, <3>2, <4>2 DEF IInv, CountInv, CheckpointsAreValidated, InState
      <4> QED
        BY <4>1, <4>2
    <3> QED
      BY <3>1, <3>2 DEF CheckpointsAreValidated
  <2>3. VerifiedIsCounted'
    <3>1. IsFiniteSet(VerifiedBatches) /\ b \notin VerifiedBatches
      BY <1>2, BatchesAreNat, FS_Subset DEF VerifiedBatches
    <3>2. Cardinality(VerifiedBatches') = Cardinality(VerifiedBatches) + 1
      BY <1>9, <3>1, FS_AddElement
    <3>3. Cardinality(VerifiedBatches) \in Nat /\ revisions' = revisions + 1
      BY <3>1, FS_CardinalityType DEF Confirming, CountRevision
    <3>4. /\ Cardinality(VerifiedBatches') <= revisions'
          /\ spent'.kills = 0 => Cardinality(VerifiedBatches') = revisions'
      BY <1>2, <1>4, <3>2, <3>3 DEF MoreKills
    <3> QED
      BY <3>4 DEF VerifiedIsCounted, VerifiedBatches
  <2> QED
    BY <2>1, <2>2, <2>3 DEF CountInv
<1>11. ReviewInv'
  <2>1. CASE review' = review
    BY <1>1, <1>2, <1>4, <1>6, <2>1, ReviewFrame DEF IInv, ReviewRests
  <2>2. CASE review' = ConfirmedReview
    <3>1. review'.status = "TARGET_UPDATED" /\ review'.baseline = writer.read
      BY <2>2 DEF IInv, TypeOK, ConfirmedReview, StatusSet
    <3>2. RetestsTheCandidate'
      BY <1>2, <1>3, <1>5, <1>6, <3>1 DEF RetestsTheCandidate, HasConfirmedCheckpoint, InState
    <3>3. RetestHasBatch'
      BY <1>6 DEF RetestHasBatch, BatchIn, InState
    <3> QED
      BY <3>1, <3>2, <3>3 DEF ReviewInv, RetestInv
  <2> QED
    BY <1>7, <2>1, <2>2
<1>12. Moves(b)
  BY <1>1, <1>2, <1>3, <1>5, <1>6, Decides DEF Confirming
<1> QED
  BY <1>6, <1>8, <1>10, <1>11, <1>12 DEF IInv

(* It is cut before the batch is written, or meets a checkpoint left by one  *)
(* that was.                                                                 *)
LEMMA ConfirmCutKeeps ==
  ASSUME IInv, Confirming, WriterFrame, UNCHANGED platform, UNCHANGED <<batch, review>>,
         \/ KillHappens /\ checkpoints' \in {checkpoints, checkpoints \cup {writer.read}}
         \/ ~NoConflict /\ Quiet /\ UNCHANGED checkpoints
  PROVE  IInv' /\ \A b \in Batches : Moves(b)
<1>1. PICK b \in Batches : b = writer.batch
  BY OwnedBatch DEF Confirming
<1>2. /\ sends[b] = 1
      /\ writer.read \in 1 .. Latest /\ works[writer.read] = b /\ b # Other
      /\ Cardinality(VerifiedBatches) <= revisions
      /\ spent.kills = 0 => NoConflict
      /\ revisions \in Nat /\ revisions' \in 0 .. BaseLimit + RevisionExtension + 1
  BY <1>1, ConfirmFacts
<1>3. UNCHANGED <<attempts, frozen, granted, environment, cycle, wire, works, sends>>
  BY DEF WriterFrame, budgets, platform
<1>4. /\ Extended /\ MoreKills /\ spent' \in Bounds /\ spent'.kills # 0
      /\ checkpoints' \in {checkpoints, checkpoints \cup {writer.read}}
  BY <1>2, <1>3, StillExtended, SpentEffect DEF IInv, MoreKills, Quiet
<1>5. TypeOK'
  <2>1. writer' \in Writers
    BY DEF Confirming, Writers, Idle, WriterSteps
  <2>2. checkpoints' \subseteq 1 .. Latest
    BY <1>2, <1>4 DEF IInv, TypeOK
  <2> QED
    BY <1>2, <1>3, <1>4, <2>1, <2>2, Retype DEF IInv, TypeOK, ReviewFiles, BatchFiles, Cycles
<1>6. WriteInv'
  <2>1. AttemptInv' /\ PermitInv'
    BY <1>3 DEF IInv, WriteInv, AttemptInv, PermitInv, InState
  <2>2. WriterInv' /\ WriterOwnsBatch'
    BY DEF WriterInv, WriterOwnsBatch, Confirming, Idle
  <2> QED
    BY <2>1, <2>2 DEF WriteInv
<1>7. CountInv'
  <2>1. CheckpointInv'
    BY <1>3, <1>4 DEF IInv, CountInv, CheckpointInv
  <2>2. CheckpointsAreValidated'
    BY <1>2, <1>3, <1>4 DEF IInv, CountInv, CheckpointsAreValidated, InState
  <2>3. VerifiedIsCounted'
    <3>1. VerifiedBatches' = VerifiedBatches /\ IsFiniteSet(VerifiedBatches)
      BY BatchesAreNat, FS_Subset DEF VerifiedBatches, InState
    <3>2. Cardinality(VerifiedBatches) \in Nat /\ revisions' = revisions + 1
      BY <3>1, FS_CardinalityType DEF Confirming, CountRevision
    <3>3. Cardinality(VerifiedBatches') <= revisions'
      BY <1>2, <3>1, <3>2
    <3> QED
      BY <1>4, <3>3 DEF VerifiedIsCounted, VerifiedBatches
  <2> QED
    BY <2>1, <2>2, <2>3 DEF CountInv
<1>8. ReviewInv'
  BY <1>4, ReviewFrame DEF IInv, ReviewRests, InState
<1>9. ASSUME NEW c \in Batches PROVE Moves(c)
  <2>1. ~Unsent(c)' \/ Unsent(c)
    BY <1>3 DEF Unsent, InState, Idle, Confirming
  <2>2. Unsent(c) => Unsent(c)'
    BY <1>3 DEF Unsent, InState, Confirming
  <2> QED
    BY <1>3, <2>1, <2>2, Stutters
<1> QED
  BY <1>5, <1>6, <1>7, <1>8, <1>9 DEF IInv

LEMMA ConfirmKeeps ==
  ASSUME IInv, Confirm
  PROVE  IInv' /\ \A b \in Batches : Moves(b)
<1>1. CASE FoundLocked \/ (~BudgetReadable /\ Untouched /\ Quiet)
  BY <1>1, WriterLeaves DEF Confirm, FoundLocked
<1>2. CASE ~FoundLocked /\ BudgetReadable
  <2>1. Confirming
    BY <1>2 DEF Confirm, Confirming
  <2> QED
    BY <1>2, <2>1, ConfirmedKeeps, ConfirmCutKeeps DEF Confirm
<1> QED
  BY <1>1, <1>2 DEF Confirm

-----------------------------------------------------------------------------
(* The runtime cycle.                                                        *)
(* A set of batches that is not empty has a highest one.                     *)
LEMMA HighestIsOne ==
  ASSUME NEW S \in SUBSET Batches, S # {}
  PROVE  Highest(S) \in S
<1> DEFINE last == AttemptLimit + AttemptExtension
           Less == {pair \in Nat \X Nat : pair[1] < pair[2]}
           T == {last - b : b \in S}
<1>1. last \in Nat
  BY LimitAssumption
<1>2. T \subseteq Nat /\ T # {}
  <2>1. \A b \in S : b \in Nat /\ b <= last
    BY <1>1 DEF Batches
  <2>2. \A b \in S : last - b \in Nat
    BY <1>1, <2>1
  <2> QED
    BY <2>2
<1>3. IsWellFoundedOn(Less, Nat)
  BY NatLessThanWellFounded DEF OpToRel
<1> HIDE DEF Less
<1>4. \E x \in T : \A y \in T : ~ (<<y, x>> \in Less)
  BY <1>2, <1>3, WFMin
<1>5. PICK b \in S : \A other \in S : <<last - other, last - b>> \notin Less
  BY <1>4
<1>6. ASSUME NEW other \in S PROVE other <= b
  <2>1. last - other \in Nat /\ last - b \in Nat /\ ~(last - other < last - b)
    BY <1>1, <1>2, <1>5 DEF Less
  <2> QED
    BY <1>1, <2>1 DEF Batches
<1> QED
  BY <1>5, <1>6 DEF Highest

LEMMA RetestEnds ==
  \A status \in Results \cup {"TARGET_UPDATED"} : Allowed("RUNTIME_RETESTING", status)
  BY DEF Allowed, Terminal, Transitions, Results

(* The batch that is retested gets its result.                               *)
LEMMA CloseBatchKeeps ==
  ASSUME IInv, NEW s \in Verified, CloseBatch(Retesting, s), Extended,
         UNCHANGED <<attempts, writer, wire, sends>>
  PROVE  /\ WriteInv' /\ VerifiedRest /\ batch' \in BatchFiles
         /\ \A c \in Batches : Moves(c)
         /\ Retesting /\ BatchIn("RUNTIME_TESTING") # {} => BatchIn(s)' # {}
         /\ ~(Retesting /\ BatchIn("RUNTIME_TESTING") # {}) => batch' = batch
<1>1. CASE Retesting /\ BatchIn("RUNTIME_TESTING") # {}
  <2>1. PICK b \in Batches : b = Highest(BatchIn("RUNTIME_TESTING"))
                             /\ batch[b].state = "RUNTIME_TESTING"
    BY <1>1, HighestIsOne DEF BatchIn, InState
  <2>2. SetBatch(b, s) /\ s \in BatchStates /\ InState(b, Verified)
    BY <1>1, <2>1 DEF CloseBatch, Verified, BatchStates, InState
  <2>3. /\ batch' \in BatchFiles
        /\ batch'[b].state = s /\ batch'[b].base = batch[b].base
        /\ \A c \in Batches \ {b} : batch'[c] = batch[c]
    BY <2>2, SetBatchEffect DEF IInv
  <2>4. WriteInv' /\ VerifiedRest /\ \A c \in Batches : Moves(c)
    BY <2>2, <2>3, VerifiedStays
  <2>5. b \in BatchIn(s)'
    BY <2>3 DEF BatchIn, InState
  <2> QED
    BY <1>1, <2>3, <2>4, <2>5
<1>2. CASE ~(Retesting /\ BatchIn("RUNTIME_TESTING") # {})
  <2>1. batch' = batch
    BY <1>2 DEF CloseBatch
  <2>2. BatchesRest /\ VerifiedRest /\ batch' \in BatchFiles
    BY <2>1 DEF IInv, TypeOK, BatchesRest, VerifiedRest, InState, BatchFiles
  <2>3. WriteInv'
    <3>1. attempts' \in Nat /\ attempts' >= attempts
      BY LimitAssumption DEF IInv, TypeOK
    <3> QED
      BY <2>2, <3>1, WriteFrame DEF IInv
  <2>4. \A c \in Batches : Moves(c)
    BY <2>1, Stutters DEF Unsent, InState
  <2> QED
    BY <1>2, <2>1, <2>2, <2>3, <2>4
<1> QED
  BY <1>1, <1>2

(* What a step of the driver is once its effect on the files is known.       *)
LEMMA DriverKeeps ==
  ASSUME IInv, CycleFrame, WriteInv', VerifiedRest, batch' \in BatchFiles, ReviewInv',
         \A c \in Batches : Moves(c),
         review' \in ReviewFiles, cycle' \in Cycles, environment' \in 0 .. Latest,
         Quiet \/ KillHappens \/ FaultHappens
  PROVE  IInv' /\ \A c \in Batches : Moves(c)
<1>1. Extended /\ MoreKills /\ spent' \in Bounds
  BY StillExtended, SpentEffect DEF IInv, CycleFrame, platform, MoreKills
<1>2. CountInv'
  BY <1>1, CountFrame DEF IInv, CycleFrame
<1>3. TypeOK'
  BY <1>1, Retype DEF IInv, TypeOK, CycleFrame, budgets, platform, Writers
<1> QED
  BY <1>2, <1>3 DEF IInv

ClosesCycle(result) ==
  /\ CloseBatch(Retesting, BatchResult(result))
  /\ \/ Completes(result) /\ review' = CycleEnded(result)
     \/ ~Completes(result) /\ Quiet /\ UNCHANGED review
     \/ KillHappens /\ UNCHANGED review

LEMMA CompleteKeeps ==
  ASSUME IInv, NEW result \in Results, CompleteRuntimeCycle(result)
  PROVE  IInv' /\ \A c \in Batches : Moves(c)
<1>1. /\ Extended /\ UNCHANGED <<attempts, writer, wire, sends, checkpoints>>
      /\ cycle' \in Cycles /\ environment' \in 0 .. Latest
      /\ Quiet \/ KillHappens \/ FaultHappens
  BY StillExtended
     DEF IInv, TypeOK, CompleteRuntimeCycle, CycleFrame, budgets, platform, Cycles, CycleFiles
<1>2. MoreKills
  BY <1>1, SpentEffect DEF IInv, MoreKills
<1>3. review' \in ReviewFiles
  <2>1. review \in ReviewFiles /\ result \in Statuses
    BY StatusValues DEF IInv, TypeOK, ReviewFiles, Results
  <2>2. CycleEnded(result) \in ReviewFiles
    BY <2>1 DEF CycleEnded, StatusSet, ReviewFiles
  <2> QED
    BY <2>1, <2>2 DEF CompleteRuntimeCycle
<1>4. CASE ClosesCycle(result)
  <2>1. BatchResult(result) \in Verified
    BY DEF BatchResult, Verified
  <2>2. /\ WriteInv' /\ VerifiedRest /\ batch' \in BatchFiles
        /\ \A c \in Batches : Moves(c)
        /\ ~(Retesting /\ BatchIn("RUNTIME_TESTING") # {}) => batch' = batch
    BY <1>1, <1>4, <2>1, CloseBatchKeeps DEF ClosesCycle
  <2>3. CASE review' = CycleEnded(result)
    <3>1. ReviewLeaves
      BY <2>3 DEF IInv, TypeOK, CycleEnded, StatusSet, ReviewLeaves, Results
    <3> QED
      BY <1>1, <1>3, <2>2, <3>1, ReviewLeft, DriverKeeps DEF CompleteRuntimeCycle
  <2>4. CASE ~Completes(result) /\ Quiet /\ UNCHANGED review
    <3>1. batch' = batch
      BY <2>2, <2>4, RetestEnds DEF Completes, Retesting
    <3>2. ReviewInv'
      BY <1>1, <1>2, <2>4, <3>1, ReviewFrame DEF IInv, ReviewRests
    <3> QED
      BY <1>1, <1>3, <2>2, <3>2, DriverKeeps DEF CompleteRuntimeCycle
  <2>5. CASE KillHappens /\ UNCHANGED review
    <3>1. ReviewInv'
      BY <1>1, <2>2, <2>5, ReviewKilled DEF IInv, ReviewRests, VerifiedRest
    <3> QED
      BY <1>1, <1>3, <2>2, <3>1, DriverKeeps DEF CompleteRuntimeCycle
  <2> QED
    BY <1>4, <2>3, <2>4, <2>5 DEF ClosesCycle
<1>5. CASE UNCHANGED <<review, batch>>
  <2>1. BatchesRest /\ ReviewRests
    BY <1>5 DEF BatchesRest, ReviewRests
  <2>2. TypeOK'
    BY <1>1, <1>3, <1>5, SpentEffect, Retype
       DEF IInv, TypeOK, CompleteRuntimeCycle, CycleFrame, budgets, platform, BatchFiles, Writers
  <2> QED
    BY <1>1, <1>2, <2>1, <2>2, BesideTheWriter DEF CompleteRuntimeCycle, CycleFrame
<1>6. UNCHANGED <<review, batch>> \/ ClosesCycle(result)
  BY Zenon DEF CompleteRuntimeCycle, ClosesCycle
<1> QED
  BY <1>4, <1>5, <1>6

-----------------------------------------------------------------------------
(* An interrupted retest gives its batch back.                               *)
Interrupts ==
  /\ CloseBatch(Retesting, "READBACK_VERIFIED")
  /\ \/ review' = CycleEnded(InterruptedStatus)
     \/ ~Allowed(review.status, InterruptedStatus) /\ Quiet /\ UNCHANGED review
     \/ KillHappens /\ UNCHANGED review

LEMMA InterruptKeeps ==
  ASSUME IInv, InterruptRuntimeCycle
  PROVE  IInv' /\ \A c \in Batches : Moves(c)
<1>1. /\ Extended /\ UNCHANGED <<attempts, writer, wire, sends, checkpoints>>
      /\ cycle' \in Cycles /\ environment' \in 0 .. Latest
      /\ Quiet \/ KillHappens \/ FaultHappens
  BY StillExtended
     DEF IInv, TypeOK, InterruptRuntimeCycle, CycleFrame, budgets, platform, Cycles, CycleFiles
<1>2. MoreKills
  BY <1>1, SpentEffect DEF IInv, MoreKills
<1>3. review' \in ReviewFiles
  <2>1. review \in ReviewFiles /\ InterruptedStatus \in Statuses
    BY StatusValues DEF IInv, TypeOK, ReviewFiles, InterruptedStatus
  <2>2. CycleEnded(InterruptedStatus) \in ReviewFiles
    BY <2>1 DEF CycleEnded, StatusSet, ReviewFiles
  <2> QED
    BY <2>1, <2>2 DEF InterruptRuntimeCycle
<1>4. CASE Interrupts
  <2>1. "READBACK_VERIFIED" \in Verified
    BY DEF Verified
  <2>2. /\ WriteInv' /\ VerifiedRest /\ batch' \in BatchFiles
        /\ \A c \in Batches : Moves(c)
        /\ Retesting /\ BatchIn("RUNTIME_TESTING") # {} => BatchIn("READBACK_VERIFIED")' # {}
        /\ ~(Retesting /\ BatchIn("RUNTIME_TESTING") # {}) => batch' = batch
    BY <1>1, <1>4, <2>1, CloseBatchKeeps DEF Interrupts
  <2>3. CASE review' = CycleEnded(InterruptedStatus)
    <3>1. /\ review'.status = InterruptedStatus /\ review'.baseline = review.baseline
      BY <2>3 DEF IInv, TypeOK, CycleEnded, StatusSet
    <3>2. ASSUME ~Retesting PROVE ReviewInv'
      <4>1. ReviewLeaves
        BY <3>1, <3>2 DEF ReviewLeaves, InterruptedStatus
      <4> QED
        BY <4>1, ReviewLeft
    <3>3. ASSUME Retesting PROVE ReviewInv'
      <4>1. review'.status = "TARGET_UPDATED"
        BY <3>1, <3>3 DEF InterruptedStatus
      <4>2. works'[review.baseline] = works[review.baseline]
        BY <1>1 DEF IInv, TypeOK, Extended
      <4>3. RetestsTheCandidate'
        BY <1>1, <2>2, <3>1, <3>3, <4>2
           DEF IInv, ReviewInv, RetestsTheCandidate, HasConfirmedCheckpoint, Retesting, VerifiedRest
      <4>4. spent'.kills = 0 => BatchIn("RUNTIME_TESTING") # {}
        BY <1>2, <3>3 DEF IInv, ReviewInv, RetestInv, MoreKills, Retesting
      <4>5. RetestHasBatch'
        BY <2>2, <3>3, <4>4 DEF RetestHasBatch
      <4> QED
        BY <4>1, <4>3, <4>5 DEF ReviewInv, RetestInv
    <3> QED
      BY <1>1, <1>3, <2>2, <3>2, <3>3, DriverKeeps DEF InterruptRuntimeCycle
  <2>4. CASE ~Allowed(review.status, InterruptedStatus) /\ Quiet /\ UNCHANGED review
    <3>1. batch' = batch
      BY <2>2, <2>4, RetestEnds DEF InterruptedStatus, Retesting
    <3>2. ReviewInv'
      BY <1>1, <1>2, <2>4, <3>1, ReviewFrame DEF IInv, ReviewRests
    <3> QED
      BY <1>1, <1>3, <2>2, <3>2, DriverKeeps DEF InterruptRuntimeCycle
  <2>5. CASE KillHappens /\ UNCHANGED review
    <3>1. ReviewInv'
      BY <1>1, <2>2, <2>5, ReviewKilled DEF IInv, ReviewRests, VerifiedRest
    <3> QED
      BY <1>1, <1>3, <2>2, <3>1, DriverKeeps DEF InterruptRuntimeCycle
  <2> QED
    BY <1>4, <2>3, <2>4, <2>5 DEF Interrupts
<1>5. CASE UNCHANGED <<review, batch>>
  <2>1. BatchesRest /\ ReviewRests
    BY <1>5 DEF BatchesRest, ReviewRests
  <2>2. TypeOK'
    BY <1>1, <1>3, <1>5, SpentEffect, Retype
       DEF IInv, TypeOK, InterruptRuntimeCycle, CycleFrame, budgets, platform, BatchFiles, Writers
  <2> QED
    BY <1>1, <1>2, <2>1, <2>2, BesideTheWriter DEF InterruptRuntimeCycle, CycleFrame
<1>6. UNCHANGED <<review, batch>> \/ Interrupts
  BY Zenon DEF InterruptRuntimeCycle, Interrupts
<1> QED
  BY <1>4, <1>5, <1>6

(* A cycle starts from a state that has no candidate, or retests one.        *)
LEMMA PrepareKeeps ==
  ASSUME IInv, PrepareRuntimeCycle
  PROVE  IInv' /\ \A c \in Batches : Moves(c)
<1>1. /\ Extended /\ UNCHANGED <<attempts, writer, wire, sends, checkpoints>>
      /\ cycle' \in Cycles /\ environment' \in 0 .. Latest
      /\ Quiet \/ KillHappens
  <2>1. review.baseline \in 0 .. Latest
    BY DEF IInv, TypeOK
  <2> QED
    BY <2>1, StillExtended
       DEF IInv, TypeOK, PrepareRuntimeCycle, Drive, CycleFrame, budgets, platform, Cycles,
           CycleFiles
<1>2. MoreKills /\ spent' \in Bounds
  BY <1>1, SpentEffect DEF IInv, MoreKills
<1>3. ASSUME NEW status \in {"RUNTIME_TESTING", "RUNTIME_RETESTING"}
      PROVE  /\ CycleStarted(status) \in ReviewFiles
             /\ CycleStarted(status).status = status
             /\ CycleStarted(status).baseline = review.baseline
  BY StatusValues DEF IInv, TypeOK, CycleStarted, StatusSet, ReviewFiles
<1>4. CASE UNCHANGED batch /\ Drive(CycleStarted("RUNTIME_TESTING"))
  <2>1. BatchesRest /\ (ReviewRests \/ ReviewLeaves) /\ review' \in ReviewFiles
    BY <1>3, <1>4 DEF IInv, TypeOK, ReviewFiles, BatchesRest, ReviewRests, ReviewLeaves, Drive
  <2>2. TypeOK'
    BY <1>1, <1>2, <1>4, <2>1, Retype
       DEF IInv, TypeOK, CycleFrame, PrepareRuntimeCycle, budgets, platform, BatchFiles, Writers
  <2> QED
    BY <1>1, <1>2, <2>1, <2>2, BesideTheWriter DEF PrepareRuntimeCycle, CycleFrame
<1>5. CASE /\ review.status = "TARGET_UPDATED"
           /\ BatchIn("READBACK_VERIFIED") # {}
           /\ SetBatch(Highest(BatchIn("READBACK_VERIFIED")), "RUNTIME_TESTING")
           /\ Drive(CycleStarted("RUNTIME_RETESTING"))
  <2>1. PICK b \in Batches : b = Highest(BatchIn("READBACK_VERIFIED"))
                             /\ batch[b].state = "READBACK_VERIFIED"
    BY <1>5, HighestIsOne DEF BatchIn, InState
  <2>2. SetBatch(b, "RUNTIME_TESTING") /\ InState(b, Verified)
        /\ "RUNTIME_TESTING" \in BatchStates \cap Verified
    BY <1>5, <2>1 DEF Verified, BatchStates, InState
  <2>3. /\ batch' \in BatchFiles
        /\ batch'[b].state = "RUNTIME_TESTING" /\ batch'[b].base = batch[b].base
        /\ \A c \in Batches \ {b} : batch'[c] = batch[c]
    BY <2>2, SetBatchEffect DEF IInv
  <2>4. WriteInv' /\ VerifiedRest /\ \A c \in Batches : Moves(c)
    BY <1>1, <2>2, <2>3, VerifiedStays
  <2>5. CASE review' = CycleStarted("RUNTIME_RETESTING")
    <3>1. review'.status = "RUNTIME_RETESTING" /\ review'.baseline = review.baseline
      BY <1>3, <2>5
    <3>2. works'[review.baseline] = works[review.baseline]
      BY <1>1 DEF IInv, TypeOK, Extended
    <3>3. RetestsTheCandidate'
      BY <1>1, <1>5, <2>4, <3>1, <3>2
         DEF IInv, ReviewInv, RetestsTheCandidate, HasConfirmedCheckpoint, VerifiedRest
    <3>4. BatchIn("RUNTIME_TESTING")' # {}
      BY <2>3 DEF BatchIn, InState
    <3>5. ReviewInv'
      BY <3>1, <3>3, <3>4 DEF ReviewInv, RetestHasBatch, RetestInv
    <3>6. review' \in ReviewFiles
      BY <1>3, <2>5
    <3> QED
      BY <1>1, <2>3, <2>4, <3>5, <3>6, DriverKeeps DEF PrepareRuntimeCycle
  <2>6. CASE KillHappens /\ UNCHANGED review
    <3>1. ReviewInv'
      BY <1>1, <2>4, <2>6, ReviewKilled DEF IInv, ReviewRests, VerifiedRest
    <3>2. review' \in ReviewFiles
      BY <2>6 DEF IInv, TypeOK, ReviewFiles
    <3> QED
      BY <1>1, <2>3, <2>4, <3>1, <3>2, DriverKeeps DEF PrepareRuntimeCycle
  <2> QED
    BY <1>5, <2>5, <2>6 DEF Drive
<1> QED
  BY <1>4, <1>5, Zenon DEF PrepareRuntimeCycle

-----------------------------------------------------------------------------
(* The platform.                                                             *)
LEMMA RequestSettles ==
  ASSUME IInv, NEW b \in Batches, NEW fate \in {"landed", "rejected", "lost"},
         wire[b] = "flying", wire' = [wire EXCEPT ![b] = fate], Extended,
         Quiet \/ FaultHappens, Unseen
  PROVE  IInv' /\ \A c \in Batches : Moves(c)
<1>1. wire' \in [Batches -> Wires] /\ wire'[b] = fate
      /\ \A c \in Batches \ {b} : wire'[c] = wire[c]
  BY DEF IInv, TypeOK, Wires
<1>2. MoreKills /\ spent' \in Bounds
  BY SpentEffect DEF IInv, MoreKills
<1>3. UNCHANGED <<review, batch, attempts, frozen, granted, revisions, checkpoints, environment,
                  writer, cycle, sends>>
  BY DEF Unseen, budgets
<1>4. TypeOK'
  BY <1>1, <1>2, <1>3, Retype
     DEF IInv, TypeOK, ReviewFiles, BatchFiles, Writers, Cycles
<1>5. WriteInv'
  <2>1. AttemptInv' /\ WriterOwnsBatch'
    BY <1>3 DEF IInv, WriteInv, AttemptInv, WriterOwnsBatch, InState
  <2>2. PermitInv'
    BY <1>1, <1>3 DEF IInv, WriteInv, PermitInv, InState
  <2>3. WriterInv'
    <3>1. writer.pc \in {"rejected", "reject"} => writer.batch # b
      BY DEF IInv, WriteInv, WriterInv
    <3>2. writer.pc = "confirm" => writer.read \in 1 .. Latest
      BY DEF IInv, TypeOK, WriteInv, WriterInv
    <3> QED
      BY <1>1, <1>3, <3>1, <3>2
         DEF IInv, WriteInv, WriterInv, Extended, BaselineStillPresent, Target
  <2> QED
    BY <2>1, <2>2, <2>3 DEF WriteInv
<1>6. CountInv' /\ ReviewInv'
  BY <1>2, <1>3, CountFrame, ReviewFrame DEF IInv, VerifiedRest, ReviewRests, InState
<1>7. ASSUME NEW c \in Batches PROVE Moves(c)
  <2>1. Unsent(c)' <=> Unsent(c)
    BY <1>3 DEF Unsent, InState
  <2>2. CASE c # b
    BY <1>1, <1>3, <2>1, <2>2, Stutters
  <2>3. CASE c = b
    <3>1. Permit(c)' = Permit(c) /\ Verdict(c)' = Verdict(c) /\ sends'[c] = sends[c]
      BY <1>3, <2>1 DEF Permit, Verdict, InState
    <3>2. Fate(c) = "out"
      BY <2>3 DEF Fate
    <3>3. Fate(c)' \in {"applied", "refused", "lost"}
      <4>1. CASE fate = "landed"
        BY <1>1, <2>3, <4>1 DEF Fate
      <4>2. CASE fate = "rejected"
        BY <1>1, <2>3, <4>2 DEF Fate
      <4>3. CASE fate = "lost"
        BY <1>1, <2>3, <4>3 DEF Fate
      <4> QED
        BY <4>1, <4>2, <4>3
    <3> QED
      BY <3>1, <3>2, <3>3 DEF Moves, Promise!Next, Promise!TakeEffect
  <2> QED
    BY <2>2, <2>3
<1> QED
  BY <1>4, <1>5, <1>6, <1>7 DEF IInv

LEMMA PlatformKeeps ==
  ASSUME IInv, Platform
  PROVE  IInv' /\ \A c \in Batches : Moves(c)
<1>1. ASSUME NEW b \in Batches, Land(b)
      PROVE  IInv' /\ \A c \in Batches : Moves(c)
  <2>1. Extended
    BY <1>1, AppendExtends DEF IInv, Land, Contents
  <2> QED
    BY <1>1, <2>1, RequestSettles DEF Land
<1>2. ASSUME NEW b \in Batches, Misland(b)
      PROVE  IInv' /\ \A c \in Batches : Moves(c)
  <2>1. Extended
    BY <1>2, AppendExtends, StillExtended DEF IInv, Misland, Contents
  <2>2. PICK fate \in {"landed", "rejected", "lost"} : wire' = [wire EXCEPT ![b] = fate]
    BY <1>2 DEF Misland
  <2> QED
    BY <1>2, <2>1, <2>2, RequestSettles DEF Misland
<1>3. CASE EditTarget
  <2>1. Extended
    BY <1>3, AppendExtends DEF IInv, EditTarget, Contents
  <2>2. MoreKills /\ spent' \in Bounds
    BY <1>3, SpentEffect DEF IInv, MoreKills, EditTarget
  <2>3. UNCHANGED <<review, batch, attempts, frozen, granted, revisions, checkpoints,
                    environment, writer, cycle, wire, sends>>
    BY <1>3 DEF EditTarget, Unseen, budgets
  <2>4. TypeOK'
    BY <2>1, <2>2, <2>3, Retype DEF IInv, TypeOK, ReviewFiles, BatchFiles, Writers, Cycles
  <2>5. BatchesRest /\ ReviewRests
    BY <2>3 DEF BatchesRest, ReviewRests
  <2> QED
    BY <2>1, <2>2, <2>3, <2>4, <2>5, BesideTheWriter
<1> QED
  BY <1>1, <1>2, <1>3 DEF Platform

-----------------------------------------------------------------------------
LEMMA StepKeeps ==
  ASSUME IInv, [Next]_vars
  PROVE  IInv' /\ \A c \in Batches : Moves(c)
<1>1. CASE Diagnose
  BY <1>1, SubmitDiagnosisKeeps, RecordEnvironmentKeeps, ProposalKeeps, AuthorizeKeeps
     DEF Diagnose
<1>2. CASE Observe
  BY <1>2, ObserveKeeps, AcceptKeeps, RecordNativeKeeps DEF Observe
<1>3. CASE WriterStep
  BY <1>3, PreflightKeeps, ResetPreflightKeeps, SaveWorkKeeps, AnswerKeeps, ReadBackKeeps,
     ReconcileReadKeeps, ConfirmKeeps, MarkUncertainKeeps, MarkRejectedKeeps DEF WriterStep
<1>4. CASE Driver
  BY <1>4, PrepareKeeps, DriverWaitsKeeps, InterruptKeeps, CompleteKeeps DEF Driver
<1>5. CASE Kill
  BY <1>5, KillWriterKeeps, DriverWaitsKeeps DEF Kill
<1>6. CASE Platform
  BY <1>6, PlatformKeeps
<1>7. CASE \E b \in Batches : StartRun(b) \/ StartReconcile(b)
  BY <1>7, StartRunKeeps, StartReconcileKeeps
<1>8. CASE UNCHANGED vars
  <2>1. /\ UNCHANGED <<review, batch, attempts, frozen, granted, revisions, checkpoints,
                       environment, writer, cycle, wire, works, spent, sends>>
    BY <1>8 DEF vars
  <2>2. Extended /\ BatchesRest /\ ReviewRests /\ MoreKills
    BY <2>1, StillExtended DEF IInv, BatchesRest, ReviewRests, MoreKills
  <2>3. TypeOK'
    BY <2>1, <2>2, Retype
       DEF IInv, TypeOK, ReviewFiles, BatchFiles, Writers, Cycles, Bounds
  <2> QED
    BY <2>1, <2>2, <2>3, BesideTheWriter
<1> QED
  BY <1>1, <1>2, <1>3, <1>4, <1>5, <1>6, <1>7, <1>8 DEF Next

(* The invariant that carries the others: what the batch files, the writer,  *)
(* the checkpoints, the budget and the Review say of each other, whatever    *)
(* commands run, die or fail between one file and the next.                  *)
THEOREM RepairInvariant == Spec => []IInv
<1>1. Init => IInv
  BY InitIInv
<1>2. IInv /\ [Next]_vars => IInv'
  BY StepKeeps
<1> QED
  BY <1>1, <1>2, PTL DEF Spec

(* Every file and every process is always one the code knows.                *)
THEOREM TypeCorrect == Spec => []TypeOK
<1>1. IInv => TypeOK
  BY DEF IInv
<1> QED
  BY <1>1, RepairInvariant, PTL

(* Native observations, cycles and authorizations, which take neither lease, *)
(* never touch the batch of a run or reconcile: confirm, mark and reset find *)
(* it in the state they insist on.                                           *)
THEOREM WriterOwns == Spec => []WriterOwnsBatch
<1>1. IInv => WriterOwnsBatch
  BY DEF IInv, WriteInv
<1> QED
  BY <1>1, RepairInvariant, PTL

(* confirmTargetRepairWrite, cut or repeated, never lets more batches be     *)
(* verified than the session budget counts, and without a kill the two are   *)
(* equal.                                                                    *)
THEOREM VerifiedAreCounted == Spec => []VerifiedIsCounted
<1>1. IInv => VerifiedIsCounted
  BY DEF IInv, CountInv
<1> QED
  BY <1>1, RepairInvariant, PTL

(* No revision of somebody else gets a confirmed checkpoint, and every       *)
(* verified batch keeps one that holds its candidate.                        *)
THEOREM CheckpointsStayValidated == Spec => []CheckpointsAreValidated
<1>1. IInv => CheckpointsAreValidated
  BY DEF IInv, CountInv
<1> QED
  BY <1>1, RepairInvariant, PTL

(* A Review that waits for a retest, or runs it, has the candidate of a      *)
(* verified batch as its baseline and a checkpoint to repair it again.       *)
THEOREM CandidateIsRetested == Spec => []RetestsTheCandidate
<1>1. IInv => RetestsTheCandidate
  BY DEF IInv, ReviewInv
<1> QED
  BY <1>1, RepairInvariant, PTL

(* prepareRuntimeCycle never misses the batch of a retest without a kill.    *)
THEOREM RetestFindsBatch == Spec => []RetestHasBatch
<1>1. IInv => RetestHasBatch
  BY DEF IInv, ReviewInv
<1> QED
  BY <1>1, RepairInvariant, PTL

(* The repair of a target implements OneShotWrite, batch by batch: the       *)
(* permit is spent before the request leaves, the request leaves once, a     *)
(* verdict is final and is a rejection only if the platform rejected.        *)
THEOREM Implements == Spec => KeepsPromise
<1>1. ASSUME Init, NEW b \in Batches PROVE Promise(b)!Init
  <2>1. InState(b, {"NONE"}) /\ sends[b] = 0 /\ wire[b] = "idle"
    BY <1>1 DEF Init, InState
  <2>2. Verdict(b) = "open"
    BY <2>1, VerdictValue DEF InState, Undecided
  <2> QED
    BY <2>1, <2>2 DEF Promise!Init, Permit, Fate
<1>2. IInv /\ [Next]_vars =>
        [\A b \in Batches : UNCHANGED Promise(b)!vars \/ Promise(b)!Next]_<<batch, writer, wire, sends>>
  BY StepKeeps DEF Moves
<1>3. Init => \A b \in Batches : Promise(b)!Init
  BY <1>1
<1> QED
  BY <1>2, <1>3, RepairInvariant, PTL DEF Spec, KeepsPromise
=============================================================================

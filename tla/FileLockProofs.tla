--------------------------- MODULE FileLockProofs ---------------------------
(* Proofs about FileLock, for any set of processes.                          *)
EXTENDS FileLock, TLAPS

Acquired(p) == pc[p] \in {"writing", "holding"}

(* The strengthening: unless a takeover went wrong, a process that has       *)
(* created the lock file and not yet removed it is the file's owner, and the *)
(* owner a contender is about to overtake has ended.                         *)
OwnerInv ==
  /\ ~overtaken => \A p \in Proc : Acquired(p) => file.owner = p
  /\ \A p \in Proc : pc[p] \in {"judging", "unlinking"} => seen[p] \in Proc
  /\ \A p \in Proc : pc[p] = "unlinking" => Dead(seen[p])
  /\ overtaken => \E p \in Proc : Dead(p)

IInv == TypeOK /\ OwnerInv

LEMMA InitIInv == Init => IInv
  BY DEF Init, IInv, TypeOK, OwnerInv, Acquired, Steps, NoFile, LockFile

(* Every variable keeps its type.                                            *)
LEMMA TypeStep == TypeOK /\ [Next]_vars => TypeOK'
<1> SUFFICES ASSUME TypeOK, [Next]_vars PROVE TypeOK'
  OBVIOUS
<1> USE DEF TypeOK, Steps, LockFile, NoFile, Goto
<1>1. ASSUME NEW p \in Proc, Open(p) PROVE TypeOK'
  <2>1. [owner |-> p, written |-> FALSE] \in LockFile
    OBVIOUS
  <2>2. file' \in LockFile \cup {NoFile}
    BY <1>1, <2>1, Zenon DEF Open
  <2>3. pc' \in [Proc -> Steps]
    BY <1>1, Zenon DEF Open
  <2> QED
    BY <1>1, <2>2, <2>3 DEF Open
<1>2. ASSUME NEW p \in Proc, WriteMetadata(p) PROVE TypeOK'
  BY <1>2, NoProcAssumption DEF WriteMetadata
<1>3. ASSUME NEW p \in Proc, WriteFails(p) PROVE TypeOK'
  BY <1>3 DEF WriteFails
<1>4. ASSUME NEW p \in Proc, ReadOwner(p) PROVE TypeOK'
  BY <1>4 DEF ReadOwner
<1>5. ASSUME NEW p \in Proc, JudgeOwner(p) PROVE TypeOK'
  BY <1>5 DEF JudgeOwner
<1>6. ASSUME NEW p \in Proc, Unlink(p) PROVE TypeOK'
  BY <1>6 DEF Unlink
<1>7. ASSUME NEW p \in Proc, Reopen(p) PROVE TypeOK'
  <2>1. [owner |-> p, written |-> FALSE] \in LockFile
    OBVIOUS
  <2>2. file' \in LockFile \cup {NoFile}
    BY <1>7, <2>1, Zenon DEF Reopen
  <2>3. pc' \in [Proc -> Steps]
    BY <1>7, Zenon DEF Reopen
  <2> QED
    BY <1>7, <2>2, <2>3 DEF Reopen
<1>8. ASSUME NEW p \in Proc, Release(p) PROVE TypeOK'
  BY <1>8 DEF Release, FileAfterRelease
<1>9. ASSUME NEW p \in Proc, End(p) PROVE TypeOK'
  BY <1>9 DEF End
<1>10. CASE UNCHANGED vars
  BY <1>10 DEF vars
<1> QED
  BY <1>1, <1>2, <1>3, <1>4, <1>5, <1>6, <1>7, <1>8, <1>9, <1>10
     DEF Next, Step, Takeover

LEMMA OwnerStep == IInv /\ [Next]_vars => OwnerInv'
<1> SUFFICES ASSUME IInv, [Next]_vars PROVE OwnerInv'
  OBVIOUS
<1> USE NoProcAssumption DEF IInv, TypeOK, OwnerInv, Acquired, Dead, Goto, Steps
<1>1. ASSUME NEW p \in Proc, Open(p) PROVE OwnerInv'
  BY <1>1 DEF Open, MayCreate, Locked
<1>2. ASSUME NEW p \in Proc, WriteMetadata(p) PROVE OwnerInv'
  BY <1>2 DEF WriteMetadata, LockFile, NoFile
<1>3. ASSUME NEW p \in Proc, WriteFails(p) PROVE OwnerInv'
  BY <1>3 DEF WriteFails
<1>4. ASSUME NEW p \in Proc, ReadOwner(p) PROVE OwnerInv'
  BY <1>4 DEF ReadOwner, LockFile, NoFile
<1>5. ASSUME NEW p \in Proc, JudgeOwner(p) PROVE OwnerInv'
  BY <1>5 DEF JudgeOwner, OwnerIsDead
<1>6. ASSUME NEW p \in Proc, Unlink(p) PROVE OwnerInv'
  BY <1>6 DEF Unlink, Locked, NoFile
<1>7. ASSUME NEW p \in Proc, Reopen(p) PROVE OwnerInv'
  BY <1>7 DEF Reopen, MayCreate, Locked
<1>8. ASSUME NEW p \in Proc, Release(p) PROVE OwnerInv'
  BY <1>8 DEF Release, FileAfterRelease, NoFile
<1>9. ASSUME NEW p \in Proc, End(p) PROVE OwnerInv'
  BY <1>9 DEF End
<1>10. CASE UNCHANGED vars
  BY <1>10 DEF vars
<1> QED
  BY <1>1, <1>2, <1>3, <1>4, <1>5, <1>6, <1>7, <1>8, <1>9, <1>10
     DEF Next, Step, Takeover

(* The strengthened invariant holds for any set of processes.                *)
THEOREM OwnerInvariant == Spec => []IInv
<1>1. IInv /\ [Next]_vars => IInv'
  BY TypeStep, OwnerStep DEF IInv
<1> QED
  BY InitIInv, <1>1, PTL DEF Spec

(* Mutual exclusion of the callbacks of withFileLock can only be lost to a   *)
(* takeover that unlinks a lock other than the one it judged dead.           *)
THEOREM ExclusionUnlessOvertaken == Spec => []ExclusiveUnlessOvertaken
<1>1. IInv => ExclusiveUnlessOvertaken
  BY DEF IInv, OwnerInv, Acquired, ExclusiveUnlessOvertaken, Exclusive, Holds
<1> QED
  BY <1>1, OwnerInvariant, PTL

(* While no contender has ended, the lock excludes.                          *)
THEOREM ExclusionWithoutDeath == Spec => []ExclusiveWithoutDeath
<1>1. IInv => ExclusiveWithoutDeath
  BY DEF IInv, OwnerInv, Acquired, ExclusiveWithoutDeath, Exclusive, Holds
<1> QED
  BY <1>1, OwnerInvariant, PTL

(* Besides the typing nothing needs to be added here: metadata reaches the   *)
(* path only by the step that makes the owner a holder, and a holder leaves  *)
(* by its death or by an unlink of whatever the path names.                  *)
LEMMA AbandonedStep ==
  TypeOK /\ NoAbandonedLock /\ [Next]_vars => NoAbandonedLock'
<1> SUFFICES ASSUME TypeOK, NoAbandonedLock, [Next]_vars PROVE NoAbandonedLock'
  OBVIOUS
<1> USE NoProcAssumption
    DEF TypeOK, NoAbandonedLock, Locked, Holds, Dead, Goto, Steps, LockFile, NoFile
<1>1. ASSUME NEW p \in Proc, Open(p) PROVE NoAbandonedLock'
  BY <1>1 DEF Open, MayCreate
<1>2. ASSUME NEW p \in Proc, WriteMetadata(p) PROVE NoAbandonedLock'
  BY <1>2 DEF WriteMetadata
<1>3. ASSUME NEW p \in Proc, WriteFails(p) PROVE NoAbandonedLock'
  BY <1>3 DEF WriteFails
<1>4. ASSUME NEW p \in Proc, ReadOwner(p) PROVE NoAbandonedLock'
  BY <1>4 DEF ReadOwner
<1>5. ASSUME NEW p \in Proc, JudgeOwner(p) PROVE NoAbandonedLock'
  BY <1>5 DEF JudgeOwner
<1>6. ASSUME NEW p \in Proc, Unlink(p) PROVE NoAbandonedLock'
  BY <1>6 DEF Unlink
<1>7. ASSUME NEW p \in Proc, Reopen(p) PROVE NoAbandonedLock'
  BY <1>7 DEF Reopen, MayCreate
<1>8. ASSUME NEW p \in Proc, Release(p) PROVE NoAbandonedLock'
  BY <1>8 DEF Release, FileAfterRelease
<1>9. ASSUME NEW p \in Proc, End(p) PROVE NoAbandonedLock'
  BY <1>9 DEF End
<1>10. CASE UNCHANGED vars
  BY <1>10 DEF vars
<1> QED
  BY <1>1, <1>2, <1>3, <1>4, <1>5, <1>6, <1>7, <1>8, <1>9, <1>10
     DEF Next, Step, Takeover

(* A readable lock file belongs to a holder or to a process that has ended,  *)
(* whatever takeovers did to the files of others.                            *)
THEOREM NoLockAbandoned == Spec => []NoAbandonedLock
<1>1. Init => NoAbandonedLock
  BY DEF Init, NoAbandonedLock, Locked, NoFile
<1>2. IInv /\ NoAbandonedLock /\ [Next]_vars => NoAbandonedLock'
  BY AbandonedStep DEF IInv
<1> QED
  BY <1>1, <1>2, OwnerInvariant, PTL DEF Spec
=============================================================================

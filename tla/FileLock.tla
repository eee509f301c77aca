------------------------------ MODULE FileLock ------------------------------
(***************************************************************************)
(* The lock file of src/src/fs/file-lock.js.  Every per-Job, per-Review,    *)
(* per-Refresh, registry and target write lock of the workflow is one of    *)
(* these.  The contenders are CLI processes that share a directory: they    *)
(* interleave at every file-system call, and each may end (exit normally or *)
(* be killed) at any moment.                                                *)
(***************************************************************************)
EXTENDS FiniteSets

CONSTANTS
  Proc,      \* the CLI processes (their pids; a pid is not reused)
  NoProc     \* "no process"

ASSUME NoProcAssumption == NoProc \notin Proc

VARIABLES
  file,      \* the lock file: who created it, and whether its JSON is written
  pc,        \* what each process is about to do
  seen,      \* the owner a contender read from the lock file
  overtaken  \* history: a takeover removed a lock other than the one it judged

vars == <<file, pc, seen, overtaken>>

LockFile == [owner : Proc, written : BOOLEAN]
NoFile == [owner |-> NoProc, written |-> FALSE]
Locked == file.owner # NoProc

Steps == {"idle", "writing", "holding", "inspecting", "judging",
          "unlinking", "retrying", "dead"}

TypeOK ==
  /\ file \in LockFile \cup {NoFile}
  /\ pc \in [Proc -> Steps]
  /\ seen \in [Proc -> Proc \cup {NoProc}]
  /\ overtaken \in BOOLEAN

Goto(p, step) == pc' = [pc EXCEPT ![p] = step]

Init ==
  /\ file = NoFile
  /\ pc = [p \in Proc |-> "idle"]
  /\ seen = [p \in Proc |-> NoProc]
  /\ overtaken = FALSE

-----------------------------------------------------------------------------
(* The 'wx' flag of open.                                                    *)
CreateAnyway == TRUE                      \* mutant: the 'wx' flag is lost
MayCreate == ~Locked

(* What process.kill(pid, 0) tells of the owner that was read.               *)
NoOwnerIsDead(p) == FALSE                 \* mutant: ESRCH is not recognised
OwnerIsDead(p) == pc[seen[p]] = "dead"

(* What the path names after releaseFileLock.                                *)
FileAfterCloseOnly == file                \* mutant: the unlink is forgotten
FileAfterRelease == NoFile

(* fs.openSync(lockPath, 'wx'): creates the file or fails with EEXIST.  The  *)
(* first failure leads to an inspection of the owner, the second to a throw. *)
Open(p) ==
  /\ pc[p] = "idle"
  /\ \/ /\ MayCreate
        /\ file' = [owner |-> p, written |-> FALSE]
        /\ Goto(p, "writing")
     \/ /\ ~MayCreate
        /\ Goto(p, "inspecting")
        /\ UNCHANGED file
  /\ UNCHANGED <<seen, overtaken>>

Reopen(p) ==
  /\ pc[p] = "retrying"
  /\ \/ /\ MayCreate
        /\ file' = [owner |-> p, written |-> FALSE]
        /\ Goto(p, "writing")
     \/ /\ ~MayCreate
        /\ Goto(p, "idle")
        /\ UNCHANGED file
  /\ UNCHANGED <<seen, overtaken>>

(* fs.writeFileSync(handle, metadata): writes through the descriptor, hence  *)
(* into this process's own file even when the path now names another one.   *)
WriteMetadata(p) ==
  /\ pc[p] = "writing"
  /\ file' = IF file.owner = p THEN [file EXCEPT !.written = TRUE] ELSE file
  /\ Goto(p, "holding")
  /\ UNCHANGED <<seen, overtaken>>

(* The metadata write fails (disk full): acquireFileLock throws, the empty   *)
(* file stays behind.                                                        *)
WriteFails(p) ==
  /\ pc[p] = "writing"
  /\ Goto(p, "idle")
  /\ UNCHANGED <<file, seen, overtaken>>

(* lockOwnerIsDead, first half: read and parse the file.  A missing or empty *)
(* file and one's own pid all count as "not dead", and the caller throws.    *)
ReadOwner(p) ==
  /\ pc[p] = "inspecting"
  /\ IF file.written /\ file.owner # p
       THEN /\ seen' = [seen EXCEPT ![p] = file.owner]
            /\ Goto(p, "judging")
       ELSE /\ Goto(p, "idle")
            /\ UNCHANGED seen
  /\ UNCHANGED <<file, overtaken>>

(* lockOwnerIsDead, second half: process.kill(pid, 0) fails with ESRCH.      *)
JudgeOwner(p) ==
  /\ pc[p] = "judging"
  /\ Goto(p, IF OwnerIsDead(p) THEN "unlinking" ELSE "idle")
  /\ UNCHANGED <<file, seen, overtaken>>

(* fs.unlinkSync(lockPath) of the takeover: removes whatever is there now.   *)
Unlink(p) ==
  /\ pc[p] = "unlinking"
  /\ file' = NoFile
  /\ overtaken' = (overtaken \/ (Locked /\ file.owner # seen[p]))
  /\ Goto(p, "retrying")
  /\ UNCHANGED seen

(* releaseFileLock: close, then unlink by path.                              *)
Release(p) ==
  /\ pc[p] = "holding"
  /\ file' = FileAfterRelease
  /\ Goto(p, "idle")
  /\ UNCHANGED <<seen, overtaken>>

(* A process ends, normally when idle, killed anywhere else.                 *)
End(p) ==
  /\ pc[p] # "dead"
  /\ Goto(p, "dead")
  /\ UNCHANGED <<file, seen, overtaken>>

Takeover(p) == ReadOwner(p) \/ JudgeOwner(p) \/ Unlink(p) \/ Reopen(p)

Step(p) ==
  \/ Open(p)
  \/ WriteMetadata(p)
  \/ WriteFails(p)
  \/ Takeover(p)
  \/ Release(p)
  \/ End(p)

Next == \E p \in Proc : Step(p)

Spec == Init /\ [][Next]_vars

(* Commands for the same Job keep being issued (Open), a critical section    *)
(* ends (Release), and a process that runs takes its next step.  Nothing     *)
(* forces a write to fail or a process to end.                               *)
Fairness ==
  \A p \in Proc : WF_vars(Open(p) \/ WriteMetadata(p) \/ Takeover(p) \/ Release(p))

FairSpec == Spec /\ Fairness

-----------------------------------------------------------------------------
Holds(p) == pc[p] = "holding"
Dead(p) == pc[p] = "dead"
Exclusive == \A p, q \in Proc : Holds(p) /\ Holds(q) => p = q

(* Two processes are inside withFileLock's callback at once only after a     *)
(* takeover has unlinked a lock other than the one it judged dead: the check *)
(* and the unlink of acquireFileLock are separate calls.                     *)
ExclusiveUnlessOvertaken == ~overtaken => Exclusive

(* As long as every process that ever contended is still running, the lock   *)
(* excludes: ESRCH is the only way into the takeover.                        *)
ExclusiveWithoutDeath == (\A p \in Proc : ~Dead(p)) => Exclusive

(* A lock file with metadata belongs to a holder or to a process that ended: *)
(* an acquisition that throws and a release leave no readable lock behind,   *)
(* even when takeovers have mixed up whose file is whose.                    *)
NoAbandonedLock ==
  Locked /\ file.written => Holds(file.owner) \/ Dead(file.owner)

(* A readable lock whose owner ended does not stay while anyone is left to   *)
(* contend for it.                                                           *)
DeadOwnerReclaimed ==
  \A p \in Proc :
    (file = [owner |-> p, written |-> TRUE] /\ Dead(p))
      ~> (file.owner # p \/ \A q \in Proc : Dead(q))

(* "JobStore reclaims a dead-process operation lease but not a live lease"    *)
(* (src/test/job-store.test.js:91): no other process removes the lock of a   *)
(* process that holds it.                                                    *)
LiveLeaseNotReclaimed ==
  [][\A p \in Proc : Holds(p) /\ file.owner = p /\ Holds(p)' => file'.owner = p]_vars
=============================================================================

------------------------- MODULE ExplorationProofs -------------------------
(* Proofs about Exploration, for any plans, controls, limits and bounds.     *)
EXTENDS Exploration, SequenceTheorems, TLAPS

-----------------------------------------------------------------------------
(* What the operators of the crawl return.                                   *)

(* Paths of the claimed plan; none is queued beyond the authorized depth.    *)
QueuePaths ==
  {path \in [seed : 0 .. Len(Seeds[claim]), keys : KeyLists] : Depth(path) <= MaxDepth}

Total(c) == Len(c.results) + Len(c.queue)

(* What holds of every checkpoint: its counters are within the limits, and   *)
(* a path was only ever lost to a queue that is full since.                  *)
CrawlOK(c) ==
  /\ c \in [queue : Seq(QueuePaths), results : Seq(Results),
            actions : 0 .. MaxActions, found : Nat]
  /\ Len(c.results) <= MaxStates
  /\ Total(c) <= c.found
  /\ Total(c) < c.found => QueueLimit <= Total(c)
  /\ Total(c) <= QueueLimit \/ Total(c) <= Len(RootQueue)

LEMMA Limits ==
  /\ MaxStates \in Nat /\ MaxStates > 0 /\ MaxActions \in Nat /\ MaxActions > 0
  /\ MaxDepth \in Nat /\ QueueLimit \in Nat /\ QueueLimit = MaxStates * 4
  BY LimitAssumption DEF QueueLimit

LEMMA KeyListsAreShort == KeyLists = {s \in Seq(Keys) : Len(s) <= MaxDepth}
<1>1. ASSUME NEW s \in KeyLists PROVE s \in Seq(Keys) /\ Len(s) <= MaxDepth
  <2>1. PICK n \in 0 .. MaxDepth : s \in [1 .. n -> Keys]
    BY DEF KeyLists
  <2> QED
    BY <2>1, SeqDef, LenProperties, Limits
<1>2. ASSUME NEW s \in Seq(Keys), Len(s) <= MaxDepth PROVE s \in KeyLists
  BY <1>2, LenProperties, Limits DEF KeyLists
<1> QED
  BY <1>1, <1>2

LEMMA SeedsOfClaim ==
  ASSUME claim \in Plans
  PROVE  Seeds[claim] \in Seq(0 .. MaxDepth) /\ Len(Seeds[claim]) \in 0 .. MaxSeeds
<1>1. Seeds[claim] \in Seq(0 .. MaxDepth)
  BY SeedAssumption
<1>2. Len(Seeds[claim]) \in Nat
  BY <1>1, LenProperties
<1>3. Len(Seeds[claim]) <= MaxSeeds
  BY SeedAssumption, Zenon
<1>4. \A n \in Nat : n <= MaxSeeds => n \in 0 .. MaxSeeds
  BY DEF MaxSeeds
<1> QED
  BY <1>1, <1>2, <1>3, <1>4, Zenon

LEMMA PathFacts ==
  ASSUME claim \in Plans, NEW path \in QueuePaths
  PROVE  /\ path \in Paths
         /\ path.keys \in Seq(Keys) /\ Len(path.keys) \in 0 .. MaxDepth
         /\ SeedActions(path) \in 0 .. MaxDepth
         /\ Depth(path) = SeedActions(path) + Len(path.keys)
         /\ Increment(path) \in 0 .. MaxDepth
<1>1. path.seed \in 0 .. Len(Seeds[claim]) /\ path.keys \in KeyLists
  BY DEF QueuePaths
<1>2. path \in Paths
  <2>1. \A i \in 0 .. Len(Seeds[claim]) : i \in 0 .. MaxSeeds
    <3> DEFINE n == Len(Seeds[claim])
    <3>1. n \in 0 .. MaxSeeds
      BY SeedsOfClaim
    <3> HIDE DEF n
    <3>2. \A i \in 0 .. n : i \in 0 .. MaxSeeds
      BY <3>1 DEF MaxSeeds
    <3> QED
      BY <3>2 DEF n
  <2> QED
    BY <2>1 DEF QueuePaths, Paths
<1>3. path.keys \in Seq(Keys) /\ Len(path.keys) \in 0 .. MaxDepth
  BY <1>1, KeyListsAreShort, LenProperties, Limits
<1>4. SeedActions(path) \in 0 .. MaxDepth
  BY <1>1, SeedsOfClaim, Limits, ElementOfSeq DEF SeedActions
<1>5. Increment(path) \in 0 .. MaxDepth
  BY <1>3, <1>4, Limits, EmptySeq DEF Increment
<1> QED
  BY <1>2, <1>3, <1>4, <1>5 DEF Depth

LEMMA RootFacts ==
  ASSUME claim \in Plans
  PROVE  RootQueue \in Seq(QueuePaths) /\ Len(RootQueue) = Len(Seeds[claim]) + 1
<1> DEFINE e(i) == [seed |-> i - 1, keys |-> <<>>]
<1>1. Len(Seeds[claim]) \in Nat
  BY SeedsOfClaim, LenProperties
<1>2. <<>> \in KeyLists
  BY KeyListsAreShort, Limits
<1>3. ASSUME NEW i \in 1 .. Len(Seeds[claim]) + 1 PROVE e(i) \in QueuePaths
  <2>1. e(i).seed \in 0 .. Len(Seeds[claim])
    BY <1>1
  <2>2. SeedActions(e(i)) \in 0 .. MaxDepth
    BY <1>1, <2>1, SeedsOfClaim, Limits, ElementOfSeq DEF SeedActions
  <2>3. Depth(e(i)) <= MaxDepth
    BY <2>2, Limits DEF Depth
  <2> QED
    BY <2>1, <2>3, <1>2 DEF QueuePaths
<1>4. RootQueue \in [1 .. Len(Seeds[claim]) + 1 -> QueuePaths]
  BY <1>3 DEF RootQueue
<1> QED
  BY <1>1, <1>4, SeqDef, LenProperties

LEMMA FirstIsOK == ASSUME claim \in Plans PROVE CrawlOK(FirstCheckpoint)
<1>1. Len(RootQueue) \in Nat
  BY RootFacts, LenProperties
<1>2. FirstCheckpoint.queue = RootQueue /\ FirstCheckpoint.results = <<>>
      /\ FirstCheckpoint.actions = 0 /\ FirstCheckpoint.found = Len(RootQueue)
  BY DEF FirstCheckpoint
<1>3. FirstCheckpoint \in [queue : Seq(QueuePaths), results : Seq(Results),
                          actions : 0 .. MaxActions, found : Nat]
  BY <1>1, RootFacts, Limits DEF FirstCheckpoint
<1>4. Total(FirstCheckpoint) = Len(RootQueue)
  BY <1>1, <1>2 DEF Total
<1> QED
  BY <1>1, <1>2, <1>3, <1>4, Limits DEF CrawlOK

LEMMA FirstIsOKNext == (claim \in Plans => CrawlOK(FirstCheckpoint))'
<1>1. claim \in Plans => CrawlOK(FirstCheckpoint)
  BY FirstIsOK
<1> QED
  BY <1>1, PTL

LEMMA ChildrenAreQueueable ==
  ASSUME claim \in Plans, NEW path \in QueuePaths, MayExpand(path),
         NEW pairs \in Offers(path)
  PROVE  Children(path, pairs) \in Seq(QueuePaths)
<1> DEFINE e(i) == [seed |-> path.seed, keys |-> Append(path.keys, pairs[i])]
<1>1. PICK n \in 0 .. MaxPairs : pairs \in [1 .. n -> Unfollowed(path)]
  BY DEF Offers
<1>2. ASSUME NEW i \in 1 .. n PROVE e(i) \in QueuePaths
  <2>1. pairs[i] \in Keys
    BY <1>1 DEF Unfollowed
  <2>2. e(i).keys \in Seq(Keys) /\ Len(e(i).keys) = Len(path.keys) + 1
    BY <2>1, PathFacts, AppendProperties
  <2>3. SeedActions(e(i)) = SeedActions(path)
    BY DEF SeedActions
  <2>4. Depth(e(i)) = Depth(path) + 1 /\ Depth(e(i)) <= MaxDepth
    <3> HIDE DEF e
    <3>1. Depth(e(i)) = SeedActions(path) + Len(path.keys) + 1
      BY <2>2, <2>3, PathFacts, Limits DEF Depth
    <3> QED
      BY <3>1, PathFacts, Limits DEF MayExpand
  <2>5. e(i).keys \in KeyLists
    BY <2>2, <2>3, <2>4, PathFacts, KeyListsAreShort, Limits DEF Depth
  <2> QED
    BY <2>4, <2>5 DEF QueuePaths
<1>3. Children(path, pairs) \in [1 .. n -> QueuePaths]
  BY <1>1, <1>2 DEF Children
<1> QED
  BY <1>3, SeqDef, ExplorationBounds

(* One more path, within the limits, leaves a crawl as it must be.           *)
LEMMA CrawlKeeps ==
  ASSUME claim \in Plans, NEW c, CrawlOK(c), c.queue # <<>>,
         Len(c.results) < MaxStates,
         c.actions + Increment(Head(c.queue)) <= MaxActions,
         NEW result \in PathStatuses, NEW expands \in BOOLEAN,
         NEW pairs \in Offers(Head(c.queue)),
         expands => MayExpand(Head(c.queue))
  PROVE  /\ CrawlOK(Crawl(c, result, expands, pairs))
         /\ \E r \in Results :
              Crawl(c, result, expands, pairs).results = Append(c.results, r)
<1> DEFINE path == Head(c.queue)
           q == Len(c.queue)
           t == Len(Tail(c.queue))
           s == Len(c.results)
           states == s + 1
           room == Room(Tail(c.queue), states)
           all == IF expands THEN Children(path, pairs) ELSE <<>>
           kept == IF Len(all) <= room THEN all ELSE SubSeq(all, 1, room)
           d == Crawl(c, result, expands, pairs)
           r == [path |-> path, status |-> result]
<1>1. c.queue \in Seq(QueuePaths) /\ c.results \in Seq(Results)
      /\ c.actions \in 0 .. MaxActions /\ c.found \in Nat
  BY DEF CrawlOK
<1>2. /\ path \in QueuePaths /\ Tail(c.queue) \in Seq(QueuePaths)
      /\ q \in Nat /\ s \in Nat /\ t \in Nat /\ t = q - 1
  BY <1>1, HeadTailProperties, LenProperties
<1>3. all \in Seq(QueuePaths) /\ Len(all) \in Nat
  <2>1. all \in Seq(QueuePaths)
    BY <1>2, ChildrenAreQueueable, EmptySeq
  <2> HIDE DEF all
  <2> QED
    BY <2>1, LenProperties
<1>4. room \in Nat
      /\ (t + states >= QueueLimit => room = 0)
      /\ (t + states < QueueLimit => room = QueueLimit - t - states)
  <2>1. room = IF t + states >= QueueLimit THEN 0 ELSE QueueLimit - t - states
    BY DEF Room
  <2>2. t \in Nat /\ states \in Nat
    BY <1>2
  <2> HIDE DEF room, t, states
  <2> QED
    BY <2>1, <2>2, Limits
<1>5. kept \in Seq(QueuePaths) /\ Len(kept) \in Nat
      /\ (Len(all) <= room => Len(kept) = Len(all))
      /\ (Len(all) > room => Len(kept) = room)
  <2> HIDE DEF all, room
  <2>1. CASE Len(all) <= room
    BY <2>1, <1>3, <1>4
  <2>2. CASE ~(Len(all) <= room)
    <3>1. room < Len(all) /\ kept = SubSeq(all, 1, room)
      BY <2>2, <1>3, <1>4
    <3>2. \A i \in 1 .. room : all[i] \in QueuePaths
      BY <3>1, <1>3, <1>4, ElementOfSeq
    <3>3. SubSeq(all, 1, room) \in Seq(QueuePaths)
          /\ Len(SubSeq(all, 1, room)) = IF 1 <= room THEN room - 1 + 1 ELSE 0
      BY <3>2, <1>4, SubSeqProperties
    <3>4. Len(kept) = room
      BY <3>1, <3>3, <1>4
    <3> QED
      BY <3>1, <3>3, <3>4, <1>3, <1>4
  <2> QED
    BY <2>1, <2>2
<1>6. d = [queue |-> Tail(c.queue) \o kept, results |-> Append(c.results, r),
           actions |-> c.actions + Increment(path), found |-> c.found + Len(all)]
  BY DEF Crawl
<1>7. r \in Results
  BY <1>2, PathFacts DEF Results, PathStatuses, PathStatus
<1>8. d.queue \in Seq(QueuePaths) /\ Len(d.queue) = t + Len(kept)
  <2> HIDE DEF kept
  <2> QED
    BY <1>2, <1>5, <1>6, ConcatProperties
<1>9. d.results \in Seq(Results) /\ Len(d.results) = states
  BY <1>1, <1>6, <1>7, AppendProperties
<1>10. d.actions \in 0 .. MaxActions
  <2> DEFINE a == c.actions
             n == Increment(path)
  <2>1. d.actions = a + n /\ a \in 0 .. MaxActions /\ a + n <= MaxActions
    BY <1>1, <1>6
  <2>2. n \in 0 .. MaxDepth
    BY <1>2, PathFacts
  <2> HIDE DEF a, n, d
  <2> QED
    BY <2>1, <2>2, Limits
<1>11. d.found = c.found + Len(all) /\ d.found \in Nat
  BY <1>1, <1>3, <1>6
<1>12. d \in [queue : Seq(QueuePaths), results : Seq(Results),
               actions : 0 .. MaxActions, found : Nat]
  <2> HIDE DEF kept, all, r, path
  <2> QED
    BY <1>6, <1>8, <1>9, <1>10, <1>11, Zenon
<1> HIDE DEF kept, all, room, d, q, s, t
<1>13. Total(c) = s + q /\ Total(d) = states + (t + Len(kept))
  BY <1>8, <1>9 DEF Total, s, q
<1>14. Len(RootQueue) \in Nat
  BY RootFacts, LenProperties
<1>15. /\ Total(c) <= c.found
       /\ Total(c) < c.found => QueueLimit <= Total(c)
       /\ Total(c) <= QueueLimit \/ Total(c) <= Len(RootQueue)
  BY DEF CrawlOK
<1>16. Total(d) <= d.found /\ (Total(d) < d.found => QueueLimit <= Total(d))
       /\ (Total(d) <= QueueLimit \/ Total(d) <= Len(RootQueue))
  BY <1>1, <1>2, <1>3, <1>4, <1>5, <1>11, <1>13, <1>14, <1>15, Limits
<1>17. Len(d.results) <= MaxStates
  BY <1>2, <1>9, Limits DEF s
<1>18. CrawlOK(d)
  BY <1>12, <1>16, <1>17 DEF CrawlOK
<1>19. d.results = Append(c.results, r)
  BY <1>6
<1> QED
  BY <1>7, <1>18, <1>19 DEF d

-----------------------------------------------------------------------------
(* The inductive invariant.                                                  *)

Costly(c) == c.queue # <<>> /\ c.actions + Increment(Head(c.queue)) > MaxActions

(* A runner that starts from here runs no path.                              *)
Stopped(c) ==
  \/ c.queue = <<>> \/ Costly(c)
  \/ Crawled(c) >= MaxStates \/ c.actions >= MaxActions \/ "duration" \in stale

(* The files: nothing but the authorization before a plan is READY, and      *)
(* afterwards a checkpoint, if any, that can be resumed.                     *)
FilesInv ==
  /\ status = "NONE" =>
       pc = "idle" /\ checkpoint = Nothing /\ report = Nothing /\ sequence = 0
  /\ status # "NONE" => claim \in Plans /\ CrawlOK(ResumedCrawl)

(* The runner's copy: what it would load from disk, one path ahead of it,    *)
(* or that without the costly path it has stopped at.                        *)
RunnerInv ==
  /\ pc = "loop" => crawl = ResumedCrawl
  /\ pc = "checkpoint" =>
       /\ CrawlOK(crawl)
       /\ \E r \in Results : crawl.results = Append(ResumedCrawl.results, r)
  /\ pc = "finish" =>
       /\ Stopped(ResumedCrawl)
       /\ crawl.results = ResumedCrawl.results
       /\ \/ crawl.queue = ResumedCrawl.queue
          \/ Costly(ResumedCrawl) /\ crawl.queue = Tail(ResumedCrawl.queue)

(* A report, whether or not its completion came through, tells the paths of  *)
(* the checkpoint, which is final; a report of parity has run all but one.   *)
AllMatched(results) == \A i \in DOMAIN results : results[i].status = "MATCHED"
NothingButCostly(c) == c.queue = <<>> \/ (Costly(c) /\ Len(c.queue) = 1)

ReportInv ==
  report # Nothing =>
    /\ pc # "checkpoint" /\ Stopped(ResumedCrawl)
    /\ report.results = ResumedCrawl.results
    /\ Parity => /\ checkpoint # Nothing
                 /\ AllMatched(report.results)
                 /\ NothingButCostly(ResumedCrawl)

IInv ==
  TypeOK /\ FilesInv /\ RunnerInv /\ ReportInv /\ SequenceFollows /\ RepeatsOnlyCutPaths

LEMMA InitIInv == Init => IInv
<1> SUFFICES ASSUME Init PROVE IInv
  OBVIOUS
<1>1. NoCrawl \in Crawls
  BY DEF NoCrawl, Crawls
<1>2. TypeOK
  <2>1. 0 \in 0 .. MaxFaults /\ 0 \in 0 .. MaxKills
    BY ExplorationBounds
  <2>2. spent \in [faults : 0 .. MaxFaults, kills : 0 .. MaxKills]
    BY <2>1, Zenon DEF Init
  <2> QED
    BY <1>1, <2>2 DEF Init, TypeOK, Statuses
<1>3. FilesInv /\ RunnerInv /\ ReportInv /\ SequenceFollows
  BY DEF Init, FilesInv, RunnerInv, ReportInv, SequenceFollows
<1>4. RepeatsOnlyCutPaths
  BY DEF Init, RepeatsOnlyCutPaths
<1> QED
  BY <1>2, <1>3, <1>4 DEF IInv

(* What depends on the claimed plan and on the checkpoint stays with them.   *)
LEMMA SamePlan ==
  ASSUME claim' = claim
  PROVE  /\ FirstCheckpoint' = FirstCheckpoint
         /\ \A c : CrawlOK(c)' <=> CrawlOK(c)
         /\ \A c : Costly(c)' <=> Costly(c)
<1>1. QueuePaths' = QueuePaths /\ RootQueue' = RootQueue
  BY DEF RootQueue, QueuePaths, Depth, SeedActions
<1>2. \A c : CrawlOK(c)' <=> CrawlOK(c)
  BY <1>1 DEF CrawlOK, Total
<1>3. \A c : Costly(c)' <=> Costly(c)
  BY DEF Costly, Increment, SeedActions
<1> QED
  BY <1>1, <1>2, <1>3 DEF FirstCheckpoint

LEMMA SameCheckpoint ==
  ASSUME claim' = claim, checkpoint' = checkpoint
  PROVE  ResumedCrawl' = ResumedCrawl
  BY SamePlan DEF ResumedCrawl

LEMMA NewCheckpoint ==
  ASSUME Numbered \in Checkpoints, checkpoint' = Numbered
  PROVE  checkpoint' # Nothing /\ ResumedCrawl' = crawl /\ checkpoint'.crawl = crawl
         /\ checkpoint'.sequence = sequence + 1
<1>1. checkpoint' # Nothing
  BY NothingAssumption
<1> QED
  BY <1>1 DEF ResumedCrawl, Numbered

(* A resumable crawl is well typed.                                          *)
LEMMA OKIsCrawl ==
  ASSUME claim \in Plans, NEW c, CrawlOK(c)
  PROVE  /\ c \in Crawls /\ c.queue \in Seq(QueuePaths) /\ c.queue \in Seq(Paths)
         /\ c.results \in Seq(Results) /\ Len(c.results) \in Nat /\ Len(c.queue) \in Nat
         /\ c.actions \in Nat /\ c.actions <= MaxActions /\ c.found \in Nat
<1>1. c \in [queue : Seq(QueuePaths), results : Seq(Results),
             actions : 0 .. MaxActions, found : Nat]
  BY DEF CrawlOK
<1>2. Seq(QueuePaths) \subseteq Seq(Paths)
  BY PathFacts, SeqMonotonic
<1>3. \A n \in 0 .. MaxActions : n \in Nat /\ n <= MaxActions
  BY Limits
<1>4. c \in Crawls
  BY <1>1, <1>2, <1>3, Zenon DEF Crawls
<1> QED
  BY <1>1, <1>2, <1>3, <1>4, LenProperties

(* A crawl at hand can be numbered and written.                              *)
LEMMA NumberedIsCheckpoint == TypeOK => Numbered \in Checkpoints
  BY DEF TypeOK, Numbered, Checkpoints

LEMMA ReportIsReport == TypeOK => Report \in Reports
<1> SUFFICES ASSUME TypeOK PROVE Report \in Reports
  OBVIOUS
<1>1. crawl.results \in Seq(Results)
  BY DEF TypeOK, Crawls
<1>2. Verdict \in Verdicts
  BY DEF Verdict, Verdicts
<1>3. (~QueueExhausted) \in BOOLEAN
  OBVIOUS
<1> QED
  BY <1>1, <1>2, <1>3, Zenon DEF Report, Reports

-----------------------------------------------------------------------------
(* A claimed plan stays the plan, and only the step after a path moves the   *)
(* checkpoint.                                                               *)
LEMMA PlanStays ==
  ASSUME IInv, [Next]_vars, status # "NONE"
  PROVE  claim' = claim /\ status' # "NONE" /\ claim \in Plans /\ CrawlOK(ResumedCrawl)
<1>1. claim \in Plans /\ claim # NoPlan /\ CrawlOK(ResumedCrawl)
  BY NameAssumption DEF IInv, FilesInv
<1>2. CASE UNCHANGED vars
  BY <1>1, <1>2 DEF vars
<1>3. CASE GoesStale \/ Authorize \/ AuthorizeCut
  BY <1>1, <1>3 DEF GoesStale, Authorize, AuthorizeCut, scope
<1>4. ASSUME NEW plan \in Plans, Prepare(plan) \/ PrepareCut(plan) PROVE FALSE
  BY <1>1, <1>4 DEF Prepare, PrepareCut
<1>5. CASE Start \/ StopCrawl \/ StopAtCostlyPath \/ RunPath \/ WriteCheckpoint \/ Complete
  BY <1>1, <1>5 DEF Start, StopCrawl, StopAtCostlyPath, RunPath, WriteCheckpoint, Complete, scope
<1>6. CASE ReportConflict \/ PathFails \/ CheckpointTorn \/ FinishFails \/ CompleteTorn \/ Kill
  BY <1>1, <1>6 DEF ReportConflict, PathFails, CheckpointTorn, FinishFails, CompleteTorn,
     Kill, Interrupt, InterruptStatus, scope
<1> QED
  BY <1>1, <1>2, <1>3, <1>4, <1>5, <1>6 DEF Next, RunnerStep

LEMMA CheckpointMoves ==
  ASSUME [Next]_vars
  PROVE  checkpoint' = checkpoint \/ (pc = "checkpoint" /\ checkpoint' = Numbered)
<1>1. CASE UNCHANGED vars
  BY <1>1 DEF vars
<1>2. CASE GoesStale \/ Authorize \/ AuthorizeCut
  BY <1>2 DEF GoesStale, Authorize, AuthorizeCut
<1>3. ASSUME NEW plan \in Plans, Prepare(plan) \/ PrepareCut(plan)
      PROVE  checkpoint' = checkpoint
  BY <1>3 DEF Prepare, PrepareCut
<1>4. CASE Start \/ StopCrawl \/ StopAtCostlyPath \/ RunPath \/ WriteCheckpoint \/ Complete
  BY <1>4 DEF Start, StopCrawl, StopAtCostlyPath, RunPath, WriteCheckpoint, Complete
<1>5. CASE ReportConflict \/ PathFails \/ CheckpointTorn \/ FinishFails \/ CompleteTorn \/ Kill
  BY <1>5 DEF ReportConflict, PathFails, CheckpointTorn, FinishFails, CompleteTorn,
     Kill, CheckpointFirst
<1> QED
  BY <1>1, <1>2, <1>3, <1>4, <1>5 DEF Next, RunnerStep

(* No runner is anywhere before a plan is READY.                             *)
LEMMA RunnerHasPlan ==
  ASSUME IInv, pc # "idle"
  PROVE  status # "NONE" /\ claim \in Plans /\ CrawlOK(ResumedCrawl) /\ ResumedCrawl \in Crawls
  BY OKIsCrawl DEF IInv, FilesInv

(* What may be resumed stays resumable.                                      *)
LEMMA FilesStep == ASSUME IInv, [Next]_vars PROVE FilesInv'
<1>1. CASE status # "NONE"
  <2>1. claim' = claim /\ status' # "NONE" /\ claim \in Plans /\ CrawlOK(ResumedCrawl)
    BY <1>1, PlanStays
  <2>2. CASE checkpoint' = checkpoint
    BY <2>1, <2>2, SameCheckpoint, SamePlan DEF FilesInv
  <2>3. CASE pc = "checkpoint" /\ checkpoint' = Numbered
    <3>1. ResumedCrawl' = crawl
      BY <2>3, NumberedIsCheckpoint, NewCheckpoint DEF IInv
    <3>2. CrawlOK(crawl)
      BY <2>3 DEF IInv, RunnerInv
    <3> QED
      BY <2>1, <3>1, <3>2, SamePlan DEF FilesInv
  <2> QED
    BY <2>2, <2>3, CheckpointMoves
<1>2. CASE status = "NONE"
  <2>1. pc = "idle" /\ checkpoint = Nothing /\ report = Nothing /\ sequence = 0
    BY <1>2 DEF IInv, FilesInv
  <2>2. CASE UNCHANGED vars
    BY <1>2, <2>1, <2>2 DEF vars, FilesInv
  <2>3. CASE GoesStale \/ Authorize \/ AuthorizeCut
    BY <1>2, <2>1, <2>3 DEF GoesStale, Authorize, AuthorizeCut, scope, FilesInv
  <2>4. ASSUME NEW plan \in Plans, Prepare(plan) PROVE FilesInv'
    <3>1. claim' \in Plans /\ status' # "NONE" /\ checkpoint' = Nothing
      BY <2>1, <2>4 DEF Prepare
    <3>2. (claim \in Plans => CrawlOK(FirstCheckpoint))'
      BY FirstIsOKNext
    <3>3. ResumedCrawl' = FirstCheckpoint'
      BY <3>1 DEF ResumedCrawl
    <3> QED
      BY <3>1, <3>2, <3>3 DEF FilesInv
  <2>5. ASSUME NEW plan \in Plans, PrepareCut(plan) PROVE FilesInv'
    BY <1>2, <2>1, <2>5 DEF PrepareCut, FilesInv
  <2>6. ASSUME RunnerStep \/ Start \/ PathFails \/ CheckpointTorn \/ FinishFails
               \/ CompleteTorn \/ Kill
        PROVE  FALSE
    BY <1>2, <2>1, <2>6 DEF RunnerStep, Start, StopCrawl, StopAtCostlyPath, RunPath, Runnable,
       WriteCheckpoint, Complete, ReportConflict, PathFails, CheckpointTorn, FinishFails,
       CompleteTorn, Kill
  <2> QED
    BY <2>2, <2>3, <2>4, <2>5, <2>6 DEF Next
<1> QED
  BY <1>1, <1>2

(* A runner at a Runnable place finds something its checkpoint left to do.   *)
LEMMA RunnableIsNotStopped ==
  ASSUME IInv, Runnable
  PROVE  /\ crawl = ResumedCrawl /\ ~Stopped(ResumedCrawl) /\ pc = "loop"
         /\ crawl.queue # <<>> /\ Len(crawl.results) < MaxStates
         /\ crawl.actions + Increment(Head(crawl.queue)) <= MaxActions
<1>1. pc = "loop" /\ crawl.queue # <<>> /\ ~BudgetSpent /\ Affordable
  BY DEF Runnable
<1>2. crawl = ResumedCrawl
  BY <1>1 DEF IInv, RunnerInv
<1>3. claim \in Plans /\ CrawlOK(crawl)
  BY <1>1, <1>2, RunnerHasPlan
<1>4. Head(crawl.queue) \in QueuePaths
  BY <1>1, <1>3, OKIsCrawl, HeadTailProperties
<1> DEFINE a == crawl.actions
           n == Increment(Head(crawl.queue))
           k == Len(crawl.results)
<1>5. a \in Nat /\ n \in 0 .. MaxDepth /\ k \in Nat
  BY <1>3, <1>4, OKIsCrawl, PathFacts
<1>6. ~(k >= MaxStates) /\ ~(a >= MaxActions) /\ "duration" \notin stale /\ a + n <= MaxActions
  BY <1>1 DEF BudgetSpent, Crawled, Affordable, CurrentPath
<1>7. k < MaxStates /\ ~(a + n > MaxActions)
  <2> HIDE DEF a, n, k
  <2> QED
    BY <1>5, <1>6, Limits
<1>8. ~Stopped(crawl)
  BY <1>1, <1>6, <1>7 DEF Stopped, Costly, Crawled
<1> QED
  BY <1>1, <1>2, <1>6, <1>7, <1>8

(* The path that is run leaves the crawl one result ahead of the disk.       *)
LEMMA RunPathKeeps ==
  ASSUME IInv, RunPath
  PROVE  /\ CrawlOK(crawl')
         /\ \E r \in Results : crawl'.results = Append(ResumedCrawl.results, r)
<1>1. /\ crawl = ResumedCrawl /\ crawl.queue # <<>> /\ Len(crawl.results) < MaxStates
      /\ crawl.actions + Increment(Head(crawl.queue)) <= MaxActions /\ pc = "loop"
  BY RunnableIsNotStopped DEF RunPath
<1>2. claim \in Plans /\ CrawlOK(crawl)
  BY <1>1, RunnerHasPlan
<1>3. PICK result \in PathStatuses, seen \in BOOLEAN, pairs \in Offers(CurrentPath) :
        crawl' = Crawl(crawl, result,
                       result # "BLOCKED" /\ ~seen /\ MayExpand(CurrentPath), pairs)
  BY DEF RunPath
<1> DEFINE expands == result # "BLOCKED" /\ ~seen /\ MayExpand(CurrentPath)
<1>4. expands \in BOOLEAN /\ (expands => MayExpand(Head(crawl.queue)))
  BY DEF CurrentPath
<1>5. pairs \in Offers(Head(crawl.queue)) /\ crawl' = Crawl(crawl, result, expands, pairs)
  BY <1>3 DEF CurrentPath
<1> HIDE DEF expands
<1> QED
  BY <1>1, <1>2, <1>4, <1>5, CrawlKeeps

LEMMA RunnerStepKeeps == ASSUME IInv, [Next]_vars PROVE RunnerInv'
<1>1. CASE UNCHANGED vars
  <2>1. claim' = claim /\ checkpoint' = checkpoint /\ pc' = pc /\ crawl' = crawl /\ stale' = stale
    BY <1>1 DEF vars
  <2> QED
    BY <2>1, SameCheckpoint, SamePlan DEF IInv, RunnerInv, Stopped, Crawled
<1>2. CASE pc' = "idle"
  BY <1>2 DEF RunnerInv
<1>3. CASE GoesStale \/ Authorize \/ AuthorizeCut
  <2>1. /\ pc' = pc /\ crawl' = crawl /\ checkpoint' = checkpoint /\ claim' = claim
        /\ stale \subseteq stale'
    BY <1>3 DEF GoesStale, Authorize, AuthorizeCut, scope
  <2> QED
    BY <2>1, SameCheckpoint, SamePlan DEF IInv, RunnerInv, Stopped, Crawled
<1>4. ASSUME NEW plan \in Plans, Prepare(plan) \/ PrepareCut(plan) PROVE RunnerInv'
  <2>1. status = "NONE" /\ pc' = pc
    BY <1>4, NameAssumption DEF Prepare, PrepareCut, IInv, FilesInv
  <2>2. pc = "idle"
    BY <2>1 DEF IInv, FilesInv
  <2> QED
    BY <2>1, <2>2 DEF RunnerInv
<1>5. CASE Start
  <2>1. pc' = "loop" /\ crawl' = ResumedCrawl /\ checkpoint' = checkpoint /\ claim' = claim
    BY <1>5 DEF Start, scope
  <2> QED
    BY <2>1, SameCheckpoint DEF RunnerInv
<1>6. CASE StopCrawl
  <2>1. /\ pc = "loop" /\ pc' = "finish" /\ crawl' = crawl /\ checkpoint' = checkpoint
        /\ claim' = claim /\ stale' = stale /\ (crawl.queue = <<>> \/ BudgetSpent)
    BY <1>6 DEF StopCrawl, scope
  <2>2. crawl = ResumedCrawl
    BY <2>1 DEF IInv, RunnerInv
  <2>3. Stopped(crawl)
    BY <2>1 DEF Stopped, BudgetSpent
  <2>4. Stopped(ResumedCrawl)' /\ ResumedCrawl' = ResumedCrawl
    BY <2>1, <2>2, <2>3, SameCheckpoint, SamePlan DEF Stopped, Crawled
  <2> QED
    BY <2>1, <2>2, <2>4 DEF RunnerInv
<1>7. CASE StopAtCostlyPath
  <2>1. /\ pc = "loop" /\ pc' = "finish" /\ checkpoint' = checkpoint
        /\ claim' = claim /\ stale' = stale /\ crawl.queue # <<>> /\ ~Affordable
        /\ crawl' = [crawl EXCEPT !.queue = Tail(@)]
    BY <1>7 DEF StopAtCostlyPath, scope
  <2>2. crawl = ResumedCrawl /\ claim \in Plans /\ CrawlOK(crawl) /\ crawl \in Crawls
    BY <2>1, RunnerHasPlan DEF IInv, RunnerInv
  <2>3. Head(crawl.queue) \in QueuePaths
    BY <2>1, <2>2, OKIsCrawl, HeadTailProperties
  <2>4. Costly(crawl)
    <3> DEFINE a == crawl.actions
               n == Increment(Head(crawl.queue))
    <3>1. a \in Nat /\ n \in 0 .. MaxDepth
      BY <2>2, <2>3, OKIsCrawl, PathFacts
    <3>2. ~(a + n <= MaxActions)
      BY <2>1 DEF Affordable, CurrentPath
    <3>3. a + n > MaxActions
      <4> HIDE DEF a, n
      <4> QED
        BY <3>1, <3>2, Limits
    <3> QED
      BY <2>1, <3>3 DEF Costly
  <2>5. crawl'.queue = Tail(crawl.queue) /\ crawl'.results = crawl.results
    BY <2>1, <2>2 DEF Crawls
  <2>6. ResumedCrawl' = ResumedCrawl /\ Costly(ResumedCrawl)' /\ Stopped(ResumedCrawl)'
    BY <2>1, <2>2, <2>4, SameCheckpoint, SamePlan DEF Stopped
  <2> QED
    BY <2>1, <2>2, <2>5, <2>6 DEF RunnerInv
<1>8. CASE RunPath
  <2>1. pc' = "checkpoint" /\ checkpoint' = checkpoint /\ claim' = claim
    BY <1>8 DEF RunPath, AfterPath, scope
  <2>2. CrawlOK(crawl)'
    BY <1>8, <2>1, RunPathKeeps, SamePlan
  <2>3. \E r \in Results : crawl'.results = Append(ResumedCrawl'.results, r)
    BY <1>8, <2>1, RunPathKeeps, SameCheckpoint
  <2>4. Results' = Results
    OBVIOUS
  <2> QED
    BY <2>1, <2>2, <2>3, <2>4 DEF RunnerInv
<1>9. CASE WriteCheckpoint
  <2>1. pc' = "loop" /\ checkpoint' = Numbered /\ crawl' = crawl
    BY <1>9 DEF WriteCheckpoint
  <2> QED
    BY <2>1, NumberedIsCheckpoint, NewCheckpoint DEF IInv, RunnerInv
<1>10. CASE Complete \/ ReportConflict \/ PathFails \/ CheckpointTorn \/ FinishFails
            \/ CompleteTorn \/ Kill
  BY <1>2, <1>10 DEF Complete, ReportConflict, PathFails, CheckpointTorn, FinishFails,
     CompleteTorn, Kill, Interrupt, Gone
<1> QED
  BY <1>1, <1>3, <1>4, <1>5, <1>6, <1>7, <1>8, <1>9, <1>10 DEF Next, RunnerStep

(* What a report says when it is written.                                    *)
LEMMA ReportIsTrue ==
  ASSUME IInv, pc = "finish"
  PROVE  /\ Report \in Reports /\ Report # Nothing
         /\ Stopped(ResumedCrawl) /\ Report.results = ResumedCrawl.results
         /\ Report.status = "EXPLORATION_PARITY_PASSED" =>
              /\ checkpoint # Nothing
              /\ AllMatched(Report.results)
              /\ NothingButCostly(ResumedCrawl)
<1>1. Report \in Reports /\ Report # Nothing
  BY ReportIsReport, NothingAssumption DEF IInv
<1>2. /\ Stopped(ResumedCrawl) /\ crawl.results = ResumedCrawl.results
      /\ \/ crawl.queue = ResumedCrawl.queue
         \/ Costly(ResumedCrawl) /\ crawl.queue = Tail(ResumedCrawl.queue)
  BY DEF IInv, RunnerInv
<1>3. Report.results = crawl.results /\ Report.status = Verdict
  BY DEF Report
<1>4. ASSUME Verdict = "EXPLORATION_PARITY_PASSED"
      PROVE  /\ ~Occurs(crawl, "DIVERGED") /\ ~Occurs(crawl, "BLOCKED")
             /\ Occurs(crawl, "MATCHED") /\ QueueExhausted
  BY <1>4 DEF Verdict
<1>5. ASSUME Verdict = "EXPLORATION_PARITY_PASSED" PROVE AllMatched(crawl.results)
  <2>1. crawl.results \in Seq(Results)
    BY DEF IInv, TypeOK, Crawls
  <2>2. ASSUME NEW i \in DOMAIN crawl.results PROVE crawl.results[i].status = "MATCHED"
    <3>1. crawl.results[i] \in Results
      BY <2>1, <2>2, ElementOfSeq, LenProperties
    <3>2. crawl.results[i].status \in {"MATCHED", "DIVERGED", "BLOCKED"}
      BY <3>1 DEF Results
    <3> QED
      BY <1>4, <1>5, <2>2, <3>2 DEF Occurs
  <2> QED
    BY <2>2 DEF AllMatched
<1>6. ASSUME Verdict = "EXPLORATION_PARITY_PASSED" PROVE checkpoint # Nothing
  <2> SUFFICES ASSUME checkpoint = Nothing PROVE FALSE
    OBVIOUS
  <2>1. crawl.results = <<>>
    BY <1>2 DEF ResumedCrawl, FirstCheckpoint
  <2> QED
    BY <1>4, <1>6, <2>1 DEF Occurs
<1>7. ASSUME Verdict = "EXPLORATION_PARITY_PASSED" PROVE NothingButCostly(ResumedCrawl)
  <2>1. crawl.queue = <<>>
    BY <1>4, <1>7 DEF QueueExhausted
  <2>2. claim \in Plans /\ CrawlOK(ResumedCrawl)
    BY RunnerHasPlan
  <2>3. ResumedCrawl.queue \in Seq(QueuePaths)
    BY <2>2, OKIsCrawl
  <2>4. CASE Costly(ResumedCrawl) /\ crawl.queue = Tail(ResumedCrawl.queue)
    <3> DEFINE q == ResumedCrawl.queue
    <3>1. q # <<>> /\ Tail(q) = <<>>
      BY <2>1, <2>4 DEF Costly
    <3>2. Len(Tail(q)) = 0
      BY <3>1, EmptySeq
    <3>3. Len(q) \in Nat /\ Len(Tail(q)) = Len(q) - 1
      BY <2>3, <3>1, HeadTailProperties, LenProperties
    <3>4. Len(q) = 1
      <4> DEFINE l == Len(q)
      <4>1. l \in Nat /\ 0 = l - 1
        BY <3>2, <3>3
      <4> HIDE DEF l
      <4>2. l = 1
        BY <4>1
      <4> QED
        BY <4>2 DEF l
    <3> QED
      BY <2>4, <3>4 DEF NothingButCostly
  <2> QED
    BY <1>2, <2>1, <2>4 DEF NothingButCostly
<1> QED
  BY <1>1, <1>2, <1>3, <1>5, <1>6, <1>7

LEMMA ReportStep == ASSUME IInv, [Next]_vars PROVE ReportInv'
<1>1. CASE report' = Report /\ pc = "finish" /\ pc' = "idle" /\ checkpoint' = checkpoint
           /\ claim' = claim /\ stale' = stale
  <2>1. ResumedCrawl' = ResumedCrawl
    BY <1>1, SameCheckpoint
  <2>2. \A c : (Stopped(c)' <=> Stopped(c)) /\ (NothingButCostly(c)' <=> NothingButCostly(c))
    BY <1>1, SamePlan DEF Stopped, NothingButCostly, Crawled
  <2>3. Stopped(ResumedCrawl)' /\ report'.results = ResumedCrawl'.results
    BY <1>1, <2>1, <2>2, ReportIsTrue
  <2>4. ASSUME Parity'
        PROVE  /\ checkpoint' # Nothing /\ AllMatched(report'.results)
               /\ NothingButCostly(ResumedCrawl)'
    BY <1>1, <2>1, <2>2, <2>4, ReportIsTrue DEF Parity
  <2> QED
    BY <1>1, <2>3, <2>4 DEF ReportInv, AllMatched
<1>2. ASSUME report # Nothing, report' = report, claim' = claim, checkpoint' = checkpoint,
             stale \subseteq stale', pc' # "checkpoint"
      PROVE  ReportInv'
  <2>1. ResumedCrawl' = ResumedCrawl
    BY <1>2, SameCheckpoint
  <2>2. \A c : (Stopped(c) => Stopped(c)') /\ (NothingButCostly(c)' <=> NothingButCostly(c))
    BY <1>2, SamePlan DEF Stopped, NothingButCostly, Crawled
  <2>3. Stopped(ResumedCrawl)' /\ report'.results = ResumedCrawl'.results
    BY <1>2, <2>1, <2>2 DEF IInv, ReportInv
  <2>4. ASSUME Parity'
        PROVE  /\ checkpoint' # Nothing /\ AllMatched(report'.results)
               /\ NothingButCostly(ResumedCrawl)'
    BY <1>2, <2>1, <2>2, <2>4 DEF IInv, ReportInv, Parity
  <2> QED
    BY <1>2, <2>3, <2>4 DEF ReportInv, AllMatched
<1>3. ASSUME report' = Nothing PROVE ReportInv'
  BY <1>3 DEF ReportInv
<1>4. report # Nothing => pc # "checkpoint"
  BY DEF IInv, ReportInv
<1>5. CASE UNCHANGED vars
  BY <1>2, <1>3, <1>4, <1>5 DEF vars
<1>6. CASE GoesStale \/ Authorize \/ AuthorizeCut
  BY <1>2, <1>3, <1>4, <1>6 DEF GoesStale, Authorize, AuthorizeCut, scope
<1>7. ASSUME NEW plan \in Plans, Prepare(plan) \/ PrepareCut(plan) PROVE ReportInv'
  <2>1. status = "NONE" /\ report' = report
    BY <1>7, NameAssumption DEF Prepare, PrepareCut, IInv, FilesInv
  <2> QED
    BY <1>3, <2>1 DEF IInv, FilesInv
<1>8. CASE Start \/ StopCrawl \/ StopAtCostlyPath
  BY <1>2, <1>3, <1>8 DEF Start, StopCrawl, StopAtCostlyPath, scope
<1>9. CASE RunPath
  <2>1. Runnable /\ report' = report
    BY <1>9 DEF RunPath
  <2>2. report = Nothing
    BY <2>1, RunnableIsNotStopped DEF IInv, ReportInv
  <2> QED
    BY <1>3, <2>1, <2>2
<1>10. CASE WriteCheckpoint \/ CheckpointTorn
  BY <1>3, <1>4, <1>10 DEF WriteCheckpoint, CheckpointTorn
<1>11. CASE Complete \/ CompleteTorn
  BY <1>1, <1>11 DEF Complete, CompleteTorn, Interrupt, Gone, scope
<1>12. CASE ReportConflict \/ PathFails \/ FinishFails
  BY <1>2, <1>3, <1>12 DEF ReportConflict, PathFails, FinishFails, Interrupt, Gone, scope
<1>13. CASE Kill
  BY <1>1, <1>2, <1>3, <1>4, <1>13 DEF Kill, Gone, scope
<1> QED
  BY <1>5, <1>6, <1>7, <1>8, <1>9, <1>10, <1>11, <1>12, <1>13 DEF Next, RunnerStep

-----------------------------------------------------------------------------
(* Types, the sequence of checkpoints, and the count of the runs.            *)

LEMMA SpentStays ==
  ASSUME IInv, [Next]_vars
  PROVE  spent' \in [faults : 0 .. MaxFaults, kills : 0 .. MaxKills]
<1>1. spent \in [faults : 0 .. MaxFaults, kills : 0 .. MaxKills]
  BY DEF IInv, TypeOK
<1>2. spent.faults \in 0 .. MaxFaults /\ spent.kills \in 0 .. MaxKills
  BY <1>1
<1>3. ASSUME spent.faults < MaxFaults, spent' = [spent EXCEPT !.faults = @ + 1]
      PROVE  spent' \in [faults : 0 .. MaxFaults, kills : 0 .. MaxKills]
  <2>1. spent.faults + 1 \in 0 .. MaxFaults
    BY <1>2, <1>3, ExplorationBounds
  <2> QED
    BY <1>1, <1>3, <2>1, Zenon
<1>4. ASSUME spent.kills < MaxKills, spent' = [spent EXCEPT !.kills = @ + 1]
      PROVE  spent' \in [faults : 0 .. MaxFaults, kills : 0 .. MaxKills]
  <2>1. spent.kills + 1 \in 0 .. MaxKills
    BY <1>2, <1>4, ExplorationBounds
  <2> QED
    BY <1>1, <1>4, <2>1, Zenon
<1>5. CASE UNCHANGED vars
  BY <1>1, <1>5 DEF vars
<1>6. CASE GoesStale \/ Authorize \/ AuthorizeCut
  BY <1>1, <1>4, <1>6 DEF GoesStale, Authorize, AuthorizeCut
<1>7. ASSUME NEW plan \in Plans, Prepare(plan) \/ PrepareCut(plan)
      PROVE  spent' \in [faults : 0 .. MaxFaults, kills : 0 .. MaxKills]
  BY <1>1, <1>4, <1>7 DEF Prepare, PrepareCut
<1>8. CASE Start \/ StopCrawl \/ StopAtCostlyPath \/ RunPath \/ WriteCheckpoint \/ Complete
  BY <1>1, <1>8 DEF Start, StopCrawl, StopAtCostlyPath, RunPath, WriteCheckpoint, Complete
<1>9. CASE ReportConflict \/ PathFails \/ CheckpointTorn \/ FinishFails \/ CompleteTorn \/ Kill
  BY <1>1, <1>3, <1>4, <1>9 DEF ReportConflict, PathFails, CheckpointTorn, FinishFails,
     CompleteTorn, Kill, Fault
<1> QED
  BY <1>5, <1>6, <1>7, <1>8, <1>9 DEF Next, RunnerStep

LEMMA CrawlStays == ASSUME IInv, [Next]_vars PROVE crawl' \in Crawls
<1>1. crawl \in Crawls /\ NoCrawl \in Crawls
  BY DEF IInv, TypeOK, NoCrawl, Crawls
<1>2. CASE crawl' = crawl \/ crawl' = NoCrawl
  BY <1>1, <1>2
<1>3. CASE Start
  <2>1. status # "NONE" /\ crawl' = ResumedCrawl
    BY <1>3 DEF Start
  <2> QED
    BY <2>1, OKIsCrawl DEF IInv, FilesInv
<1>4. CASE StopAtCostlyPath
  <2>1. crawl.queue # <<>> /\ crawl' = [crawl EXCEPT !.queue = Tail(@)]
    BY <1>4 DEF StopAtCostlyPath
  <2>2. Tail(crawl.queue) \in Seq(Paths)
    BY <1>1, <2>1, HeadTailProperties DEF Crawls
  <2> QED
    BY <1>1, <2>1, <2>2, Zenon DEF Crawls
<1>5. CASE RunPath
  <2>1. pc = "loop" /\ CrawlOK(crawl')
    BY <1>5, RunPathKeeps DEF RunPath, Runnable
  <2> QED
    BY <2>1, RunnerHasPlan, OKIsCrawl
<1>6. CASE UNCHANGED vars
  BY <1>2, <1>6 DEF vars
<1>7. CASE GoesStale \/ Authorize \/ AuthorizeCut
  BY <1>2, <1>7 DEF GoesStale, Authorize, AuthorizeCut
<1>8. ASSUME NEW plan \in Plans, Prepare(plan) \/ PrepareCut(plan) PROVE crawl' \in Crawls
  BY <1>2, <1>8 DEF Prepare, PrepareCut
<1>9. CASE StopCrawl \/ WriteCheckpoint \/ Complete
  BY <1>2, <1>9 DEF StopCrawl, WriteCheckpoint, Complete
<1>10. CASE ReportConflict \/ PathFails \/ CheckpointTorn \/ FinishFails \/ CompleteTorn \/ Kill
  BY <1>2, <1>10 DEF ReportConflict, PathFails, CheckpointTorn, FinishFails,
     CompleteTorn, Kill, Interrupt, Gone
<1> QED
  BY <1>3, <1>4, <1>5, <1>6, <1>7, <1>8, <1>9, <1>10 DEF Next, RunnerStep

LEMMA TypeStep == ASSUME IInv, [Next]_vars PROVE TypeOK'
<1>1. spent' \in [faults : 0 .. MaxFaults, kills : 0 .. MaxKills] /\ crawl' \in Crawls
  BY SpentStays, CrawlStays
<1>2. checkpoint' \in Checkpoints \cup {Nothing}
  BY CheckpointMoves, NumberedIsCheckpoint DEF IInv, TypeOK
<1>3. Report \in Reports
  BY ReportIsReport DEF IInv
<1> DEFINE Rest ==
      /\ grant' \in {"none", "torn", "made"} /\ diagnostic' \in BOOLEAN
      /\ stale' \subseteq {"expired", "job", "duration"}
      /\ claim' \in Plans \cup {NoPlan}
      /\ status' \in Statuses /\ sequence' \in Nat
      /\ report' \in Reports \cup {Nothing}
      /\ pc' \in {"idle", "loop", "checkpoint", "finish"}
      /\ runs' \in Nat
<1> USE DEF IInv, TypeOK, Statuses, scope
<1>4. ASSUME UNCHANGED vars PROVE Rest
  BY <1>4 DEF vars
<1>5. ASSUME GoesStale \/ Authorize \/ AuthorizeCut PROVE Rest
  BY <1>5 DEF GoesStale, Authorize, AuthorizeCut
<1>6. ASSUME NEW plan \in Plans, Prepare(plan) \/ PrepareCut(plan) PROVE Rest
  BY <1>6 DEF Prepare, PrepareCut
<1>7. ASSUME Start \/ StopCrawl \/ StopAtCostlyPath \/ RunPath PROVE Rest
  BY <1>7 DEF Start, StopCrawl, StopAtCostlyPath, RunPath, AfterPath
<1>8. ASSUME WriteCheckpoint \/ Complete \/ ReportConflict PROVE Rest
  <2>1. sequence + 1 \in Nat
    OBVIOUS
  <2>2. CASE WriteCheckpoint
    BY <2>1, <2>2 DEF WriteCheckpoint
  <2>3. CASE Complete
    BY <1>3, <2>3 DEF Complete
  <2>4. CASE ReportConflict
    BY <2>4 DEF ReportConflict, Interrupt, InterruptStatus, Gone
  <2> QED
    BY <1>8, <2>2, <2>3, <2>4
<1>9. ASSUME PathFails \/ CheckpointTorn \/ FinishFails PROVE Rest
  <2>1. runs + 1 \in Nat
    OBVIOUS
  <2>2. CASE PathFails
    BY <2>1, <2>2 DEF PathFails, Interrupt, InterruptStatus, Gone
  <2>3. CASE CheckpointTorn
    BY <2>3 DEF CheckpointTorn, CheckpointFirst, Interrupt, InterruptStatus, Gone
  <2>4. CASE FinishFails
    BY <2>4 DEF FinishFails, Interrupt, InterruptStatus, Gone
  <2> QED
    BY <1>9, <2>2, <2>3, <2>4
<1>10. ASSUME CompleteTorn \/ Kill PROVE Rest
  BY <1>3, <1>10 DEF CompleteTorn, Kill, Interrupt, InterruptStatus, Gone
<1>11. Rest
  BY <1>4, <1>5, <1>6, <1>7, <1>8, <1>9, <1>10 DEF Next, RunnerStep
<1> QED
  BY <1>1, <1>2, <1>11

LEMMA SequenceStep == ASSUME IInv, [Next]_vars PROVE SequenceFollows'
<1>1. SequenceFollows /\ sequence \in Nat
  BY DEF IInv, TypeOK
<1>2. ASSUME checkpoint' = checkpoint, sequence' = sequence PROVE SequenceFollows'
  BY <1>1, <1>2 DEF SequenceFollows
<1>3. ASSUME checkpoint' = Numbered, sequence' \in {sequence, sequence + 1}
      PROVE  SequenceFollows'
  <2>1. checkpoint' # Nothing /\ checkpoint'.sequence = sequence + 1
    BY <1>3, NumberedIsCheckpoint, NewCheckpoint DEF IInv
  <2> QED
    BY <1>1, <1>3, <2>1 DEF SequenceFollows
<1>4. CASE UNCHANGED vars
  BY <1>2, <1>4 DEF vars
<1>5. CASE GoesStale \/ Authorize \/ AuthorizeCut
  BY <1>2, <1>5 DEF GoesStale, Authorize, AuthorizeCut
<1>6. ASSUME NEW plan \in Plans, Prepare(plan) \/ PrepareCut(plan) PROVE SequenceFollows'
  <2>1. CASE PrepareCut(plan)
    BY <1>2, <2>1 DEF PrepareCut
  <2>2. CASE Prepare(plan)
    BY <1>2, <2>2 DEF Prepare, IInv, FilesInv
  <2> QED
    BY <1>6, <2>1, <2>2
<1>7. CASE Start \/ StopCrawl \/ StopAtCostlyPath \/ RunPath \/ Complete
  BY <1>2, <1>7 DEF Start, StopCrawl, StopAtCostlyPath, RunPath, Complete
<1>8. CASE WriteCheckpoint \/ CheckpointTorn
  BY <1>3, <1>8 DEF WriteCheckpoint, CheckpointTorn, CheckpointFirst
<1>9. CASE ReportConflict \/ PathFails \/ FinishFails \/ CompleteTorn
  BY <1>2, <1>9 DEF ReportConflict, PathFails, FinishFails, CompleteTorn
<1>10. CASE Kill
  BY <1>2, <1>3, <1>10 DEF Kill
<1> QED
  BY <1>4, <1>5, <1>6, <1>7, <1>8, <1>9, <1>10 DEF Next, RunnerStep

Checkpointed == Crawled(ResumedCrawl)

LEMMA CheckpointedIs ==
  Checkpointed = IF checkpoint = Nothing THEN 0 ELSE Crawled(checkpoint.crawl)
  BY EmptySeq DEF Checkpointed, ResumedCrawl, FirstCheckpoint, Crawled

LEMMA CheckpointedIsNat == TypeOK => Checkpointed \in Nat
<1> SUFFICES ASSUME TypeOK PROVE Checkpointed \in Nat
  OBVIOUS
<1>1. CASE checkpoint = Nothing
  BY <1>1, CheckpointedIs
<1>2. CASE checkpoint # Nothing
  <2>1. checkpoint.crawl.results \in Seq(Results)
    BY <1>2 DEF TypeOK, Checkpoints, Crawls
  <2> QED
    BY <1>2, <2>1, CheckpointedIs, LenProperties DEF Crawled
<1> QED
  BY <1>1, <1>2

(* The same inequality over numbers, primed and unprimed.                    *)
OneIf(b) == IF b THEN 1 ELSE 0

LEMMA Repeats ==
  RepeatsOnlyCutPaths
    <=> runs <= Checkpointed + OneIf(pc = "checkpoint") + spent.faults + spent.kills
  BY CheckpointedIs, Zenon DEF RepeatsOnlyCutPaths, OneIf

LEMMA RepeatsNext ==
  (RepeatsOnlyCutPaths
    <=> runs <= Checkpointed + OneIf(pc = "checkpoint") + spent.faults + spent.kills)'
  BY Repeats, PTL

LEMMA CheckpointedGrows ==
  ASSUME IInv, pc = "checkpoint", checkpoint' = Numbered
  PROVE  Checkpointed' = Checkpointed + 1
<1>1. ResumedCrawl' = crawl
  BY NumberedIsCheckpoint, NewCheckpoint DEF IInv
<1>2. PICK r \in Results : crawl.results = Append(ResumedCrawl.results, r)
  BY DEF IInv, RunnerInv
<1>3. ResumedCrawl.results \in Seq(Results)
  BY RunnerHasPlan, OKIsCrawl
<1> QED
  BY <1>1, <1>2, <1>3, AppendProperties DEF Checkpointed, Crawled

LEMMA CheckpointedSame ==
  ASSUME checkpoint' = checkpoint PROVE Checkpointed' = Checkpointed
  BY DEF Checkpointed, Crawled, ResumedCrawl, FirstCheckpoint

(* What a step may do to the counters.                                       *)
Wasted == spent.faults + spent.kills

LEMMA WastedFacts ==
  ASSUME TypeOK
  PROVE  /\ Wasted \in Nat
         /\ spent' = spent => Wasted' = Wasted
         /\ spent' = [spent EXCEPT !.faults = @ + 1] => Wasted' = Wasted + 1
         /\ spent' = [spent EXCEPT !.kills = @ + 1] => Wasted' = Wasted + 1
<1> DEFINE f == spent.faults
           k == spent.kills
<1>1. spent \in [faults : 0 .. MaxFaults, kills : 0 .. MaxKills]
  BY DEF TypeOK
<1>2. f \in Nat /\ k \in Nat
  BY <1>1, ExplorationBounds
<1>3. ASSUME spent' = [spent EXCEPT !.faults = @ + 1]
      PROVE  spent'.faults = f + 1 /\ spent'.kills = k
  BY <1>1, <1>3
<1>4. ASSUME spent' = [spent EXCEPT !.kills = @ + 1]
      PROVE  spent'.faults = f /\ spent'.kills = k + 1
  BY <1>1, <1>4
<1>5. (f + 1) + k = (f + k) + 1 /\ f + (k + 1) = (f + k) + 1 /\ f + k \in Nat
  <2> HIDE DEF f, k
  <2> QED
    BY <1>2
<1> QED
  BY <1>3, <1>4, <1>5, Zenon DEF Wasted

LEMMA RepeatsStep == ASSUME IInv, [Next]_vars PROVE RepeatsOnlyCutPaths'
<1> DEFINE n == Checkpointed
           m == Checkpointed'
           w == Wasted
           v == Wasted'
<1>1. n \in Nat /\ w \in Nat /\ runs \in Nat
  BY CheckpointedIsNat, WastedFacts DEF IInv, TypeOK
<1>2. runs <= n + OneIf(pc = "checkpoint") + w
  <2> DEFINE f == spent.faults
             k == spent.kills
             o == OneIf(pc = "checkpoint")
  <2>1. runs <= n + o + f + k
    BY Repeats DEF IInv
  <2>2. f \in Nat /\ k \in Nat /\ o \in Nat
    BY ExplorationBounds DEF IInv, TypeOK, OneIf
  <2>3. w = f + k
    BY DEF Wasted
  <2> HIDE DEF n, w, f, k, o
  <2> QED
    BY <1>1, <2>1, <2>2, <2>3 DEF o
<1>3. ASSUME m \in Nat, v \in Nat, runs' \in Nat,
             runs' <= m + OneIf(pc' = "checkpoint") + v
      PROVE  RepeatsOnlyCutPaths'
  <2> DEFINE f == spent'.faults
             k == spent'.kills
             o == OneIf(pc' = "checkpoint")
  <2>1. spent' \in [faults : 0 .. MaxFaults, kills : 0 .. MaxKills]
    BY SpentStays
  <2>2. f \in Nat /\ k \in Nat /\ o \in Nat
    BY <2>1, ExplorationBounds DEF OneIf
  <2>3. v = f + k
    BY DEF Wasted
  <2>4. runs' <= m + o + f + k
    <3> HIDE DEF m, v, f, k, o
    <3> QED
      BY <1>3, <2>2, <2>3 DEF o
  <2> QED
    BY <2>4, RepeatsNext
<1> HIDE DEF n, m, w, v
<1>4. ASSUME checkpoint' = checkpoint, runs' = runs, v \in {w, w + 1},
             pc = "checkpoint" => pc' = "checkpoint" \/ v = w + 1
      PROVE  RepeatsOnlyCutPaths'
  <2>1. m = n
    BY <1>4, CheckpointedSame DEF m, n
  <2> QED
    BY <1>1, <1>2, <1>3, <1>4, <2>1 DEF OneIf
<1>5. ASSUME checkpoint' = checkpoint, runs' = runs + 1,
             pc # "checkpoint", (pc' = "checkpoint" /\ v = w) \/ v = w + 1
      PROVE  RepeatsOnlyCutPaths'
  <2>1. m = n
    BY <1>5, CheckpointedSame DEF m, n
  <2> QED
    BY <1>1, <1>2, <1>3, <1>5, <2>1 DEF OneIf
<1>6. ASSUME checkpoint' = Numbered, pc = "checkpoint", runs' = runs, v \in {w, w + 1}
      PROVE  RepeatsOnlyCutPaths'
  <2>1. m = n + 1
    BY <1>6, CheckpointedGrows DEF m, n
  <2> QED
    BY <1>1, <1>2, <1>3, <1>6, <2>1 DEF OneIf
<1>7. /\ spent' = spent => v = w
      /\ spent' = [spent EXCEPT !.faults = @ + 1] => v = w + 1
      /\ spent' = [spent EXCEPT !.kills = @ + 1] => v = w + 1
  BY WastedFacts DEF IInv, w, v
<1>8. CASE UNCHANGED vars
  BY <1>4, <1>7, <1>8 DEF vars
<1>9. CASE GoesStale \/ Authorize \/ AuthorizeCut
  BY <1>4, <1>7, <1>9 DEF GoesStale, Authorize, AuthorizeCut
<1>10. ASSUME NEW plan \in Plans, Prepare(plan) \/ PrepareCut(plan)
       PROVE  RepeatsOnlyCutPaths'
  BY <1>4, <1>7, <1>10 DEF Prepare, PrepareCut
<1>11. CASE Start \/ StopCrawl \/ StopAtCostlyPath \/ Complete
  BY <1>4, <1>7, <1>11 DEF Start, StopCrawl, StopAtCostlyPath, Complete
<1>12. CASE RunPath
  BY <1>5, <1>7, <1>12 DEF RunPath, Runnable, AfterPath
<1>13. CASE WriteCheckpoint
  BY <1>6, <1>7, <1>13 DEF WriteCheckpoint
<1>14. CASE CheckpointTorn
  BY <1>6, <1>7, <1>14 DEF CheckpointTorn, CheckpointFirst, Fault
<1>15. CASE PathFails
  BY <1>4, <1>5, <1>7, <1>15 DEF PathFails, Runnable, Fault
<1>16. CASE ReportConflict \/ FinishFails \/ CompleteTorn
  BY <1>4, <1>7, <1>16 DEF ReportConflict, FinishFails, CompleteTorn, Fault
<1>17. CASE Kill
  BY <1>4, <1>6, <1>7, <1>17 DEF Kill
<1> QED
  BY <1>8, <1>9, <1>10, <1>11, <1>12, <1>13, <1>14, <1>15, <1>16, <1>17 DEF Next, RunnerStep

-----------------------------------------------------------------------------
(* The inductive invariant, and with it the types, hold for any plans,       *)
(* limits and numbers of faults and kills.                                   *)
THEOREM CrawlInvariant == Spec => []IInv
<1>1. IInv /\ [Next]_vars => IInv'
  BY FilesStep, RunnerStepKeeps, ReportStep, TypeStep, SequenceStep, RepeatsStep DEF IInv
<1> QED
  BY InitIInv, <1>1, PTL DEF Spec

(* Every reachable state is well typed; a queued path is never deeper than   *)
(* authorized, so that `continue` at runner 121 never happens.               *)
THEOREM TypeCorrect == Spec => []TypeOK
<1>1. IInv => TypeOK
  BY DEF IInv
<1> QED
  BY <1>1, CrawlInvariant, PTL

(* No checkpoint exceeds the authorized states, actions or queue.            *)
LEMMA InvariantKeepsBudget == IInv => BudgetKept
<1> SUFFICES ASSUME IInv, checkpoint # Nothing
             PROVE  LET c == checkpoint.crawl IN
                    /\ Crawled(c) <= MaxStates /\ c.actions <= MaxActions
                    /\ \/ Crawled(c) + Len(c.queue) <= QueueLimit
                       \/ Crawled(c) + Len(c.queue) <= Len(RootQueue)
  BY DEF BudgetKept
<1>1. status # "NONE" /\ ResumedCrawl = checkpoint.crawl
  BY DEF IInv, FilesInv, ResumedCrawl
<1>2. claim \in Plans /\ CrawlOK(checkpoint.crawl)
  BY <1>1 DEF IInv, FilesInv
<1>3. checkpoint.crawl.actions <= MaxActions
  BY <1>2, OKIsCrawl
<1> QED
  BY <1>2, <1>3 DEF CrawlOK, Total, Crawled

(* The authorized states and actions and the limit of the queue hold over    *)
(* all resumes of one authorization.                                         *)
THEOREM BudgetIsKept == Spec => []BudgetKept
  BY InvariantKeepsBudget, CrawlInvariant, PTL

(* A report of parity has run and matched every path found, except perhaps   *)
(* one that the remaining actions could not pay for.                         *)
LEMMA ParityLeavesOne == IInv => ParityMissesOneAtMost
<1> SUFFICES ASSUME IInv, Parity
             PROVE  /\ \A i \in DOMAIN report.results : report.results[i].status = "MATCHED"
                    /\ Unrun \in {0, 1}
                    /\ Unrun = 1 => checkpoint.crawl.actions + MaxDepth > MaxActions
  BY DEF ParityMissesOneAtMost
<1> DEFINE c == checkpoint.crawl
           q == Len(c.queue)
           s == Len(c.results)
           a == c.actions
           found == c.found
           n == Increment(Head(c.queue))
<1>1. /\ checkpoint # Nothing /\ report.results = ResumedCrawl.results
      /\ AllMatched(report.results) /\ NothingButCostly(ResumedCrawl)
  BY DEF IInv, ReportInv, Parity
<1>2. ResumedCrawl = c /\ status # "NONE"
  BY <1>1 DEF IInv, FilesInv, ResumedCrawl
<1>3. claim \in Plans /\ CrawlOK(c)
  BY <1>2 DEF IInv, FilesInv
<1>4. c.queue \in Seq(QueuePaths) /\ q \in Nat /\ s \in Nat /\ a \in Nat /\ found \in Nat
  BY <1>3, OKIsCrawl
<1>5. s <= MaxStates /\ s + q <= found /\ (s + q < found => QueueLimit <= s + q)
  BY <1>3 DEF CrawlOK, Total
<1>6. q \in {0, 1}
  BY <1>1, <1>2, EmptySeq DEF NothingButCostly
<1>7. Unrun = found - s
  BY <1>1, <1>2 DEF Unrun
<1>8. found - s = q
  <2> HIDE DEF found, s, q
  <2> QED
    BY <1>4, <1>5, <1>6, Limits
<1>9. ASSUME q = 1 PROVE a + MaxDepth > MaxActions
  <2>1. Costly(c) /\ c.queue # <<>>
    BY <1>1, <1>2, <1>9, EmptySeq DEF NothingButCostly
  <2>2. n \in 0 .. MaxDepth
    BY <1>3, <1>4, <2>1, HeadTailProperties, PathFacts
  <2>3. a + n > MaxActions
    BY <2>1 DEF Costly
  <2> HIDE DEF a, n
  <2> QED
    BY <1>4, <2>2, <2>3, Limits
<1> QED
  BY <1>1, <1>6, <1>7, <1>8, <1>9 DEF AllMatched

(* A report of parity means that everything found was run and matched, but   *)
(* for one path that was taken off the queue and cost too much to run.       *)
THEOREM ParityMissesAtMostOne == Spec => []ParityMissesOneAtMost
  BY ParityLeavesOne, CrawlInvariant, PTL

(* However often a run is cut and resumed, the browsers repeat at most the   *)
(* path each cut fell in.                                                    *)
THEOREM OnlyCutPathsRepeat == Spec => []RepeatsOnlyCutPaths
<1>1. IInv => RepeatsOnlyCutPaths
  BY DEF IInv
<1> QED
  BY <1>1, CrawlInvariant, PTL

(* state.json is at most one checkpoint behind, and never ahead.             *)
THEOREM SequenceIsBehind == Spec => []SequenceFollows
<1>1. IInv => SequenceFollows
  BY DEF IInv
<1> QED
  BY <1>1, CrawlInvariant, PTL

(* The report, also one whose completion was cut, tells the checkpoint.      *)
THEOREM ReportTellsCheckpoint == Spec => []ReportMatchesCheckpoint
<1>1. IInv => ReportMatchesCheckpoint
  BY DEF IInv, ReportInv, ReportMatchesCheckpoint, ResumedCrawl, FirstCheckpoint
<1> QED
  BY <1>1, CrawlInvariant, PTL

(* A checkpoint keeps all results of the one before it, in their order.      *)
LEMMA StepExtends ==
  ASSUME IInv, [Next]_vars, checkpoint # Nothing
  PROVE  /\ checkpoint' # Nothing
         /\ Crawled(checkpoint.crawl) <= Crawled(checkpoint'.crawl)
         /\ SubSeq(checkpoint'.crawl.results, 1, Crawled(checkpoint.crawl))
               = checkpoint.crawl.results
<1> DEFINE old == checkpoint.crawl.results
           n == Len(old)
<1>1. old \in Seq(Results)
  BY DEF IInv, TypeOK, Checkpoints, Crawls
<1>2. n \in Nat
  BY <1>1, LenProperties
<1>3. CASE checkpoint' = checkpoint
  BY <1>1, <1>2, <1>3, SubSeqFull DEF Crawled
<1>4. CASE pc = "checkpoint" /\ checkpoint' = Numbered
  <2>1. checkpoint' # Nothing /\ checkpoint'.crawl = crawl
    BY <1>4, NumberedIsCheckpoint, NewCheckpoint DEF IInv
  <2>2. PICK r \in Results : crawl.results = Append(old, r)
    BY <1>4 DEF IInv, RunnerInv, ResumedCrawl
  <2>3. Append(old, r) \in Seq(Results) /\ Len(Append(old, r)) = n + 1
        /\ \A i \in 1 .. n : Append(old, r)[i] = old[i]
    BY <1>1, AppendProperties
  <2> DEFINE cut == SubSeq(Append(old, r), 1, n)
  <2>4. \A i \in 1 .. n : Append(old, r)[i] \in Results
    BY <1>1, <2>3, ElementOfSeq
  <2>5. cut \in Seq(Results) /\ Len(cut) = (IF 1 <= n THEN n - 1 + 1 ELSE 0)
        /\ \A i \in 1 .. n - 1 + 1 : cut[i] = Append(old, r)[1 + i - 1]
    BY <1>2, <2>4, SubSeqProperties
  <2>6. Len(cut) = n /\ \A i \in 1 .. n : cut[i] = old[i]
    <3> HIDE DEF cut, n, old
    <3> QED
      BY <1>2, <2>3, <2>5
  <2>7. cut = old
    <3> HIDE DEF cut, old
    <3> QED
      BY <1>1, <2>5, <2>6, SeqEqual
  <2>8. n <= Len(crawl.results)
    <3> DEFINE l == Len(crawl.results)
    <3>1. l = n + 1
      BY <2>2, <2>3
    <3>2. \A k \in Nat : k <= k + 1
      OBVIOUS
    <3> HIDE DEF l
    <3>3. n <= l
      BY <1>2, <3>1, <3>2, Zenon
    <3> QED
      BY <3>3 DEF l
  <2> QED
    BY <2>1, <2>2, <2>7, <2>8 DEF Crawled
<1> QED
  BY <1>3, <1>4, CheckpointMoves

(* Every checkpoint keeps the results of the one before it as its beginning. *)
THEOREM CheckpointsExtend == Spec => CheckpointsOnlyExtend
<1>1. IInv /\ [Next]_vars =>
        (checkpoint # Nothing =>
           /\ checkpoint' # Nothing
           /\ Crawled(checkpoint.crawl) <= Crawled(checkpoint'.crawl)
           /\ SubSeq(checkpoint'.crawl.results, 1, Crawled(checkpoint.crawl))
                 = checkpoint.crawl.results)
  BY StepExtends
<1> QED
  BY <1>1, CrawlInvariant, PTL DEF Spec, CheckpointsOnlyExtend
=============================================================================

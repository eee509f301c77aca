----------------------------- MODULE ReleasesProofs -----------------------------
(* Proofs about Releases, for every set of commands and versions, all ranges *)
(* and channels, configured or not, and every length of the history.         *)
EXTENDS Releases, SequenceTheorems, WellFoundedInduction, TLAPS

-----------------------------------------------------------------------------
(* What the variables hold.                                                  *)
Entries == [kind : Kinds, version : Versions]
Records == [active : Sets, history : Seq(Entries)]
Changes == UNION {[kinds -> Versions] : kinds \in SUBSET Kinds}
Tasks ==
  [op : {"none", "apply", "install", "activate", "rollback", "job", "create"},
   kinds : SUBSET Kinds, new : Changes,
   choice : {"none", "activate", "keep", "managed", "explicit"}]
Views ==
  [set : Sets, running : Versions \cup {None}, next : 1 .. Len(Order) + 1, updated : SUBSET Kinds]
Steps ==
  {"idle", "plan", "evaluate", "install", "assert", "commit", "write", "vet", "revert", "load",
   "check", "create", "pin"}

Typed ==
  /\ installed \in [Kinds -> SUBSET Versions]
  /\ current \in Records
  /\ published \in [Kinds -> Nat] /\ \A kind \in Kinds : published[kind] \in DOMAIN Channel[kind]
  /\ pc \in [Commands -> Steps]
  /\ task \in [Commands -> Tasks]
  /\ seen \in [Commands -> Views]
  /\ todo \in [Commands -> Seq(Kinds)]
  /\ file \in [Commands -> Records \cup {None}]
  /\ missed \in [Commands -> {"none", "before", "after"}]
  /\ raced \in BOOLEAN

(* A current.json that names what is installed, goes back only for kinds     *)
(* that are active, and never to the version that is.                        *)
Stocked(cur) ==
  /\ \A kind \in Kinds : cur.active[kind] \in installed[kind] \cup {None}
  /\ \A i \in DOMAIN cur.history : cur.history[i].version \in installed[cur.history[i].kind]

NewestOfKind(history, i) ==
  \A j \in DOMAIN history : j < i => history[j].kind # history[i].kind

LeadsBack(active, history) ==
  \A i \in DOMAIN history :
    /\ active[history[i].kind] # None
    /\ NewestOfKind(history, i) => history[i].version # active[history[i].kind]

GoesBack(cur) == Len(cur.history) <= HistoryLimit /\ LeadsBack(cur.active, cur.history)

Sound(cur) == cur \in Records /\ Stocked(cur) /\ GoesBack(cur)

FileInv == Sound(current) /\ \A p \in Commands : pc[p] = "write" => Sound(file[p])

(* Where a command is, and what it has still to install of what it chose:    *)
(* once nothing is left, activateSet does not refuse it as not installed.    *)
JobSteps == {"load", "check", "install", "assert", "commit", "write", "create"}

CommandOK(p) ==
  /\ pc[p] = "plan" => task[p].op = "apply"
  /\ pc[p] = "evaluate" => task[p].op = "install"
  /\ pc[p] \in {"load", "check", "create"} => task[p].op = "job"
  /\ task[p].op = "job" => pc[p] \in JobSteps /\ task[p].choice \in {"managed", "explicit"}
  /\ pc[p] = "pin" <=> task[p].op = "create"
  /\ pc[p] # "install" => todo[p] = <<>>
  /\ \A i \in DOMAIN todo[p] : todo[p][i] \in DOMAIN task[p].new
  /\ \A kind \in DOMAIN task[p].new :
       \/ task[p].new[kind] \in installed[kind]
       \/ \E i \in DOMAIN todo[p] : todo[p][i] = kind

(* A Workflow runs when a Job is created.                                    *)
RunsOK(p) == task[p].op \in {"job", "create"} => seen[p].running # None

Ways == {"managed", "explicit", "create", "refresh"}

PinsOK(job) == job.pins \in Sets /\ job.pins["workflow"] # None /\ job.by \in Ways

CommandInv == (\A p \in Commands : CommandOK(p) /\ RunsOK(p)) /\ \A job \in jobs : PinsOK(job)

(* The active set fits, and so does what replaces it, until an activation    *)
(* has rested on a check that had missed a write.                            *)
Fit(active) ==
  active["workflow"] # None \/ active["knowledge"] # None =>
    CompatibleSet(WithBundled(active), PlainOf(active))

RacedInv ==
  ~raced =>
    /\ Fit(current.active)
    /\ \A p \in Commands : pc[p] = "write" => Fit(file[p].active)

(* What a command has checked since it last missed a write.                  *)
ChecksHold(p) ==
  /\ pc[p] = "plan" => seen[p].set = current.active
  /\ pc[p] = "commit" \/ (pc[p] = "install" /\ task[p].op = "apply") =>
       Fit(Override(current.active, task[p].new))

(* What the command of a new Job knows as long as it has missed no write.    *)
Judged(p) == task[p].choice = "managed" \/ current.active["converter"] = None

JobKnows(p) ==
  /\ seen[p].running = WithBundled(current.active)["workflow"]
  /\ pc[p] # "load" => seen[p].set["workflow"] = seen[p].running
  /\ task[p].choice = "managed" =>
       /\ current.active["converter"] # None
       /\ pc[p] # "create" => \/ seen[p].set["converter"] = current.active["converter"]
                              \/ "converter" \in seen[p].updated
  /\ pc[p] \in {"install", "assert", "commit", "write"} => DOMAIN task[p].new \subseteq seen[p].updated
  /\ pc[p] = "write" => file[p].active = Override(current.active, task[p].new)
  /\ pc[p] = "create" /\ Judged(p) => CompatibleSet(Pins(p), Bare(p))

Knows(p) ==
  /\ task[p].op = "job" => JobKnows(p)
  /\ pc[p] = "pin" => seen[p].running = WithBundled(current.active)["workflow"]

CheckInv ==
  \A p \in Commands :
    /\ missed[p] # "after" => ChecksHold(p)
    /\ missed[p] = "none" => Knows(p)

IInv == Typed /\ FileInv /\ CommandInv /\ RacedInv /\ CheckInv /\ JobsAreCompatible

-----------------------------------------------------------------------------
(* The history.                                                              *)
LEMMA LeastExists ==
  ASSUME NEW S \in SUBSET Nat, S # {}
  PROVE  \E i \in S : \A j \in S : i <= j
<1> DEFINE Less == {pair \in Nat \X Nat : pair[1] < pair[2]}
<1>1. IsWellFoundedOn(Less, Nat)
  BY NatLessThanWellFounded DEF OpToRel
<1> HIDE DEF Less
<1>2. PICK i \in S : \A j \in S : <<j, i>> \notin Less
  BY <1>1, WFMin
<1>3. ASSUME NEW j \in S PROVE i <= j
  <2>1. i \in Nat /\ j \in Nat /\ <<j, i>> \notin Less
    BY <1>2
  <2>2. ~(j < i)
    BY <2>1 DEF Less
  <2> QED
    BY <2>1, <2>2
<1> QED
  BY <1>3

Without(s, n) == SubSeq(s, 1, n - 1) \o SubSeq(s, n + 1, Len(s))

LEMMA RemoveOne ==
  ASSUME NEW s \in Seq(Entries), NEW n \in 1 .. Len(s)
  PROVE  /\ Without(s, n) \in Seq(Entries) /\ Len(Without(s, n)) = Len(s) - 1
         /\ \A i \in 1 .. Len(Without(s, n)) :
              Without(s, n)[i] = IF i < n THEN s[i] ELSE s[i + 1]
<1> DEFINE S == Entries
           rest == Without(s, n)
           a == SubSeq(s, 1, n - 1)
           b == SubSeq(s, n + 1, Len(s))
<1>0. Len(s) \in Nat /\ n \in Nat /\ n - 1 \in Int /\ n + 1 \in Int
      /\ \A i \in 1 .. Len(s) : s[i] \in S
  BY LenProperties, ElementOfSeq
<1>1. a \in Seq(S) /\ Len(a) = n - 1 /\ \A i \in 1 .. n - 1 : a[i] = s[i]
  <2>1. \A i \in 1 .. n - 1 : s[i] \in S
    BY <1>0
  <2> QED
    BY <1>0, <2>1, SubSeqProperties
<1>2. b \in Seq(S) /\ Len(b) = Len(s) - n /\ \A i \in 1 .. Len(s) - n : b[i] = s[n + i]
  <2>1. \A i \in n + 1 .. Len(s) : s[i] \in S
    BY <1>0
  <2>2. /\ b \in Seq(S) /\ Len(b) = IF n + 1 <= Len(s) THEN Len(s) - (n + 1) + 1 ELSE 0
        /\ \A i \in 1 .. Len(s) - (n + 1) + 1 : b[i] = s[(n + 1) + i - 1]
    BY <1>0, <2>1, SubSeqProperties
  <2> QED
    BY <1>0, <2>2
<1> HIDE DEF a, b
<1>3. /\ rest \in Seq(S) /\ Len(rest) = Len(a) + Len(b)
      /\ \A i \in 1 .. Len(a) + Len(b) : rest[i] = IF i <= Len(a) THEN a[i] ELSE b[i - Len(a)]
  BY <1>1, <1>2, ConcatProperties DEF a, b, Without
<1>4. Len(rest) = Len(s) - 1
  BY <1>0, <1>1, <1>2, <1>3
<1>5. ASSUME NEW i \in 1 .. Len(rest) PROVE rest[i] = IF i < n THEN s[i] ELSE s[i + 1]
  <2>1. i \in 1 .. Len(a) + Len(b) /\ Len(a) = n - 1 /\ i \in Nat
    BY <1>0, <1>1, <1>2, <1>3
  <2>2. CASE i < n
    BY <1>0, <1>1, <1>3, <2>1, <2>2
  <2>3. CASE ~(i < n)
    <3>0. ~(i <= Len(a))
      BY <1>0, <2>1, <2>3
    <3>1. rest[i] = b[i - (n - 1)]
      BY <1>3, <2>1, <3>0
    <3>2. i - (n - 1) \in 1 .. Len(s) - n /\ n + (i - (n - 1)) = i + 1
      BY <1>0, <1>2, <2>1, <2>3
    <3> QED
      BY <1>2, <2>3, <3>1, <3>2
  <2> QED
    BY <2>2, <2>3
<1> QED
  BY <1>3, <1>4, <1>5

(* An entry in front.                                                        *)
LEMMA PushEntry ==
  ASSUME NEW h \in Seq(Entries), NEW e \in Entries
  PROVE  /\ <<e>> \o h \in Seq(Entries) /\ Len(<<e>> \o h) = Len(h) + 1
         /\ (<<e>> \o h)[1] = e
         /\ \A i \in 1 .. Len(h) : (<<e>> \o h)[i + 1] = h[i]
<1>1. <<e>> \in Seq(Entries) /\ Len(<<e>>) = 1 /\ <<e>>[1] = e
  OBVIOUS
<1>2. /\ <<e>> \o h \in Seq(Entries) /\ Len(<<e>> \o h) = 1 + Len(h)
      /\ \A i \in 1 .. 1 + Len(h) :
           (<<e>> \o h)[i] = IF i <= 1 THEN <<e>>[i] ELSE h[i - 1]
  BY <1>1, ConcatProperties
<1> QED
  BY <1>1, <1>2, LenProperties

(* One kind is activated.                                                    *)
Replaced(a, kind, version) ==
  IF a[kind] \notin {None, version} THEN <<[kind |-> kind, version |-> a[kind]]>> ELSE <<>>

LEMMA PushLeadsBack ==
  ASSUME NEW a \in Sets, NEW h \in Seq(Entries), LeadsBack(a, h),
         NEW kind \in Kinds, NEW version \in Versions
  PROVE  /\ Replaced(a, kind, version) \o h \in Seq(Entries)
         /\ LeadsBack([a EXCEPT ![kind] = version], Replaced(a, kind, version) \o h)
<1> DEFINE b == [a EXCEPT ![kind] = version]
           e == [kind |-> kind, version |-> a[kind]]
           g == Replaced(a, kind, version) \o h
<1>0. /\ b \in Sets /\ b[kind] = version /\ version # None
      /\ \A k \in Kinds \ {kind} : b[k] = a[k]
      /\ a[kind] \in Versions \cup {None}
  BY VersionAssumption DEF Sets
<1>1. DOMAIN h = 1 .. Len(h) /\ \A i \in DOMAIN h : h[i].kind \in Kinds
  <2>1. DOMAIN h = 1 .. Len(h) /\ \A i \in DOMAIN h : h[i] \in Entries
    BY LenProperties, ElementOfSeq
  <2> QED
    BY <2>1 DEF Entries
<1>g. g = IF a[kind] \notin {None, version} THEN <<e>> \o h ELSE h
  BY ConcatEmptySeq DEF Replaced
<1> HIDE DEF b, g
<1>2. CASE a[kind] \notin {None, version}
  <2>1. e \in Entries /\ e.kind = kind /\ e.version = a[kind]
    BY <1>0, <1>2 DEF Entries
  <2> HIDE DEF e
  <2>2. /\ g \in Seq(Entries) /\ Len(g) = Len(h) + 1 /\ g[1] = e
        /\ \A i \in 1 .. Len(h) : g[i + 1] = h[i]
    BY <1>2, <1>g, <2>1, PushEntry DEF e
  <2>3. ASSUME NEW i \in DOMAIN g
        PROVE  /\ b[g[i].kind] # None
               /\ NewestOfKind(g, i) => g[i].version # b[g[i].kind]
    <3>0. i \in 1 .. Len(h) + 1 /\ Len(h) \in Nat /\ DOMAIN g = 1 .. Len(h) + 1
      BY <2>2, LenProperties
    <3>1. CASE i = 1
      BY <1>0, <1>2, <2>1, <2>2, <3>1
    <3>2. CASE i # 1
      <4>1. PICK m \in DOMAIN h : m = i - 1 /\ g[i] = h[m] /\ m \in 1 .. Len(h)
        BY <2>2, <3>0, <3>2
      <4>2. CASE h[m].kind = kind
        <5>1. 1 \in DOMAIN g /\ 1 < i /\ g[1].kind = g[i].kind
          BY <2>1, <2>2, <3>0, <3>2, <4>1, <4>2
        <5>2. ~NewestOfKind(g, i)
          BY <5>1 DEF NewestOfKind
        <5> QED
          BY <1>0, <4>1, <4>2, <5>2
      <4>3. CASE h[m].kind # kind
        <5>1. NewestOfKind(g, i) => NewestOfKind(h, m)
          <6> SUFFICES ASSUME NewestOfKind(g, i), NEW j \in DOMAIN h, j < m
                       PROVE  h[j].kind # h[m].kind
            BY DEF NewestOfKind
          <6>0. j \in 1 .. Len(h)
            BY <1>1
          <6>1. j + 1 \in DOMAIN g /\ j + 1 < i /\ g[j + 1] = h[j]
            BY <2>2, <3>0, <4>1, <6>0
          <6> QED
            BY <4>1, <6>1 DEF NewestOfKind
        <5>2. b[h[m].kind] = a[h[m].kind]
          BY <1>0, <1>1, <4>3
        <5> QED
          BY <4>1, <5>1, <5>2 DEF LeadsBack
      <4> QED
        BY <4>2, <4>3
    <3> QED
      BY <3>1, <3>2
  <2> QED
    BY <2>2, <2>3 DEF LeadsBack, b, g
<1>3. CASE a[kind] \in {None, version}
  <2>1. \A i \in DOMAIN h : b[h[i].kind] = a[h[i].kind]
    BY <1>0, <1>1, <1>3 DEF LeadsBack
  <2> QED
    BY <1>3, <1>g, <2>1 DEF LeadsBack, b, g
<1> QED
  BY <1>2, <1>3

LEMMA PrefixLeadsBack ==
  ASSUME NEW a \in Sets, NEW h \in Seq(Entries), LeadsBack(a, h)
  PROVE  /\ Recent(h) \in Seq(Entries) /\ Len(Recent(h)) <= HistoryLimit
         /\ LeadsBack(a, Recent(h))
         /\ \A i \in DOMAIN Recent(h) : i \in DOMAIN h /\ Recent(h)[i] = h[i]
<1>0. /\ HistoryLimit \in Nat \ {0} /\ Len(h) \in Nat /\ DOMAIN h = 1 .. Len(h)
      /\ \A i \in 1 .. Len(h) : h[i] \in Entries
  BY LenProperties, ElementOfSeq, ReleaseBounds
<1>1. CASE Len(h) <= HistoryLimit
  BY <1>0, <1>1 DEF Recent
<1>2. CASE ~(Len(h) <= HistoryLimit)
  <2> DEFINE r == SubSeq(h, 1, HistoryLimit)
  <2>1. /\ r \in Seq(Entries) /\ Len(r) = IF 1 <= HistoryLimit THEN HistoryLimit - 1 + 1 ELSE 0
        /\ \A i \in 1 .. HistoryLimit - 1 + 1 : r[i] = h[1 + i - 1]
    <3>1. \A i \in 1 .. HistoryLimit : h[i] \in Entries
      BY <1>0, <1>2
    <3> QED
      BY <1>0, <3>1, SubSeqProperties
  <2> HIDE DEF r
  <2>2. /\ Len(r) = HistoryLimit /\ DOMAIN r = 1 .. HistoryLimit
        /\ \A i \in 1 .. HistoryLimit : r[i] = h[i] /\ i \in DOMAIN h
    BY <1>0, <1>2, <2>1, LenProperties
  <2>3. \A i \in DOMAIN r : NewestOfKind(r, i) => NewestOfKind(h, i)
    <3> SUFFICES ASSUME NEW i \in DOMAIN r, NewestOfKind(r, i), NEW j \in DOMAIN h, j < i
                 PROVE  h[j].kind # h[i].kind
      BY DEF NewestOfKind
    <3>1. j \in DOMAIN r
      BY <1>0, <2>2
    <3> QED
      BY <2>2, <3>1 DEF NewestOfKind
  <2>4. LeadsBack(a, r)
    BY <2>2, <2>3 DEF LeadsBack
  <2>5. Recent(h) = r
    BY <1>2 DEF Recent, r
  <2> QED
    BY <1>0, <2>1, <2>2, <2>4, <2>5
<1> QED
  BY <1>1, <1>2

LEMMA EntriesAssociate ==
  \A s, t, u \in Seq(Entries) : (s \o t) \o u = s \o (t \o u)
  BY ConcatAssociative

LEMMA KindsAre == Kinds = {"workflow", "converter", "knowledge"}
  BY DEF Kinds

LEMMA ChangesAre ==
  \A new : new \in Changes <=>
    /\ DOMAIN new \subseteq Kinds /\ new = [kind \in DOMAIN new |-> new[kind]]
    /\ \A kind \in DOMAIN new : new[kind] \in Versions
  BY DEF Changes

(* activateSet of installed versions.                                        *)
LEMMA ActivatedIsSound ==
  ASSUME NEW cur, Sound(cur), NEW new \in Changes,
         \A kind \in DOMAIN new : new[kind] \in installed[kind]
  PROVE  Sound(Activated(cur, new)) /\ Activated(cur, new).active = Override(cur.active, new)
<1> DEFINE a0 == cur.active
           Entry(kind) == IF kind \in DOMAIN new /\ Replaces(cur.active, kind, new[kind])
                          THEN <<[kind |-> kind, version |-> cur.active[kind]]>> ELSE <<>>
           Over(a, kind) == IF kind \in DOMAIN new THEN [a EXCEPT ![kind] = new[kind]] ELSE a
           a1 == Over(a0, "workflow")
           a2 == Over(a1, "converter")
           a3 == Over(a2, "knowledge")
           h1 == Entry("workflow") \o cur.history
           h2 == Entry("converter") \o h1
           h3 == Entry("knowledge") \o h2
<1>1. a0 \in Sets /\ cur.history \in Seq(Entries) /\ LeadsBack(a0, cur.history)
  BY DEF Sound, Records, GoesBack
<1>2. ASSUME NEW kind \in Kinds, NEW a \in Sets, NEW h \in Seq(Entries), LeadsBack(a, h),
             a[kind] = cur.active[kind]
      PROVE  /\ Over(a, kind) \in Sets
             /\ Entry(kind) \o h \in Seq(Entries) /\ LeadsBack(Over(a, kind), Entry(kind) \o h)
             /\ Entry(kind) \in Seq(Entries)
             /\ \A k \in Kinds \ {kind} : Over(a, kind)[k] = a[k]
             /\ Over(a, kind)[kind] = IF kind \in DOMAIN new THEN new[kind] ELSE a[kind]
  <2>1. CASE kind \in DOMAIN new
    <3>1. new[kind] \in Versions
      BY <2>1, ChangesAre
    <3>2. Entry(kind) = Replaced(a, kind, new[kind]) /\ Over(a, kind) = [a EXCEPT ![kind] = new[kind]]
      BY <1>2, <2>1 DEF Replaces, Replaced
    <3>4. Entry(kind) \in Seq(Entries)
      <4>1. a[kind] \in Versions \cup {None}
        BY <1>2 DEF Sets
      <4>2. CASE a[kind] \in Versions
        <5>1. [kind |-> kind, version |-> a[kind]] \in Entries
          BY <4>2 DEF Entries
        <5>2. <<[kind |-> kind, version |-> a[kind]]>> \in Seq(Entries) /\ <<>> \in Seq(Entries)
          BY <5>1
        <5> QED
          BY <3>2, <5>2 DEF Replaced
      <4>3. CASE a[kind] = None
        BY <3>2, <4>3 DEF Replaced
      <4> QED
        BY <4>1, <4>2, <4>3
    <3>6. Entry(kind) \o h \in Seq(Entries) /\ LeadsBack(Over(a, kind), Entry(kind) \o h)
      <4> HIDE DEF Entry, Over
      <4>1. /\ Replaced(a, kind, new[kind]) \o h \in Seq(Entries)
            /\ LeadsBack([a EXCEPT ![kind] = new[kind]], Replaced(a, kind, new[kind]) \o h)
        BY <1>2, <3>1, PushLeadsBack
      <4> QED
        BY <3>2, <4>1
    <3>7. /\ Over(a, kind) \in Sets /\ Over(a, kind)[kind] = new[kind]
          /\ \A k \in Kinds \ {kind} : Over(a, kind)[k] = a[k]
      BY <1>2, <3>1, <3>2 DEF Sets
    <3> QED
      BY <2>1, <3>4, <3>6, <3>7
  <2>2. CASE kind \notin DOMAIN new
    <3>1. Entry(kind) = <<>> /\ Over(a, kind) = a
      BY <2>2
    <3> QED
      BY <1>2, <2>2, <3>1, ConcatEmptySeq
  <2> QED
    BY <2>1, <2>2
<1> HIDE DEF Entry, Over, a0
<1>3. /\ a1 \in Sets /\ h1 \in Seq(Entries) /\ LeadsBack(a1, h1)
      /\ Entry("workflow") \in Seq(Entries)
      /\ a1["converter"] = cur.active["converter"] /\ a1["knowledge"] = cur.active["knowledge"]
      /\ a1["workflow"] = IF "workflow" \in DOMAIN new THEN new["workflow"]
                          ELSE cur.active["workflow"]
  BY <1>1, <1>2, KindsAre DEF a0
<1> HIDE DEF a1, h1
<1>4. /\ a2 \in Sets /\ h2 \in Seq(Entries) /\ LeadsBack(a2, h2)
      /\ Entry("converter") \in Seq(Entries)
      /\ a2["workflow"] = a1["workflow"] /\ a2["knowledge"] = cur.active["knowledge"]
      /\ a2["converter"] = IF "converter" \in DOMAIN new THEN new["converter"]
                           ELSE cur.active["converter"]
  BY <1>2, <1>3, KindsAre
<1> HIDE DEF a2, h2
<1>5. /\ a3 \in Sets /\ h3 \in Seq(Entries) /\ LeadsBack(a3, h3)
      /\ Entry("knowledge") \in Seq(Entries)
      /\ a3["workflow"] = a2["workflow"] /\ a3["converter"] = a2["converter"]
      /\ a3["knowledge"] = IF "knowledge" \in DOMAIN new THEN new["knowledge"]
                           ELSE cur.active["knowledge"]
  BY <1>2, <1>4, KindsAre
<1> HIDE DEF a3, h3
<1>6. a3 = Override(cur.active, new)
  BY <1>3, <1>4, <1>5, KindsAre DEF Override, Sets
<1>7. h3 = Entry("knowledge") \o Entry("converter") \o Entry("workflow") \o cur.history
  <2>1. /\ Entry("knowledge") \o Entry("converter") \in Seq(Entries)
    BY <1>4, <1>5, ConcatProperties
  <2>2. h2 = (Entry("converter") \o Entry("workflow")) \o cur.history
    BY <1>1, <1>3, <1>4, EntriesAssociate DEF h1, h2
  <2>3. Entry("converter") \o Entry("workflow") \in Seq(Entries)
    BY <1>3, <1>4, ConcatProperties
  <2>4. h3 = (Entry("knowledge") \o (Entry("converter") \o Entry("workflow"))) \o cur.history
    BY <1>1, <1>5, <2>2, <2>3, EntriesAssociate, Zenon DEF h3
  <2>5. Entry("knowledge") \o (Entry("converter") \o Entry("workflow"))
          = (Entry("knowledge") \o Entry("converter")) \o Entry("workflow")
    BY <1>3, <1>4, <1>5, EntriesAssociate, Zenon
  <2> QED
    BY <2>4, <2>5
<1>8. /\ Activated(cur, new).active = a3 /\ Activated(cur, new).history = Recent(h3)
      /\ Activated(cur, new) = [active |-> a3, history |-> Recent(h3)]
  BY <1>6, <1>7 DEF Activated, Entry
<1>9. /\ Recent(h3) \in Seq(Entries) /\ Len(Recent(h3)) <= HistoryLimit /\ LeadsBack(a3, Recent(h3))
      /\ \A i \in DOMAIN Recent(h3) : i \in DOMAIN h3 /\ Recent(h3)[i] = h3[i]
  BY <1>5, PrefixLeadsBack
<1>10. Stocked(Activated(cur, new))
  <2>1. \A kind \in Kinds : a3[kind] \in installed[kind] \cup {None}
    BY <1>6 DEF Override, Sound, Stocked
  <2>2. \A i \in DOMAIN cur.history : cur.history[i].version \in installed[cur.history[i].kind]
    BY DEF Sound, Stocked
  <2>3. ASSUME NEW kind \in Kinds, NEW h \in Seq(Entries),
               \A i \in DOMAIN h : h[i].version \in installed[h[i].kind]
        PROVE  \A i \in DOMAIN (Entry(kind) \o h) :
                 (Entry(kind) \o h)[i].version \in installed[(Entry(kind) \o h)[i].kind]
    <3>1. CASE Entry(kind) = <<>>
      BY <2>3, <3>1, ConcatEmptySeq
    <3>2. CASE Entry(kind) # <<>>
      <4>1. /\ Entry(kind) = <<[kind |-> kind, version |-> cur.active[kind]]>>
            /\ cur.active[kind] # None
        BY <3>2 DEF Entry, Replaces
      <4>2. cur.active[kind] \in installed[kind] /\ cur.active[kind] \in Versions
        BY <4>1, <1>1 DEF Sound, Stocked, a0, Sets
      <4> DEFINE e == [kind |-> kind, version |-> cur.active[kind]]
      <4>3. e \in Entries /\ e.version \in installed[e.kind]
        BY <4>2 DEF Entries
      <4> HIDE DEF e
      <4>4. /\ <<e>> \o h \in Seq(Entries) /\ Len(<<e>> \o h) = Len(h) + 1
            /\ (<<e>> \o h)[1] = e
            /\ \A i \in 1 .. Len(h) : (<<e>> \o h)[i + 1] = h[i]
        BY <4>3, PushEntry
      <4>5. Entry(kind) = <<e>>
        BY <4>1 DEF e
      <4> SUFFICES ASSUME NEW i \in DOMAIN (<<e>> \o h)
                   PROVE  (<<e>> \o h)[i].version \in installed[(<<e>> \o h)[i].kind]
        BY <4>5
      <4>6. i \in 1 .. Len(h) + 1 /\ Len(h) \in Nat
        BY <4>4, LenProperties
      <4>7. CASE i = 1
        BY <4>3, <4>4, <4>7
      <4>8. CASE i # 1
        <5>1. i - 1 \in DOMAIN h /\ (<<e>> \o h)[i] = h[i - 1]
          BY <4>4, <4>6, <4>8, LenProperties
        <5> QED
          BY <2>3, <5>1
      <4> QED
        BY <4>7, <4>8
    <3> QED
      BY <3>1, <3>2
  <2>4. \A i \in DOMAIN h1 : h1[i].version \in installed[h1[i].kind]
    BY <1>1, <2>2, <2>3, KindsAre DEF h1
  <2>5. \A i \in DOMAIN h2 : h2[i].version \in installed[h2[i].kind]
    BY <1>3, <2>3, <2>4, KindsAre DEF h2
  <2>6. \A i \in DOMAIN h3 : h3[i].version \in installed[h3[i].kind]
    BY <1>4, <2>3, <2>5, KindsAre DEF h3
  <2> QED
    BY <1>8, <1>9, <2>1, <2>6 DEF Stocked
<1> QED
  BY <1>5, <1>6, <1>8, <1>9, <1>10 DEF Sound, Records, GoesBack

(* The entry that is gone back to.                                           *)
LEMMA TargetIs ==
  ASSUME NEW cur, Sound(cur), NEW kind \in Kinds, Returnable(cur, kind) # {}
  PROVE  /\ TargetIndex(cur, kind) \in 1 .. Len(cur.history)
         /\ cur.history[TargetIndex(cur, kind)].kind = kind
         /\ NewestOfKind(cur.history, TargetIndex(cur, kind))
         /\ Target(cur, kind) \in Versions /\ Target(cur, kind) \in installed[kind]
         /\ cur.active[kind] # None /\ Target(cur, kind) # cur.active[kind]
<1> DEFINE h == cur.history
           n == TargetIndex(cur, kind)
<1>0. /\ h \in Seq(Entries) /\ LeadsBack(cur.active, h)
      /\ \A i \in DOMAIN h : h[i].version \in installed[h[i].kind]
  BY DEF Sound, Records, GoesBack, Stocked
<1>1. DOMAIN h = 1 .. Len(h) /\ Len(h) \in Nat /\ \A i \in DOMAIN h : h[i] \in Entries
  BY <1>0, LenProperties, ElementOfSeq
<1>2. Returnable(cur, kind) \in SUBSET Nat
  BY <1>1 DEF Returnable
<1>3. \E i \in Returnable(cur, kind) : \A j \in Returnable(cur, kind) : i <= j
  BY <1>2, LeastExists
<1>4. n \in Returnable(cur, kind) /\ \A j \in Returnable(cur, kind) : n <= j
  BY <1>3, Zenon DEF TargetIndex
<1>5. n \in DOMAIN h /\ h[n].kind = kind /\ h[n].version \in installed[kind]
  BY <1>4 DEF Returnable
<1>6. NewestOfKind(h, n)
  <2> SUFFICES ASSUME NEW j \in DOMAIN h, j < n PROVE h[j].kind # kind
    BY <1>5 DEF NewestOfKind
  <2>1. SUFFICES ASSUME h[j].kind = kind PROVE FALSE
    OBVIOUS
  <2>2. j \in Returnable(cur, kind)
    BY <1>0, <2>1 DEF Returnable
  <2>3. n <= j /\ n \in Nat /\ j \in Nat
    BY <1>1, <1>4, <1>5, <2>2
  <2> QED
    BY <2>3
<1> HIDE DEF n
<1>7. h[n].version \in Versions /\ cur.active[kind] # None /\ h[n].version # cur.active[kind]
  BY <1>0, <1>1, <1>5, <1>6 DEF LeadsBack, Entries
<1> QED
  BY <1>1, <1>5, <1>6, <1>7 DEF Target, n

(* rollback.                                                                 *)
LEMMA RolledBackIsSound ==
  ASSUME NEW cur, Sound(cur), NEW kind \in Kinds, Returnable(cur, kind) # {}
  PROVE  Sound(RolledBack(cur, kind))
<1> DEFINE a == cur.active
           h == cur.history
           n == TargetIndex(cur, kind)
           t == Target(cur, kind)
           b == [a EXCEPT ![kind] = t]
           e == [kind |-> kind, version |-> a[kind]]
           rest == Without(h, n)
           g == <<e>> \o rest
<1>0. /\ a \in Sets /\ h \in Seq(Entries) /\ LeadsBack(a, h) /\ Len(h) <= HistoryLimit
      /\ \A i \in DOMAIN h : h[i].version \in installed[h[i].kind]
      /\ \A k \in Kinds : a[k] \in installed[k] \cup {None}
  BY DEF Sound, Records, GoesBack, Stocked
<1>1. /\ n \in 1 .. Len(h) /\ h[n].kind = kind /\ NewestOfKind(h, n)
      /\ t \in Versions /\ t \in installed[kind] /\ a[kind] # None /\ t # a[kind]
  BY TargetIs
<1>2. RolledBack(cur, kind) = [active |-> b, history |-> g]
  BY <1>1 DEF RolledBack, Without
<1>3. DOMAIN h = 1 .. Len(h) /\ Len(h) \in Nat /\ \A i \in DOMAIN h : h[i].kind \in Kinds
  <2>1. DOMAIN h = 1 .. Len(h) /\ Len(h) \in Nat /\ \A i \in DOMAIN h : h[i] \in Entries
    BY <1>0, LenProperties, ElementOfSeq
  <2> QED
    BY <2>1 DEF Entries
<1>4. e \in Entries /\ e.kind = kind /\ e.version = a[kind] /\ a[kind] \in installed[kind]
  BY <1>0, <1>1 DEF Entries, Sets
<1>5. /\ b \in Sets /\ b[kind] = t /\ t # None
      /\ \A k \in Kinds \ {kind} : b[k] = a[k]
  BY <1>0, <1>1, VersionAssumption DEF Sets
<1> HIDE DEF a, h, n, t, b, e
<1>6. /\ rest \in Seq(Entries) /\ Len(rest) = Len(h) - 1
      /\ \A i \in 1 .. Len(rest) : rest[i] = IF i < n THEN h[i] ELSE h[i + 1]
  BY <1>0, <1>1, RemoveOne
<1> HIDE DEF rest
<1>7. /\ g \in Seq(Entries) /\ Len(g) = Len(rest) + 1 /\ g[1] = e
      /\ \A i \in 1 .. Len(rest) : g[i + 1] = rest[i]
  BY <1>4, <1>6, PushEntry
<1> HIDE DEF g
<1>8. DOMAIN g = 1 .. Len(h) /\ Len(g) = Len(h) /\ n \in Nat
  BY <1>1, <1>3, <1>6, <1>7, LenProperties
(* Where an entry was.                                                       *)
<1> DEFINE Before(i) == IF i - 1 < n THEN i - 1 ELSE i
<1>9. ASSUME NEW i \in DOMAIN g, i # 1
      PROVE  Before(i) \in DOMAIN h /\ Before(i) # n /\ g[i] = h[Before(i)]
  <2>1. i \in Nat /\ i - 1 \in 1 .. Len(rest) /\ (i - 1) + 1 = i
    BY <1>3, <1>6, <1>8, <1>9
  <2>2. g[i] = IF i - 1 < n THEN h[i - 1] ELSE h[i]
    BY <1>6, <1>7, <2>1
  <2> QED
    BY <1>3, <1>6, <1>8, <2>1, <2>2
(* Every other entry is still there, in the same order.                      *)
<1> DEFINE After(j) == IF j < n THEN j + 1 ELSE j
<1>10. ASSUME NEW j \in DOMAIN h, j # n
       PROVE  After(j) \in DOMAIN g /\ After(j) # 1 /\ g[After(j)] = h[j] /\ Before(After(j)) = j
  <2>1. /\ j \in Nat /\ j >= 1 /\ n >= 1 /\ After(j) \in 1 .. Len(h) /\ After(j) # 1
        /\ Before(After(j)) = j
    BY <1>1, <1>3, <1>8, <1>10
  <2> QED
    BY <1>8, <1>9, <2>1
<1>11. ASSUME NEW i \in DOMAIN g, i # 1, NEW j \in DOMAIN h, j # n, j < Before(i)
       PROVE  After(j) < i
  BY <1>3, <1>8, <1>11
<1> HIDE DEF Before, After
<1>12. ASSUME NEW i \in DOMAIN g
       PROVE  /\ b[g[i].kind] # None
              /\ NewestOfKind(g, i) => g[i].version # b[g[i].kind]
              /\ g[i].version \in installed[g[i].kind]
  <2>1. CASE i = 1
    BY <1>1, <1>4, <1>5, <1>7, <2>1
  <2>2. CASE i # 1
    <3> DEFINE m == Before(i)
    <3>1. m \in DOMAIN h /\ m # n /\ g[i] = h[m] /\ h[m].version \in installed[h[m].kind]
      BY <1>0, <1>9, <2>2
    <3>2. CASE h[m].kind = kind
      <4>1. 1 \in DOMAIN g /\ 1 < i /\ g[1].kind = g[i].kind
        BY <1>4, <1>7, <1>8, <2>2, <3>1, <3>2
      <4>2. ~NewestOfKind(g, i)
        BY <4>1 DEF NewestOfKind
      <4> QED
        BY <1>5, <3>1, <3>2, <4>2
    <3>3. CASE h[m].kind # kind
      <4>1. ASSUME NewestOfKind(g, i), NEW j \in DOMAIN h, j < m, h[j].kind = h[m].kind
            PROVE  FALSE
        <5>1. j # n
          BY <1>1, <3>3, <4>1
        <5>2. After(j) \in DOMAIN g /\ g[After(j)] = h[j] /\ After(j) < i
          BY <1>10, <1>11, <2>2, <4>1, <5>1
        <5> QED
          BY <3>1, <4>1, <5>2 DEF NewestOfKind
      <4>2. NewestOfKind(g, i) => NewestOfKind(h, m)
        BY <4>1 DEF NewestOfKind
      <4>3. b[h[m].kind] = a[h[m].kind]
        BY <1>3, <1>5, <3>1, <3>3
      <4>4. a[h[m].kind] # None /\ (NewestOfKind(h, m) => h[m].version # a[h[m].kind])
        BY <1>0, <3>1 DEF LeadsBack
      <4> QED
        BY <3>1, <4>2, <4>3, <4>4
    <3> QED
      BY <3>2, <3>3
  <2> QED
    BY <2>1, <2>2
<1>13. LeadsBack(b, g) /\ Len(g) <= HistoryLimit
  BY <1>0, <1>8, <1>12 DEF LeadsBack
<1>14. \A k \in Kinds : b[k] \in installed[k] \cup {None}
  BY <1>0, <1>1, <1>5
<1> QED
  BY <1>2, <1>5, <1>7, <1>12, <1>13, <1>14 DEF Sound, Records, Stocked, GoesBack

-----------------------------------------------------------------------------
(* Sets that fit.                                                            *)
LEMMA CompatibleSame ==
  ASSUME NEW a, NEW b, NEW plain, CompatibleSet(a, plain), \A kind \in Kinds : a[kind] = b[kind]
  PROVE  CompatibleSet(b, plain)
<1>1. a["workflow"] = b["workflow"] /\ a["converter"] = b["converter"]
      /\ a["knowledge"] = b["knowledge"]
  BY KindsAre
<1>2. \A kind \in {"workflow", "converter"} : a[kind] = b[kind]
  BY <1>1
<1> QED
  BY <1>1, <1>2 DEF CompatibleSet

LEMMA CompatibleWeaker ==
  ASSUME NEW a, NEW plain, NEW more, CompatibleSet(a, plain), plain \subseteq more
  PROVE  CompatibleSet(a, more)
BY DEF CompatibleSet

LEMMA StrictlyFit ==
  ASSUME NEW a \in Sets, CompatibleSet(a, {})
  PROVE  Fit(a)
<1>1. CASE a["workflow"] # None
  BY <1>1 DEF Fit, WithBundled, PlainOf
<1>2. CASE a["workflow"] = None
  <2>1. a["knowledge"] = None
    BY <1>2 DEF CompatibleSet
  <2> QED
    BY <1>2, <2>1 DEF Fit
<1> QED
  BY <1>1, <1>2

LEMMA OverrideIsSet ==
  ASSUME NEW a \in Sets, NEW new \in Changes
  PROVE  Override(a, new) \in Sets
BY ChangesAre DEF Override, Sets

LEMMA BundledIsSet ==
  ASSUME NEW a \in Sets
  PROVE  /\ WithBundled(a) \in Sets /\ WithBundled(a)["workflow"] \in Versions
         /\ WithBundled(a)["converter"] = a["converter"]
BY VersionAssumption, KindsAre DEF WithBundled, Sets

LEMMA PayloadIs ==
  ASSUME Typed, NEW kind \in Kinds
  PROVE  /\ Payload(kind).latest \in Versions /\ Payload(kind).latest \in Payload(kind).retained
         /\ Payload(kind).retained \subseteq Versions
<1>1. published[kind] \in DOMAIN Channel[kind] /\ Channel[kind] \in Seq(Payloads)
  BY ChannelAssumption DEF Typed
<1>2. Payload(kind) \in Payloads
  BY <1>1, ElementOfSeq, LenProperties DEF Payload
<1> QED
  BY <1>1, <1>2, ChannelAssumption DEF Payload, Payloads

(* InOrder lists the kinds.                                                  *)
Members(s) == {s[i] : i \in DOMAIN s}

LEMMA ConcatMembers ==
  ASSUME NEW s \in Seq(Kinds), NEW t \in Seq(Kinds)
  PROVE  s \o t \in Seq(Kinds) /\ Members(s \o t) = Members(s) \cup Members(t)
<1>1. /\ s \o t \in Seq(Kinds) /\ Len(s \o t) = Len(s) + Len(t)
      /\ \A i \in 1 .. Len(s) + Len(t) : (s \o t)[i] = IF i <= Len(s) THEN s[i] ELSE t[i - Len(s)]
  BY ConcatProperties
<1>2. /\ Len(s) \in Nat /\ Len(t) \in Nat /\ DOMAIN s = 1 .. Len(s) /\ DOMAIN t = 1 .. Len(t)
      /\ DOMAIN (s \o t) = 1 .. Len(s) + Len(t)
  BY <1>1, LenProperties
<1>3. ASSUME NEW i \in DOMAIN (s \o t) PROVE (s \o t)[i] \in Members(s) \cup Members(t)
  <2>1. CASE i <= Len(s)
    BY <1>1, <1>2, <2>1 DEF Members
  <2>2. CASE ~(i <= Len(s))
    <3>1. i - Len(s) \in DOMAIN t /\ (s \o t)[i] = t[i - Len(s)]
      BY <1>1, <1>2, <2>2
    <3> QED
      BY <3>1 DEF Members
  <2> QED
    BY <2>1, <2>2
<1>4. ASSUME NEW i \in DOMAIN s PROVE s[i] \in Members(s \o t)
  <2>1. i \in DOMAIN (s \o t) /\ (s \o t)[i] = s[i]
    BY <1>1, <1>2
  <2> QED
    BY <2>1 DEF Members
<1>5. ASSUME NEW i \in DOMAIN t PROVE t[i] \in Members(s \o t)
  <2>1. i + Len(s) \in DOMAIN (s \o t) /\ (s \o t)[i + Len(s)] = t[i]
    BY <1>1, <1>2
  <2> QED
    BY <2>1 DEF Members
<1> QED
  BY <1>1, <1>3, <1>4, <1>5 DEF Members

LEMMA InOrderIs ==
  ASSUME NEW kinds \in SUBSET Kinds
  PROVE  InOrder(kinds) \in Seq(Kinds) /\ Members(InOrder(kinds)) = kinds
<1>1. ASSUME NEW kind \in Kinds
      PROVE  One(kind, kinds) \in Seq(Kinds) /\ Members(One(kind, kinds)) = kinds \cap {kind}
  <2>1. CASE kind \in kinds
    <3>1. One(kind, kinds) = <<kind>> /\ kinds \cap {kind} = {kind}
      BY <2>1 DEF One
    <3>2. <<kind>> \in Seq(Kinds) /\ DOMAIN <<kind>> = {1} /\ <<kind>>[1] = kind
      OBVIOUS
    <3> QED
      BY <3>1, <3>2 DEF Members
  <2>2. CASE kind \notin kinds
    <3>1. One(kind, kinds) = <<>> /\ kinds \cap {kind} = {}
      BY <2>2 DEF One
    <3>2. <<>> \in Seq(Kinds) /\ DOMAIN <<>> = {}
      OBVIOUS
    <3> QED
      BY <3>1, <3>2 DEF Members
  <2> QED
    BY <2>1, <2>2
<1> DEFINE w == One("workflow", kinds)
           c == One("converter", kinds)
           k == One("knowledge", kinds)
<1>2. /\ w \in Seq(Kinds) /\ Members(w) = kinds \cap {"workflow"}
      /\ c \in Seq(Kinds) /\ Members(c) = kinds \cap {"converter"}
      /\ k \in Seq(Kinds) /\ Members(k) = kinds \cap {"knowledge"}
  BY <1>1, KindsAre
<1> HIDE DEF w, c, k
<1>3. w \o c \in Seq(Kinds) /\ Members(w \o c) = Members(w) \cup Members(c)
  BY <1>2, ConcatMembers
<1>4. (w \o c) \o k \in Seq(Kinds) /\ Members((w \o c) \o k) = Members(w \o c) \cup Members(k)
  BY <1>2, <1>3, ConcatMembers
<1>5. InOrder(kinds) = (w \o c) \o k
  BY DEF InOrder, w, c, k
<1>6. kinds = (kinds \cap {"workflow"}) \cup (kinds \cap {"converter"}) \cup (kinds \cap {"knowledge"})
  BY KindsAre
<1> QED
  BY <1>2, <1>3, <1>4, <1>5, <1>6

-----------------------------------------------------------------------------
(* A step of one command keeps the invariant when its new place is good:     *)
(* the others see that more is installed, and when current.json changes they *)
(* have missed it.                                                           *)
Local(p) ==
  \A q \in Commands \ {p} :
    /\ pc'[q] = pc[q] /\ task'[q] = task[q] /\ seen'[q] = seen[q]
    /\ todo'[q] = todo[q] /\ file'[q] = file[q]

Grows == \A kind \in Kinds : installed[kind] \subseteq installed'[kind]

Noticed(p) ==
  \A q \in Commands \ {p} :
    \/ pc[q] = "idle"
    \/ missed'[q] = "after"
    \/ missed'[q] = missed[q] /\ current' = current

Placed(p) ==
  /\ CommandOK(p)' /\ RunsOK(p)'
  /\ missed'[p] # "after" => ChecksHold(p)'
  /\ missed'[p] = "none" => Knows(p)'

LEMMA StepKeeps ==
  ASSUME IInv, NEW p \in Commands, Typed', Local(p), Grows, Noticed(p), Placed(p),
         Sound(current)', pc'[p] = "write" => Sound(file[p])',
         ~raced' => /\ ~raced /\ Fit(current'.active)
                    /\ pc'[p] = "write" => Fit(file'[p].active),
         \A job \in jobs' \ jobs :
           PinsOK(job) /\ (Vouched(job)' => CompatibleSet(job.pins, job.plain))
  PROVE  IInv'
<1>1. FileInv'
  <2>1. ASSUME NEW q \in Commands \ {p}, pc'[q] = "write" PROVE Sound(file[q])'
    <3>1. Sound(file[q]) /\ file'[q] = file[q]
      BY <2>1 DEF IInv, FileInv, Local
    <3>2. file[q] \in Records /\ GoesBack(file[q]) /\ Stocked(file[q])
      BY <3>1 DEF Sound
    <3>3. \A i \in DOMAIN file[q].history : file[q].history[i].kind \in Kinds
      <4>1. file[q].history \in Seq(Entries)
        BY <3>2 DEF Records
      <4>2. \A i \in DOMAIN file[q].history : file[q].history[i] \in Entries
        BY <4>1, ElementOfSeq, LenProperties
      <4> QED
        BY <4>2 DEF Entries
    <3>4. Stocked(file[q])'
      BY <3>1, <3>2, <3>3 DEF Stocked, Grows
    <3>5. file'[q] \in Records /\ GoesBack(file[q])'
      BY <3>1, <3>2 DEF GoesBack, LeadsBack
    <3> QED
      BY <3>4, <3>5 DEF Sound
  <2> QED
    BY <2>1 DEF FileInv
<1>2. CommandInv'
  <2>1. ASSUME NEW q \in Commands \ {p} PROVE CommandOK(q)' /\ RunsOK(q)'
    <3>1. /\ CommandOK(q) /\ RunsOK(q)
          /\ pc'[q] = pc[q] /\ task'[q] = task[q] /\ seen'[q] = seen[q] /\ todo'[q] = todo[q]
      BY DEF IInv, CommandInv, Local
    <3>2. DOMAIN task[q].new \subseteq Kinds
      BY ChangesAre DEF IInv, Typed, Tasks
    <3>3. CommandOK(q)'
      BY <3>1, <3>2 DEF CommandOK, Grows
    <3>4. RunsOK(q)'
      BY <3>1 DEF RunsOK
    <3> QED
      BY <3>3, <3>4
  <2>2. \A job \in jobs' : PinsOK(job)
    BY DEF IInv, CommandInv
  <2> QED
    BY <2>1, <2>2 DEF CommandInv, PinsOK, Placed
<1>3. RacedInv'
  <2>1. ASSUME ~raced', NEW q \in Commands \ {p}, pc'[q] = "write" PROVE Fit(file'[q].active)
    BY <2>1 DEF IInv, RacedInv, Local
  <2> QED
    BY <2>1 DEF RacedInv, Fit
<1>4. CheckInv'
  <2>1. ASSUME NEW q \in Commands \ {p}
        PROVE  /\ missed'[q] # "after" => ChecksHold(q)'
               /\ missed'[q] = "none" => Knows(q)'
    <3>1. /\ pc'[q] = pc[q] /\ task'[q] = task[q] /\ seen'[q] = seen[q] /\ file'[q] = file[q]
          /\ CommandOK(q)
          /\ missed[q] # "after" => ChecksHold(q)
          /\ missed[q] = "none" => Knows(q)
      BY DEF Local, IInv, CommandInv, CheckInv
    <3>2. CASE pc[q] = "idle"
      BY <3>1, <3>2 DEF CommandOK, JobSteps, ChecksHold, Knows
    <3>3. CASE missed'[q] = "after"
      BY <3>3
    <3>4. CASE missed'[q] = missed[q] /\ current' = current
      <4>1. ChecksHold(q)' = ChecksHold(q)
        BY <3>1, <3>4 DEF ChecksHold
      <4>2. Knows(q)' = Knows(q)
        BY <3>1, <3>4 DEF Knows, JobKnows, Judged, Pins, Bare
      <4> QED
        BY <3>1, <3>4, <4>1, <4>2
    <3> QED
      BY <3>2, <3>3, <3>4 DEF Noticed
  <2> QED
    BY <2>1 DEF CheckInv, Placed
<1>5. JobsAreCompatible'
  <2>1. ASSUME NEW job \in jobs, Vouched(job)' PROVE CompatibleSet(job.pins, job.plain)
    <3>1. job.by \in Ways
      BY DEF IInv, CommandInv, PinsOK
    <3>2. Vouched(job)
      BY <2>1, <3>1 DEF Vouched, Ways
    <3> QED
      BY <3>2 DEF IInv, JobsAreCompatible
  <2>2. \A job \in jobs' : Vouched(job)' => CompatibleSet(job.pins, job.plain)
    BY <2>1
  <2> QED
    BY <2>2 DEF JobsAreCompatible, CompatibleSet, Ranges
<1> QED
  BY <1>1, <1>2, <1>3, <1>4, <1>5 DEF IInv

LEMMA CurrentIs ==
  ASSUME IInv
  PROVE  /\ current \in Records /\ current.active \in Sets /\ Sound(current)
         /\ \A kind \in Kinds : current.active[kind] \in installed[kind] \cup {None}
BY DEF IInv, FileInv, Sound, Stocked, Records

(* What the others have missed stays as it is.                               *)
NoNews(p) == \A q \in Commands \ {p} : missed'[q] = missed[q]

(* A step that leaves the disk and the Jobs alone.                           *)
LEMMA QuietKeeps ==
  ASSUME IInv, NEW p \in Commands, Typed', Local(p), NoNews(p), Placed(p),
         UNCHANGED <<installed, current, jobs>>,
         ~raced' => ~raced,
         pc'[p] = "write" => Sound(file'[p]) /\ (~raced' => Fit(file'[p].active))
  PROVE  IInv'
<1>1. Grows /\ Noticed(p)
  BY DEF Grows, Noticed, NoNews
<1>2. Sound(current)' /\ (pc'[p] = "write" => Sound(file[p])')
  <2>1. Sound(current)
    BY DEF IInv, FileInv
  <2>2. Sound(current)'
    BY <2>1 DEF Sound, Stocked, GoesBack, LeadsBack
  <2>3. pc'[p] = "write" => Sound(file[p])'
    BY DEF Sound, Stocked, GoesBack, LeadsBack
  <2> QED
    BY <2>2, <2>3
<1>3. ~raced' => Fit(current'.active)
  BY DEF IInv, RacedInv
<1>4. jobs' \ jobs = {}
  OBVIOUS
<1> QED
  BY <1>1, <1>2, <1>3, <1>4, StepKeeps

(* What the pieces of a step do.                                             *)
LEMMA GotoIs ==
  ASSUME Typed, NEW p \in Commands, NEW step \in Steps, Goto(p, step)
  PROVE  /\ pc' \in [Commands -> Steps] /\ pc'[p] = step
         /\ \A q \in Commands \ {p} : pc'[q] = pc[q]
BY DEF Typed, Goto

LEMMA RememberIs ==
  ASSUME Typed, NEW p \in Commands, NEW record \in Views, Remember(p, record)
  PROVE  /\ seen' \in [Commands -> Views] /\ seen'[p] = record
         /\ \A q \in Commands \ {p} : seen'[q] = seen[q]
BY DEF Typed, Remember

LEMMA ChooseIs ==
  ASSUME Typed, NEW p \in Commands, NEW new \in Changes, Choose(p, new)
  PROVE  /\ task' \in [Commands -> Tasks]
         /\ task'[p].new = new /\ task'[p].op = task[p].op
         /\ task'[p].kinds = task[p].kinds /\ task'[p].choice = task[p].choice
         /\ \A q \in Commands \ {p} : task'[q] = task[q]
BY DEF Typed, Tasks, Choose

LEMMA NothingIs ==
  /\ NoVersions \in Changes /\ DOMAIN NoVersions = {}
  /\ NoneActive \in Sets /\ NoTask \in Tasks /\ NothingSeen \in Views
  /\ NoTask.op = "none" /\ NoTask.new = NoVersions /\ NothingSeen.set = NoneActive
  /\ NothingSeen.next = 1 /\ NothingSeen.updated = {}
<1>1. NoVersions \in Changes /\ DOMAIN NoVersions = {}
  <2>1. NoVersions \in [{} -> Versions] /\ {} \in SUBSET Kinds
    BY DEF NoVersions
  <2> QED
    BY <2>1 DEF Changes
<1>2. NoneActive \in Sets
  BY DEF NoneActive, Sets
<1>3. NoTask \in Tasks /\ NoTask.op = "none" /\ NoTask.new = NoVersions
  BY <1>1 DEF NoTask, Tasks
<1>4. Len(Order) = 3
  BY DEF Order
<1> QED
  BY <1>1, <1>2, <1>3, <1>4 DEF NothingSeen, Views

LEMMA ForgetIs ==
  ASSUME Typed, NEW p \in Commands, Forget(p)
  PROVE  /\ pc' \in [Commands -> Steps] /\ task' \in [Commands -> Tasks]
         /\ seen' \in [Commands -> Views] /\ todo' \in [Commands -> Seq(Kinds)]
         /\ file' \in [Commands -> Records \cup {None}]
         /\ Local(p) /\ pc'[p] = "idle" /\ Placed(p)
<1>1. /\ pc' \in [Commands -> Steps] /\ pc'[p] = "idle"
      /\ task' \in [Commands -> Tasks] /\ task'[p] = NoTask
      /\ seen' \in [Commands -> Views] /\ seen'[p] = NothingSeen
      /\ todo' \in [Commands -> Seq(Kinds)] /\ todo'[p] = <<>>
      /\ file' \in [Commands -> Records \cup {None}]
  BY NothingIs DEF Typed, Forget, Goto, Steps
<1>2. Local(p)
  BY DEF Typed, Forget, Goto, Local
<1>3. CommandOK(p)' /\ RunsOK(p)'
  BY <1>1, NothingIs DEF CommandOK, RunsOK
<1>4. ChecksHold(p)' /\ Knows(p)'
  BY <1>1, NothingIs DEF ChecksHold, Knows
<1> QED
  BY <1>1, <1>2, <1>3, <1>4 DEF Placed

LEMMA ClearIs ==
  ASSUME Typed, NEW p \in Commands, Clear(p)
  PROVE  /\ Forget(p) /\ NoNews(p)
         /\ missed' \in [Commands -> {"none", "before", "after"}]
BY DEF Typed, Clear, NoNews

LEMMA ClearKeeps ==
  ASSUME IInv, NEW p \in Commands, Clear(p),
         UNCHANGED <<installed, current, published, jobs, raced>>
  PROVE  IInv'
<1>0. Typed /\ Forget(p) /\ NoNews(p)
  BY ClearIs DEF IInv
<1>1. Typed'
  BY <1>0, ClearIs, ForgetIs DEF Typed
<1>2. Local(p) /\ pc'[p] = "idle" /\ Placed(p)
  BY <1>0, ForgetIs
<1> QED
  BY <1>0, <1>1, <1>2, QuietKeeps

-----------------------------------------------------------------------------
(* Starts.                                                                   *)
LEMMA SingleChange ==
  ASSUME NEW kind \in Kinds, NEW version \in Versions
  PROVE  /\ [k \in {kind} |-> version] \in Changes
         /\ DOMAIN [k \in {kind} |-> version] = {kind}
         /\ [k \in {kind} |-> version][kind] = version
<1>1. [k \in {kind} |-> version] \in [{kind} -> Versions] /\ {kind} \in SUBSET Kinds
  OBVIOUS
<1> QED
  BY <1>1 DEF Changes

LEMMA StartKeeps ==
  ASSUME IInv, NEW p \in Commands,
         NEW op \in {"apply", "install", "activate", "rollback", "job", "create"},
         NEW kinds \in SUBSET Kinds, NEW new \in Changes,
         NEW choice \in {"none", "activate", "keep", "managed", "explicit"},
         NEW step \in {"plan", "evaluate", "assert", "vet", "load", "pin"},
         Start(p, op, kinds, new, choice, step),
         \A kind \in DOMAIN new : new[kind] \in installed[kind],
         step = "plan" => op = "apply", step = "evaluate" => op = "install",
         step = "load" <=> op = "job", step = "pin" <=> op = "create",
         op = "job" => choice \in {"managed", "explicit"},
         choice = "managed" => current.active["converter"] # None
  PROVE  IInv'
<1> DEFINE record == [NothingSeen EXCEPT !.set = current.active,
                                         !.running = WithBundled(current.active)["workflow"]]
<1>0. /\ pc[p] = "idle"
      /\ task' = [task EXCEPT ![p] = [op |-> op, kinds |-> kinds, new |-> new, choice |-> choice]]
      /\ Remember(p, record) /\ Goto(p, step)
      /\ UNCHANGED <<installed, current, published, todo, file, jobs, missed, raced>>
  BY DEF Start
<1>1. Typed
  BY DEF IInv
<1>2. step \in Steps /\ step # "idle"
  BY DEF Steps
<1>3. /\ pc' \in [Commands -> Steps] /\ pc'[p] = step
      /\ \A q \in Commands \ {p} : pc'[q] = pc[q]
  BY <1>0, <1>1, <1>2, GotoIs
<1>4. /\ record \in Views /\ record.set = current.active /\ record.updated = {}
      /\ record.running = WithBundled(current.active)["workflow"] /\ record.running # None
  <2>1. WithBundled(current.active)["workflow"] \in Versions
    BY CurrentIs, BundledIsSet
  <2>2. None \notin Versions
    BY VersionAssumption
  <2> QED
    BY <2>1, <2>2, CurrentIs, NothingIs DEF Views
<1> HIDE DEF record
<1>5. /\ seen' \in [Commands -> Views] /\ seen'[p] = record
      /\ \A q \in Commands \ {p} : seen'[q] = seen[q]
  BY <1>0, <1>1, <1>4, RememberIs
<1>6. /\ task' \in [Commands -> Tasks] /\ task'[p].op = op /\ task'[p].new = new
      /\ task'[p].choice = choice
      /\ \A q \in Commands \ {p} : task'[q] = task[q]
  BY <1>0, <1>1 DEF Typed, Tasks
<1>7. Typed'
  BY <1>0, <1>1, <1>3, <1>5, <1>6 DEF Typed
<1>8. Local(p) /\ NoNews(p)
  BY <1>0, <1>3, <1>5, <1>6 DEF Local, NoNews
<1>9. todo[p] = <<>> /\ DOMAIN todo'[p] = {}
  <2>1. CommandOK(p)
    BY DEF IInv, CommandInv
  <2>2. todo[p] = <<>>
    BY <1>0, <2>1 DEF CommandOK
  <2> QED
    BY <1>0, <2>2
<1>10. CommandOK(p)'
  BY <1>0, <1>3, <1>6, <1>9 DEF CommandOK, JobSteps
<1>11. RunsOK(p)'
  BY <1>4, <1>5 DEF RunsOK
<1>12. ChecksHold(p)'
  BY <1>0, <1>3, <1>4, <1>5 DEF ChecksHold
<1>13. Knows(p)'
  <2>1. op = "job" => JobKnows(p)'
    BY <1>0, <1>3, <1>4, <1>5, <1>6 DEF JobKnows
  <2>2. seen'[p].running = WithBundled(current'.active)["workflow"]
    BY <1>0, <1>4, <1>5
  <2> QED
    BY <1>6, <2>1, <2>2 DEF Knows
<1> QED
  BY <1>0, <1>3, <1>7, <1>8, <1>10, <1>11, <1>12, <1>13, QuietKeeps DEF Placed

LEMMA StartsKeep ==
  ASSUME IInv, NEW p \in Commands,
         \/ StartApply(p) \/ StartInstall(p) \/ StartActivate(p) \/ StartRollback(p)
         \/ StartJob(p) \/ StartCreate(p)
  PROVE  IInv'
<1>1. CASE StartApply(p)
  <2>1. PICK kinds \in SUBSET Kinds \ {{}} : Start(p, "apply", kinds, NoVersions, "none", "plan")
    BY <1>1 DEF StartApply
  <2> QED
    BY <2>1, NothingIs, StartKeeps
<1>2. CASE StartInstall(p)
  <2>1. PICK kind \in Kinds, activate \in {"activate", "keep"} :
          Start(p, "install", {kind}, NoVersions, activate, "evaluate")
    BY <1>2 DEF StartInstall
  <2> QED
    BY <2>1, NothingIs, StartKeeps
<1>3. CASE StartActivate(p)
  <2>1. PICK kind \in Kinds, version \in Versions :
          /\ version \in installed[kind]
          /\ Start(p, "activate", {kind}, [k \in {kind} |-> version], "none", "assert")
    BY <1>3 DEF StartActivate
  <2>2. /\ [k \in {kind} |-> version] \in Changes
        /\ \A k \in DOMAIN [j \in {kind} |-> version] :
             [j \in {kind} |-> version][k] \in installed[k]
    BY <2>1, SingleChange
  <2> QED
    BY <2>1, <2>2, StartKeeps
<1>4. CASE StartRollback(p)
  <2>1. PICK kind \in Kinds :
          /\ Returnable(current, kind) # {}
          /\ Start(p, "rollback", {kind}, [k \in {kind} |-> Target(current, kind)], "none", "vet")
    BY <1>4 DEF StartRollback
  <2>2. Target(current, kind) \in Versions /\ Target(current, kind) \in installed[kind]
    BY <2>1, CurrentIs, TargetIs
  <2>3. /\ [k \in {kind} |-> Target(current, kind)] \in Changes
        /\ \A k \in DOMAIN [j \in {kind} |-> Target(current, kind)] :
             [j \in {kind} |-> Target(current, kind)][k] \in installed[k]
    BY <2>2, SingleChange
  <2> QED
    BY <2>1, <2>3, StartKeeps
<1>5. CASE StartJob(p)
  <2>1. PICK choice \in {"managed", "explicit"} :
          /\ choice = "managed" => current.active["converter"] # None
          /\ Start(p, "job", {}, NoVersions, choice, "load")
    BY <1>5 DEF StartJob
  <2> QED
    BY <2>1, NothingIs, StartKeeps
<1>6. CASE StartCreate(p)
  BY <1>6, NothingIs, StartKeeps DEF StartCreate
<1> QED
  BY <1>1, <1>2, <1>3, <1>4, <1>5, <1>6

-----------------------------------------------------------------------------
LEMMA PublishKeeps ==
  ASSUME IInv, Publish
  PROVE  IInv'
<1>1. /\ UNCHANGED <<installed, current, pc, task, seen, todo, file, jobs, starts, missed, raced>>
      /\ \E kind \in Kinds :
           /\ published[kind] < Len(Channel[kind])
           /\ published' = [published EXCEPT ![kind] = @ + 1]
  BY DEF Publish
<1>2. \A kind \in Kinds : Channel[kind] \in Seq(Payloads)
  BY ChannelAssumption
<1>3. /\ published' \in [Kinds -> Nat]
      /\ \A kind \in Kinds : published'[kind] \in DOMAIN Channel[kind]
  <2>1. published \in [Kinds -> Nat] /\ \A kind \in Kinds : published[kind] \in DOMAIN Channel[kind]
    BY DEF IInv, Typed
  <2>2. \A kind \in Kinds : DOMAIN Channel[kind] = 1 .. Len(Channel[kind]) /\ Len(Channel[kind]) \in Nat
    BY <1>2, LenProperties
  <2> QED
    BY <1>1, <2>1, <2>2
<1>4. Typed'
  BY <1>1, <1>3 DEF IInv, Typed
<1>5. FileInv'
  BY <1>1 DEF IInv, FileInv, Sound, Stocked, GoesBack, LeadsBack
<1>6. CommandInv'
  BY <1>1 DEF IInv, CommandInv, CommandOK, RunsOK, PinsOK
<1>7. RacedInv' /\ JobsAreCompatible'
  BY <1>1 DEF IInv, RacedInv, JobsAreCompatible, Vouched
<1>8. CheckInv'
  BY <1>1 DEF IInv, CheckInv, ChecksHold, Knows, JobKnows, Judged, Pins, Bare
<1> QED
  BY <1>4, <1>5, <1>6, <1>7, <1>8 DEF IInv

-----------------------------------------------------------------------------
(* Choosing versions.                                                        *)
LEMMA OfCommand ==
  ASSUME IInv, NEW p \in Commands
  PROVE  /\ Typed /\ pc[p] \in Steps /\ task[p] \in Tasks /\ seen[p] \in Views
         /\ todo[p] \in Seq(Kinds) /\ CommandOK(p) /\ RunsOK(p)
         /\ task[p].new \in Changes /\ task[p].kinds \in SUBSET Kinds /\ seen[p].set \in Sets
         /\ DOMAIN task[p].new \subseteq Kinds
         /\ missed[p] # "after" => ChecksHold(p)
         /\ missed[p] = "none" => Knows(p)
<1>1. task[p] \in Tasks /\ seen[p] \in Views
  BY DEF IInv, Typed
<1>2. task[p].new \in Changes /\ task[p].kinds \in SUBSET Kinds /\ seen[p].set \in Sets
  BY <1>1 DEF Tasks, Views
<1> QED
  BY <1>1, <1>2, ChangesAre DEF IInv, Typed, CommandInv, CheckInv

(* The planned set is the one that the chosen versions make.                 *)
LEMMA PlanIsFit ==
  ASSUME Typed, NEW set \in Sets, NEW kinds \in SUBSET Kinds, NEW chosen,
         chosen = {k \in kinds \cap Configured : Installable(Payload(k), set[k])}, PlanHolds(kinds, set)
  PROVE  Fit(Override(set, [k \in chosen |-> Payload(k).latest]))
<1> DEFINE o == Override(set, [k \in chosen |-> Payload(k).latest])
           planned == PlannedSet(kinds, set)
<1>1. \A k \in Kinds : o[k] = IF k \in chosen THEN Payload(k).latest ELSE set[k]
  BY DEF Override
<1>2. \A k \in Kinds : planned[k] = IF k \in chosen THEN Payload(k).latest ELSE WithBundled(set)[k]
  BY DEF PlannedSet, PlannedVersion
<1>3. CompatibleSet(planned, PlannedPlain(kinds, set))
  BY DEF PlanHolds
<1>4. /\ Payload("workflow").latest # None
      /\ Payload("workflow").latest \in Payload("workflow").retained
  BY PayloadIs, VersionAssumption, KindsAre
<1> HIDE DEF o
<1>5. \A k \in Kinds : planned[k] = WithBundled(o)[k]
  <2>1. o \in Sets
    <3>1. \A k \in Kinds : o[k] \in Versions \cup {None}
      BY <1>1, PayloadIs DEF Sets
    <3> QED
      BY <3>1 DEF o, Override, Sets
  <2>2. CASE o["workflow"] = None
    <3>1. "workflow" \notin chosen /\ set["workflow"] = None
      BY <1>1, <1>4, <2>2, KindsAre
    <3>2. WithBundled(o) = [o EXCEPT !["workflow"] = Bundled]
          /\ WithBundled(set) = [set EXCEPT !["workflow"] = Bundled]
      BY <2>2, <3>1 DEF WithBundled
    <3> QED
      BY <1>1, <1>2, <2>1, <3>1, <3>2, KindsAre DEF Sets
  <2>3. CASE o["workflow"] # None
    <3>1. WithBundled(o) = o
      BY <2>3 DEF WithBundled
    <3>2. \A k \in Kinds \ chosen : WithBundled(set)[k] = set[k]
      <4>1. CASE set["workflow"] = None
        <5>1. "workflow" \in chosen
          BY <1>1, <2>3, <4>1, KindsAre
        <5> QED
          BY <4>1, <5>1 DEF WithBundled, Sets
      <4>2. CASE set["workflow"] # None
        BY <4>2 DEF WithBundled
      <4> QED
        BY <4>1, <4>2
    <3> QED
      BY <1>1, <1>2, <3>1, <3>2
  <2> QED
    BY <2>2, <2>3
<1>6. PlannedPlain(kinds, set) \subseteq PlainOf(o)
  <2> SUFFICES ASSUME set["workflow"] = None, planned["workflow"] \notin Payload("workflow").retained
               PROVE  o["workflow"] = None
    BY DEF PlannedPlain, PlainOf
  <2> QED
    BY <1>1, <1>2, <1>4, KindsAre
<1> HIDE DEF planned
<1>7. CompatibleSet(WithBundled(o), PlainOf(o))
  <2>1. CompatibleSet(WithBundled(o), PlannedPlain(kinds, set))
    BY <1>3, <1>5, CompatibleSame
  <2> QED
    BY <1>6, <2>1, CompatibleWeaker
<1> QED
  BY <1>7 DEF Fit, o

LEMMA PlanKeeps ==
  ASSUME IInv, NEW p \in Commands, Plan(p)
  PROVE  IInv'
<1> DEFINE set == seen[p].set
           kinds == task[p].kinds
           chosen == {k \in kinds \cap Configured : Installable(Payload(k), set[k])}
           new == [k \in chosen |-> Payload(k).latest]
<1>0. /\ pc[p] = "plan" /\ PlanHolds(kinds, set) /\ Choose(p, new)
      /\ todo' = [todo EXCEPT ![p] = InOrder(chosen)] /\ Goto(p, "install")
      /\ UNCHANGED <<installed, current, published, seen, file, jobs, starts, missed, raced>>
  BY DEF Plan
<1>1. /\ Typed /\ kinds \in SUBSET Kinds /\ set \in Sets /\ CommandOK(p)
      /\ (missed[p] # "after" => ChecksHold(p))
  BY OfCommand
<1>2. chosen \in SUBSET Kinds /\ \A k \in chosen : Payload(k).latest \in Versions
  BY <1>1, PayloadIs
<1>3. missed[p] # "after" => Fit(Override(current.active, new))
  <2>1. Fit(Override(set, new))
    BY <1>0, <1>1, PlanIsFit
  <2>2. missed[p] # "after" => set = current.active
    BY <1>0, <1>1 DEF ChecksHold
  <2> QED
    BY <2>1, <2>2
<1>4. new \in Changes /\ DOMAIN new = chosen
  <2> HIDE DEF chosen
  <2>1. new \in [chosen -> Versions] /\ DOMAIN new = chosen
    BY <1>2
  <2> HIDE DEF new
  <2> QED
    BY <1>2, <2>1 DEF Changes
<1> HIDE DEF new, chosen, set, kinds
<1>5. InOrder(chosen) \in Seq(Kinds) /\ Members(InOrder(chosen)) = chosen
  BY <1>2, InOrderIs
<1>6. /\ task' \in [Commands -> Tasks] /\ task'[p].new = new /\ task'[p].op = task[p].op
      /\ \A q \in Commands \ {p} : task'[q] = task[q]
  BY <1>0, <1>1, <1>4, ChooseIs
<1>7. /\ pc' \in [Commands -> Steps] /\ pc'[p] = "install"
      /\ \A q \in Commands \ {p} : pc'[q] = pc[q]
  BY <1>0, <1>1, GotoIs DEF Steps
<1>8. /\ todo' \in [Commands -> Seq(Kinds)] /\ todo'[p] = InOrder(chosen)
      /\ \A q \in Commands \ {p} : todo'[q] = todo[q]
  BY <1>0, <1>1, <1>5 DEF Typed
<1>9. Typed'
  BY <1>0, <1>1, <1>6, <1>7, <1>8 DEF Typed
<1>10. task[p].op = "apply"
  BY <1>0, <1>1 DEF CommandOK
<1>11. CommandOK(p)'
  <2>1. \A i \in DOMAIN todo'[p] : todo'[p][i] \in DOMAIN task'[p].new
    BY <1>4, <1>5, <1>6, <1>8 DEF Members
  <2>2. \A kind \in DOMAIN task'[p].new : \E i \in DOMAIN todo'[p] : todo'[p][i] = kind
    BY <1>4, <1>5, <1>6, <1>8 DEF Members
  <2> QED
    BY <1>6, <1>7, <1>10, <2>1, <2>2 DEF CommandOK
<1>12. RunsOK(p)' /\ Knows(p)'
  BY <1>6, <1>7, <1>10 DEF RunsOK, Knows
<1>13. missed'[p] # "after" => ChecksHold(p)'
  BY <1>0, <1>3, <1>6, <1>7 DEF ChecksHold
<1>14. Local(p) /\ NoNews(p)
  BY <1>0, <1>6, <1>7, <1>8 DEF Local, NoNews
<1> QED
  BY <1>0, <1>7, <1>9, <1>11, <1>12, <1>13, <1>14, QuietKeeps DEF Placed

(* One kind and version are chosen.                                          *)
LEMMA ChooseOne ==
  ASSUME IInv, NEW p \in Commands, NEW kind \in Kinds, NEW version \in Versions,
         Choose(p, [k \in {kind} |-> version]), todo' = [todo EXCEPT ![p] = <<kind>>],
         Goto(p, "install"), UNCHANGED installed,
         task[p].op \notin {"apply", "create"}
  PROVE  /\ pc' \in [Commands -> Steps] /\ pc'[p] = "install"
         /\ task' \in [Commands -> Tasks] /\ DOMAIN task'[p].new = {kind}
         /\ task'[p].op = task[p].op /\ task'[p].choice = task[p].choice
         /\ todo' \in [Commands -> Seq(Kinds)]
         /\ \A q \in Commands \ {p} :
              pc'[q] = pc[q] /\ task'[q] = task[q] /\ todo'[q] = todo[q]
         /\ CommandOK(p)' /\ ChecksHold(p)'
<1> DEFINE new == [k \in {kind} |-> version]
<1>1. Typed /\ CommandOK(p)
  BY DEF IInv, CommandInv
<1>2. new \in Changes /\ DOMAIN new = {kind}
  BY SingleChange
<1> HIDE DEF new
<1>3. /\ task' \in [Commands -> Tasks] /\ task'[p].new = new /\ task'[p].op = task[p].op
      /\ task'[p].choice = task[p].choice
      /\ \A q \in Commands \ {p} : task'[q] = task[q]
  BY <1>1, <1>2, ChooseIs DEF new
<1>4. /\ pc' \in [Commands -> Steps] /\ pc'[p] = "install"
      /\ \A q \in Commands \ {p} : pc'[q] = pc[q]
  BY <1>1, GotoIs DEF Steps
<1>5. /\ todo' \in [Commands -> Seq(Kinds)] /\ todo'[p] = <<kind>>
      /\ \A q \in Commands \ {p} : todo'[q] = todo[q]
  BY <1>1 DEF Typed
<1>6. DOMAIN todo'[p] = {1} /\ todo'[p][1] = kind
  BY <1>5
<1>7. CommandOK(p)'
  BY <1>1, <1>2, <1>3, <1>4, <1>6 DEF CommandOK, JobSteps
<1>8. ChecksHold(p)'
  BY <1>3, <1>4 DEF ChecksHold
<1> QED
  BY <1>2, <1>3, <1>4, <1>5, <1>7, <1>8

LEMMA EvaluateKeeps ==
  ASSUME IInv, NEW p \in Commands, EvaluateInstall(p)
  PROVE  IInv'
<1>0. /\ pc[p] = "evaluate" /\ Goto(p, "install")
      /\ UNCHANGED <<installed, current, published, seen, file, jobs, starts, missed, raced>>
  BY DEF EvaluateInstall
<1>1. PICK kind \in task[p].kinds :
        /\ \E version \in Payload(kind).retained : Choose(p, [k \in {kind} |-> version])
        /\ todo' = [todo EXCEPT ![p] = <<kind>>]
  BY DEF EvaluateInstall
<1>2. PICK version \in Payload(kind).retained : Choose(p, [k \in {kind} |-> version])
  BY <1>1
<1>3. Typed /\ kind \in Kinds /\ CommandOK(p)
  BY OfCommand
<1>4. version \in Versions
  BY <1>3, PayloadIs
<1>5. task[p].op = "install"
  BY <1>0, <1>3 DEF CommandOK
<1>6. /\ pc' \in [Commands -> Steps] /\ pc'[p] = "install"
      /\ task' \in [Commands -> Tasks] /\ task'[p].op = task[p].op
      /\ todo' \in [Commands -> Seq(Kinds)]
      /\ \A q \in Commands \ {p} : pc'[q] = pc[q] /\ task'[q] = task[q] /\ todo'[q] = todo[q]
      /\ CommandOK(p)' /\ ChecksHold(p)'
  BY <1>0, <1>1, <1>2, <1>3, <1>4, <1>5, ChooseOne
<1>7. Typed'
  BY <1>0, <1>3, <1>6 DEF Typed
<1>8. RunsOK(p)' /\ Knows(p)'
  BY <1>5, <1>6 DEF RunsOK, Knows
<1>9. Local(p) /\ NoNews(p)
  BY <1>0, <1>6 DEF Local, NoNews
<1> QED
  BY <1>0, <1>6, <1>7, <1>8, <1>9, QuietKeeps DEF Placed

-----------------------------------------------------------------------------
(* Installing.                                                               *)
LEMMA InstallKeeps ==
  ASSUME IInv, NEW p \in Commands, InstallNext(p)
  PROVE  IInv'
<1> DEFINE kind == Head(todo[p])
           new == task[p].new
<1>0. /\ pc[p] = "install" /\ todo[p] # <<>>
      /\ installed' = [installed EXCEPT ![kind] = @ \cup {new[kind]}]
      /\ todo' = [todo EXCEPT ![p] = Tail(@)]
      /\ UNCHANGED <<current, published, pc, task, seen, file, jobs, starts, missed, raced>>
  BY DEF InstallNext, NextKind
<1>1. /\ Typed /\ todo[p] \in Seq(Kinds) /\ CommandOK(p) /\ RunsOK(p) /\ new \in Changes
      /\ DOMAIN new \subseteq Kinds
      /\ missed[p] # "after" => ChecksHold(p)
      /\ missed[p] = "none" => Knows(p)
  BY OfCommand
<1>2. /\ 1 \in DOMAIN todo[p] /\ kind = todo[p][1] /\ Tail(todo[p]) \in Seq(Kinds)
      /\ Len(todo[p]) \in Nat /\ DOMAIN todo[p] = 1 .. Len(todo[p])
      /\ DOMAIN Tail(todo[p]) = 1 .. Len(todo[p]) - 1
      /\ \A i \in 1 .. Len(todo[p]) - 1 : Tail(todo[p])[i] = todo[p][i + 1]
  BY <1>0, <1>1
<1>3. kind \in DOMAIN new /\ kind \in Kinds /\ new[kind] \in Versions
  <2>1. kind \in DOMAIN new
    BY <1>1, <1>2 DEF CommandOK
  <2> QED
    BY <1>1, <2>1, ChangesAre
<1> HIDE DEF kind
<1>4. /\ installed' \in [Kinds -> SUBSET Versions]
      /\ Grows /\ new[kind] \in installed'[kind]
  BY <1>0, <1>1, <1>3 DEF Typed, Grows
<1>5. /\ todo' \in [Commands -> Seq(Kinds)] /\ todo'[p] = Tail(todo[p])
      /\ \A q \in Commands \ {p} : todo'[q] = todo[q]
  BY <1>0, <1>1, <1>2 DEF Typed
<1>6. Typed'
  BY <1>0, <1>1, <1>4, <1>5 DEF Typed
<1>7. Local(p)
  BY <1>0, <1>5 DEF Local
<1>8. CommandOK(p)'
  <2>1. \A i \in DOMAIN todo'[p] : todo'[p][i] \in DOMAIN task'[p].new
    <3>1. ASSUME NEW i \in DOMAIN todo'[p] PROVE todo'[p][i] \in DOMAIN new
      <4>1. i + 1 \in DOMAIN todo[p] /\ todo'[p][i] = todo[p][i + 1]
        BY <1>2, <1>5
      <4> QED
        BY <1>1, <4>1 DEF CommandOK
    <3> QED
      BY <1>0, <3>1
  <2>2. ASSUME NEW k \in DOMAIN new
        PROVE  new[k] \in installed'[k] \/ \E i \in DOMAIN todo'[p] : todo'[p][i] = k
    <3>1. CASE new[k] \in installed[k]
      BY <1>1, <1>4, <3>1 DEF Grows
    <3>2. CASE \E i \in DOMAIN todo[p] : todo[p][i] = k
      <4>1. PICK i \in DOMAIN todo[p] : todo[p][i] = k
        BY <3>2
      <4>2. CASE i = 1
        BY <1>2, <1>4, <4>1, <4>2
      <4>3. CASE i # 1
        <5>1. i - 1 \in DOMAIN todo'[p] /\ todo'[p][i - 1] = k
          BY <1>2, <1>5, <4>1, <4>3
        <5> QED
          BY <5>1
      <4> QED
        BY <4>2, <4>3
    <3> QED
      BY <1>1, <3>1, <3>2 DEF CommandOK
  <2> QED
    BY <1>0, <1>1, <2>1, <2>2 DEF CommandOK
<1>9. RunsOK(p)'
  BY <1>0, <1>1 DEF RunsOK
<1>10. /\ missed'[p] # "after" => ChecksHold(p)'
       /\ missed'[p] = "none" => Knows(p)'
  BY <1>0, <1>1 DEF ChecksHold, Knows, JobKnows
<1>11. ~raced' => ~raced /\ Fit(current'.active)
  BY <1>0 DEF IInv, RacedInv
<1>12. Sound(current)'
  <2>1. current \in Records /\ Stocked(current) /\ GoesBack(current)
    BY DEF IInv, FileInv, Sound
  <2>2. \A i \in DOMAIN current.history : current.history[i] \in Entries
    <3>1. current.history \in Seq(Entries)
      BY <2>1 DEF Records
    <3> QED
      BY <3>1, ElementOfSeq, LenProperties
  <2>3. \A i \in DOMAIN current.history : current.history[i].kind \in Kinds
    BY <2>2 DEF Entries
  <2>4. Stocked(current)'
    BY <1>0, <1>4, <2>1, <2>3 DEF Stocked, Grows
  <2> QED
    BY <1>0, <2>1, <2>4 DEF Sound, GoesBack, LeadsBack
<1>13. jobs' \ jobs = {} /\ pc'[p] # "write" /\ Noticed(p)
  BY <1>0 DEF Noticed
<1> QED
  BY <1>4, <1>6, <1>7, <1>8, <1>9, <1>10, <1>11, <1>12, <1>13, StepKeeps DEF Placed

(* A command goes from one place to the next.                                *)
LEMMA GotoKeeps ==
  ASSUME IInv, NEW p \in Commands, NEW step \in {"assert", "commit", "revert"}, Goto(p, step),
         UNCHANGED <<installed, current, published, task, seen, todo, file, jobs, raced>>,
         missed' \in [Commands -> {"none", "before", "after"}], NoNews(p),
         missed'[p] = "none" => missed[p] = "none",
         pc[p] \in {"install", "assert", "vet"}, todo[p] = <<>>,
         task[p].op = "job" => step # "revert",
         step = "commit" /\ missed'[p] # "after" => Fit(Override(current.active, task[p].new))
  PROVE  IInv'
<1>1. /\ Typed /\ CommandOK(p) /\ RunsOK(p)
      /\ missed[p] = "none" => Knows(p)
  BY OfCommand
<1>2. /\ pc' \in [Commands -> Steps] /\ pc'[p] = step
      /\ \A q \in Commands \ {p} : pc'[q] = pc[q]
  BY <1>1, GotoIs DEF Steps
<1>3. Typed' /\ Local(p)
  BY <1>1, <1>2 DEF Typed, Local
<1>4. CommandOK(p)'
  BY <1>1, <1>2 DEF CommandOK, JobSteps
<1>5. RunsOK(p)'
  BY <1>1 DEF RunsOK
<1>6. missed'[p] # "after" => ChecksHold(p)'
  BY <1>2 DEF ChecksHold
<1>7. missed'[p] = "none" => Knows(p)'
  <2> SUFFICES ASSUME missed'[p] = "none" PROVE Knows(p)'
    OBVIOUS
  <2>1. ASSUME task[p].op = "job" PROVE JobKnows(p)'
    <3>1. JobKnows(p) /\ pc[p] \in {"install", "assert"}
      BY <1>1, <2>1 DEF Knows, CommandOK, JobSteps
    <3> QED
      BY <1>2, <2>1, <3>1 DEF JobKnows
  <2> QED
    BY <1>2, <2>1 DEF Knows
<1> QED
  BY <1>2, <1>3, <1>4, <1>5, <1>6, <1>7, QuietKeeps DEF Placed

LEMMA InstalledKeeps ==
  ASSUME IInv, NEW p \in Commands, Installed(p)
  PROVE  IInv'
<1>0. /\ pc[p] = "install" /\ todo[p] = <<>>
      /\ UNCHANGED <<installed, current, published, jobs, starts, raced>>
      /\ Clear(p) \/ (Goto(p, AfterInstall(p)) /\ UNCHANGED <<task, seen, todo, file, missed>>)
  BY DEF Installed
<1>1. CASE Clear(p)
  BY <1>0, <1>1, ClearKeeps
<1>2. CASE Goto(p, AfterInstall(p)) /\ UNCHANGED <<task, seen, todo, file, missed>>
  <2>1. Typed /\ (missed[p] # "after" => ChecksHold(p))
    BY OfCommand
  <2>2. NoNews(p) /\ missed'[p] = missed[p] /\ missed' \in [Commands -> {"none", "before", "after"}]
    BY <1>2, <2>1 DEF NoNews, Typed
  <2>3. CASE task[p].op = "apply"
    <3>1. Goto(p, "commit")
      BY <1>2, <2>3 DEF AfterInstall
    <3>2. missed[p] # "after" => Fit(Override(current.active, task[p].new))
      BY <1>0, <2>1, <2>3 DEF ChecksHold
    <3> QED
      BY <1>0, <1>2, <2>2, <2>3, <3>1, <3>2, GotoKeeps
  <2>4. CASE task[p].op # "apply"
    <3>1. Goto(p, "assert")
      BY <1>2, <2>4 DEF AfterInstall
    <3> QED
      BY <1>0, <1>2, <2>2, <3>1, GotoKeeps
  <2> QED
    BY <2>3, <2>4
<1> QED
  BY <1>0, <1>1, <1>2

LEMMA AssertKeeps ==
  ASSUME IInv, NEW p \in Commands, AssertFits(p)
  PROVE  IInv'
<1>0. /\ pc[p] = "assert" /\ AssertHolds(p) /\ Goto(p, "commit")
      /\ missed' = [missed EXCEPT ![p] = IF @ = "none" THEN "none" ELSE "before"]
      /\ UNCHANGED <<installed, current, published, task, seen, todo, file, jobs, starts, raced>>
  BY DEF AssertFits
<1>1. Typed /\ CommandOK(p) /\ task[p].new \in Changes
  BY OfCommand
<1>2. todo[p] = <<>>
  BY <1>0, <1>1 DEF CommandOK
<1>3. Fit(Override(current.active, task[p].new))
  BY <1>0, <1>1, CurrentIs, OverrideIsSet, StrictlyFit DEF AssertHolds
<1>4. /\ missed' \in [Commands -> {"none", "before", "after"}] /\ NoNews(p)
      /\ missed'[p] = "none" => missed[p] = "none"
  BY <1>0, <1>1 DEF Typed, NoNews
<1> QED
  BY <1>0, <1>2, <1>3, <1>4, GotoKeeps

LEMMA VetKeeps ==
  ASSUME IInv, NEW p \in Commands, Vet(p)
  PROVE  IInv'
<1>0. /\ pc[p] = "vet" /\ Goto(p, "revert")
      /\ UNCHANGED <<installed, current, published, task, seen, todo, file, jobs, starts, missed, raced>>
  BY DEF Vet
<1>1. Typed /\ CommandOK(p)
  BY OfCommand
<1>2. todo[p] = <<>> /\ task[p].op # "job"
  BY <1>0, <1>1 DEF CommandOK, JobSteps
<1>3. missed' \in [Commands -> {"none", "before", "after"}] /\ NoNews(p)
  BY <1>0, <1>1 DEF Typed, NoNews
<1> QED
  BY <1>0, <1>2, <1>3, GotoKeeps

-----------------------------------------------------------------------------
(* Writing current.json.                                                     *)
LEMMA FileKeeps ==
  ASSUME IInv, NEW p \in Commands, pc[p] \in {"commit", "revert"}, NEW next, Sound(next),
         file' = [file EXCEPT ![p] = next], Goto(p, "write"),
         UNCHANGED <<installed, current, published, task, seen, todo, jobs, missed>>,
         raced' \in BOOLEAN, ~raced' => ~raced /\ Fit(next.active),
         task[p].op = "job" =>
           pc[p] = "commit" /\ next.active = Override(current.active, task[p].new)
  PROVE  IInv'
<1>1. /\ Typed /\ CommandOK(p) /\ RunsOK(p)
      /\ missed[p] = "none" => Knows(p)
  BY OfCommand
<1>2. /\ pc' \in [Commands -> Steps] /\ pc'[p] = "write"
      /\ \A q \in Commands \ {p} : pc'[q] = pc[q]
  BY <1>1, GotoIs DEF Steps
<1>3. /\ file' \in [Commands -> Records \cup {None}] /\ file'[p] = next
      /\ \A q \in Commands \ {p} : file'[q] = file[q]
  BY <1>1 DEF Typed, Sound
<1>4. Typed' /\ Local(p) /\ NoNews(p)
  BY <1>1, <1>2, <1>3 DEF Typed, Local, NoNews
<1>5. CommandOK(p)'
  BY <1>1, <1>2 DEF CommandOK, JobSteps
<1>6. RunsOK(p)'
  BY <1>1 DEF RunsOK
<1>7. ChecksHold(p)'
  BY <1>2 DEF ChecksHold
<1>8. missed'[p] = "none" => Knows(p)'
  <2> SUFFICES ASSUME missed'[p] = "none" PROVE Knows(p)'
    OBVIOUS
  <2>1. ASSUME task[p].op = "job" PROVE JobKnows(p)'
    <3>1. JobKnows(p) /\ pc[p] = "commit" /\ file'[p].active = Override(current.active, task[p].new)
      BY <1>1, <1>3, <2>1 DEF Knows
    <3> QED
      BY <1>2, <2>1, <3>1 DEF JobKnows, Override
  <2> QED
    BY <1>2, <2>1 DEF Knows
<1>9. Sound(file'[p])
  BY <1>3
<1> QED
  BY <1>2, <1>3, <1>4, <1>5, <1>6, <1>7, <1>8, <1>9, QuietKeeps DEF Placed

LEMMA CommitKeeps ==
  ASSUME IInv, NEW p \in Commands, Commit(p)
  PROVE  IInv'
<1> DEFINE next == Activated(current, task[p].new)
<1>0. /\ pc[p] = "commit" /\ file' = [file EXCEPT ![p] = next] /\ Goto(p, "write")
      /\ \A kind \in DOMAIN task[p].new : task[p].new[kind] \in installed[kind]
      /\ raced' = (raced \/ missed[p] = "after")
      /\ UNCHANGED <<installed, current, published, task, seen, todo, jobs, starts, missed>>
  BY DEF Commit
<1>1. Typed /\ task[p].new \in Changes /\ (missed[p] # "after" => ChecksHold(p))
  BY OfCommand
<1>2. Sound(next) /\ next.active = Override(current.active, task[p].new)
  BY <1>0, <1>1, CurrentIs, ActivatedIsSound
<1> HIDE DEF next
<1>3. raced' \in BOOLEAN /\ (~raced' => ~raced /\ Fit(next.active))
  BY <1>0, <1>1, <1>2 DEF ChecksHold
<1> QED
  BY <1>0, <1>2, <1>3, FileKeeps

LEMMA RevertKeeps ==
  ASSUME IInv, NEW p \in Commands, Revert(p)
  PROVE  IInv'
<1>0. /\ pc[p] = "revert" /\ Goto(p, "write")
      /\ UNCHANGED <<installed, current, published, task, seen, todo, jobs, starts, missed, raced>>
  BY DEF Revert
<1>1. PICK kind \in task[p].kinds :
        /\ Returnable(current, kind) # {}
        /\ CompatibleSet(RolledBack(current, kind).active, {})
        /\ file' = [file EXCEPT ![p] = RolledBack(current, kind)]
  BY DEF Revert
<1>2. Typed /\ CommandOK(p) /\ kind \in Kinds
  BY OfCommand
<1>3. task[p].op # "job" /\ raced' \in BOOLEAN
  BY <1>0, <1>2 DEF CommandOK, JobSteps, Typed
<1> DEFINE next == RolledBack(current, kind)
<1>4. Sound(next)
  BY <1>1, <1>2, CurrentIs, RolledBackIsSound
<1>5. CompatibleSet(next.active, {}) /\ file' = [file EXCEPT ![p] = next]
  BY <1>1
<1> HIDE DEF next
<1>6. Fit(next.active)
  BY <1>4, <1>5, StrictlyFit DEF Sound, Records
<1> QED
  BY <1>0, <1>3, <1>4, <1>5, <1>6, FileKeeps

(* The Job that goes on after an update.                                     *)
LEMMA GoesOnKnows ==
  ASSUME IInv, NEW p \in Commands, pc[p] = "write", GoesOn(p), missed[p] = "none",
         current' = file[p], pc'[p] = "check", UNCHANGED <<task, seen>>
  PROVE  Knows(p)'
<1> DEFINE new == task[p].new
<1>1. /\ task[p].op = "job" /\ "workflow" \notin DOMAIN new /\ new \in Changes
      /\ JobKnows(p)
  BY OfCommand DEF GoesOn, Knows
<1>2. DOMAIN new \subseteq seen[p].updated
  BY <1>1 DEF JobKnows
<1>3. /\ seen[p].running = WithBundled(current.active)["workflow"]
      /\ seen[p].set["workflow"] = seen[p].running
      /\ task[p].choice = "managed" =>
           /\ current.active["converter"] # None
           /\ \/ seen[p].set["converter"] = current.active["converter"]
              \/ "converter" \in seen[p].updated
      /\ file[p].active = Override(current.active, new)
  BY <1>1 DEF JobKnows
<1> DEFINE b == current'.active
<1>4. b = Override(current.active, new)
  BY <1>3
<1> HIDE DEF b
<1>5. b["workflow"] = current.active["workflow"]
  BY <1>1, <1>4, KindsAre DEF Override
<1>6. current.active \in Sets /\ b \in Sets
  BY <1>1, <1>4, CurrentIs, OverrideIsSet
<1>7. WithBundled(b)["workflow"] = WithBundled(current.active)["workflow"]
  BY <1>5, <1>6, KindsAre DEF WithBundled, Sets
<1>8. task[p].choice = "managed" =>
        b["converter"] # None /\ (b["converter"] = current.active["converter"]
                                   \/ "converter" \in seen[p].updated)
  <2>1. CASE "converter" \in DOMAIN new
    <3>1. new["converter"] \in Versions /\ None \notin Versions
      BY <1>1, <2>1, ChangesAre, VersionAssumption
    <3>2. b["converter"] = new["converter"]
      BY <1>4, <2>1, KindsAre DEF Override
    <3> QED
      BY <1>2, <2>1, <3>1, <3>2
  <2>2. CASE "converter" \notin DOMAIN new
    BY <1>3, <1>4, <2>2, KindsAre DEF Override
  <2> QED
    BY <2>1, <2>2
<1>9. JobKnows(p)'
  BY <1>3, <1>7, <1>8 DEF JobKnows, b
<1> QED
  BY <1>9 DEF Knows

LEMMA WriteKeeps ==
  ASSUME IInv, NEW p \in Commands, Write(p)
  PROVE  IInv'
<1>0. /\ pc[p] = "write" /\ current' = file[p] /\ missed' = Missing(p)
      /\ UNCHANGED <<installed, published, jobs, starts, raced>>
  BY DEF Write
<1>1. /\ Typed /\ CommandOK(p) /\ RunsOK(p)
  BY OfCommand
<1>2. Sound(file[p])
  BY <1>0 DEF IInv, FileInv
<1>3. Sound(current)' /\ current' \in Records
  <2>1. Sound(current)'
    BY <1>0, <1>2 DEF Sound, Stocked, GoesBack, LeadsBack
  <2> QED
    BY <1>0, <1>2, <2>1 DEF Sound
<1>4. /\ missed' \in [Commands -> {"none", "before", "after"}]
      /\ missed'[p] = IF GoesOn(p) THEN missed[p] ELSE "none"
      /\ Noticed(p)
  <2>1. missed' \in [Commands -> {"none", "before", "after"}]
    <3>1. ASSUME NEW q \in Commands PROVE missed'[q] \in {"none", "before", "after"}
      BY <1>0, <1>1 DEF Missing, Typed
    <3> QED
      BY <1>0, <3>1 DEF Missing
  <2>2. \A q \in Commands \ {p} : pc[q] # "idle" => missed'[q] = "after"
    BY <1>0 DEF Missing
  <2>3. missed'[p] = IF GoesOn(p) THEN missed[p] ELSE "none"
    BY <1>0 DEF Missing
  <2> QED
    BY <2>1, <2>2, <2>3 DEF Noticed
<1>5. Grows /\ jobs' \ jobs = {}
  BY <1>0 DEF Grows
<1>6. ~raced' => ~raced /\ Fit(current'.active)
  BY <1>0 DEF IInv, RacedInv
<1>7. CASE GoesOn(p)
  <2>1. /\ Goto(p, "check") /\ file' = [file EXCEPT ![p] = None] /\ UNCHANGED <<task, seen, todo>>
    BY <1>7 DEF Write
  <2>2. /\ pc' \in [Commands -> Steps] /\ pc'[p] = "check"
        /\ \A q \in Commands \ {p} : pc'[q] = pc[q]
    BY <1>1, <2>1, GotoIs DEF Steps
  <2>3. Typed' /\ Local(p)
    BY <1>0, <1>1, <1>3, <1>4, <2>1, <2>2 DEF Typed, Local
  <2>4. CommandOK(p)'
    BY <1>0, <1>1, <1>7, <2>1, <2>2 DEF CommandOK, GoesOn, JobSteps
  <2>5. RunsOK(p)'
    BY <1>1, <2>1 DEF RunsOK
  <2>6. ChecksHold(p)'
    BY <2>2 DEF ChecksHold
  <2>7. missed'[p] = "none" => Knows(p)'
    BY <1>0, <1>4, <1>7, <2>1, <2>2, GoesOnKnows
  <2> QED
    BY <1>3, <1>4, <1>5, <1>6, <2>2, <2>3, <2>4, <2>5, <2>6, <2>7, StepKeeps DEF Placed
<1>8. CASE ~GoesOn(p)
  <2>1. Forget(p)
    BY <1>8 DEF Write
  <2>2. Local(p) /\ pc'[p] = "idle" /\ Placed(p)
    BY <1>1, <2>1, ForgetIs
  <2>3. Typed'
    BY <1>0, <1>1, <1>3, <1>4, <2>1, ForgetIs DEF Typed
  <2> QED
    BY <1>3, <1>4, <1>5, <1>6, <2>2, <2>3, StepKeeps
<1> QED
  BY <1>7, <1>8

-----------------------------------------------------------------------------
(* A new Job.                                                                *)
LEMMA JobStepKeeps ==
  ASSUME IInv, NEW p \in Commands, task[p].op = "job", pc[p] \in {"load", "check"},
         NEW record \in Views, Remember(p, record),
         NEW step \in {"check", "create"}, Goto(p, step),
         UNCHANGED <<installed, current, published, task, todo, file, jobs, missed, raced>>,
         record.running = seen[p].running,
         missed[p] = "none" =>
           /\ record.set["workflow"] = record.running
           /\ step = "check" /\ task[p].choice = "managed" =>
                \/ record.set["converter"] = current.active["converter"]
                \/ "converter" \in record.updated
           /\ step = "create" => (Judged(p) => CompatibleSet(Pins(p), Bare(p)))'
  PROVE  IInv'
<1>1. /\ Typed /\ CommandOK(p) /\ RunsOK(p) /\ (missed[p] = "none" => JobKnows(p))
  BY OfCommand DEF Knows
<1>2. /\ pc' \in [Commands -> Steps] /\ pc'[p] = step
      /\ \A q \in Commands \ {p} : pc'[q] = pc[q]
  BY <1>1, GotoIs DEF Steps
<1>3. /\ seen' \in [Commands -> Views] /\ seen'[p] = record
      /\ \A q \in Commands \ {p} : seen'[q] = seen[q]
  BY <1>1, RememberIs
<1>4. Typed' /\ Local(p) /\ NoNews(p)
  BY <1>1, <1>2, <1>3 DEF Typed, Local, NoNews
<1>5. CommandOK(p)'
  BY <1>1, <1>2 DEF CommandOK, JobSteps
<1>6. RunsOK(p)'
  BY <1>1, <1>3 DEF RunsOK
<1>7. ChecksHold(p)'
  BY <1>2 DEF ChecksHold
<1>8. missed'[p] = "none" => Knows(p)'
  <2> SUFFICES ASSUME missed[p] = "none" PROVE JobKnows(p)'
    BY <1>2 DEF Knows
  <2>1. /\ task[p].choice = "managed" => current'.active["converter"] # None
        /\ seen'[p].running = WithBundled(current'.active)["workflow"]
    BY <1>1, <1>3 DEF JobKnows
  <2>2. /\ seen'[p].set["workflow"] = seen'[p].running
        /\ pc'[p] # "create" /\ task'[p].choice = "managed" =>
             \/ seen'[p].set["converter"] = current'.active["converter"]
             \/ "converter" \in seen'[p].updated
        /\ pc'[p] = "create" => (Judged(p) => CompatibleSet(Pins(p), Bare(p)))'
    BY <1>2, <1>3
  <2> QED
    BY <1>2, <2>1, <2>2 DEF JobKnows
<1> QED
  BY <1>2, <1>4, <1>5, <1>6, <1>7, <1>8, QuietKeeps DEF Placed

LEMMA LoadKeeps ==
  ASSUME IInv, NEW p \in Commands, LoadConverter(p)
  PROVE  IInv'
<1>0. /\ pc[p] = "load" /\ Goto(p, "check")
      /\ UNCHANGED <<installed, current, published, task, todo, file, jobs, starts, missed, raced>>
  BY DEF LoadConverter
<1>v. PICK version \in Loadable(p) :
        Remember(p, [seen[p] EXCEPT
          !.set = [WithBundled(current.active) EXCEPT !["converter"] = version]])
  BY DEF LoadConverter
<1> DEFINE set == [WithBundled(current.active) EXCEPT !["converter"] = version]
           record == [seen[p] EXCEPT !.set = set]
<1>1. /\ CommandOK(p) /\ seen[p] \in Views /\ seen[p].set \in Sets
      /\ (missed[p] = "none" => Knows(p))
  BY OfCommand
<1>2. task[p].op = "job"
  BY <1>0, <1>1 DEF CommandOK
<1>3. /\ version \in Versions \cup {None}
      /\ task[p].choice = "managed" => version = seen[p].set["converter"]
  BY <1>1, KindsAre DEF Loadable, Sets
<1>4. /\ set \in Sets /\ set["converter"] = version
      /\ set["workflow"] = WithBundled(current.active)["workflow"]
  BY <1>3, CurrentIs, BundledIsSet, KindsAre DEF Sets
<1> HIDE DEF set
<1>5. /\ record \in Views /\ record.set = set /\ record.running = seen[p].running
      /\ record.updated = seen[p].updated
  BY <1>1, <1>4 DEF Views
<1>6. Remember(p, record)
  BY <1>v DEF set
<1> HIDE DEF record
<1>7. missed[p] = "none" =>
        /\ record.set["workflow"] = record.running
        /\ task[p].choice = "managed" =>
             \/ record.set["converter"] = current.active["converter"]
             \/ "converter" \in record.updated
  BY <1>0, <1>1, <1>2, <1>3, <1>4, <1>5 DEF Knows, JobKnows
<1> QED
  BY <1>0, <1>2, <1>5, <1>6, <1>7, JobStepKeeps

LEMMA OrderIs == Len(Order) = 3 /\ \A i \in 1 .. 3 : Order[i] \in Kinds
<1>1. \A i \in 1 .. 3 : i = 1 \/ i = 2 \/ i = 3
  OBVIOUS
<1> QED
  BY <1>1, KindsAre DEF Order

LEMMA KeepKeeps ==
  ASSUME IInv, NEW p \in Commands, KeepVersion(p)
  PROVE  IInv'
<1> DEFINE record == [seen[p] EXCEPT !.next = @ + 1]
<1>0. /\ pc[p] = "check" /\ seen[p].next <= Len(Order) /\ Remember(p, record)
      /\ UNCHANGED <<installed, current, published, pc, task, todo, file, jobs, starts, missed, raced>>
  BY DEF KeepVersion
<1>1. /\ Typed /\ CommandOK(p) /\ seen[p] \in Views
      /\ (missed[p] = "none" => Knows(p))
  BY OfCommand
<1>2. task[p].op = "job"
  BY <1>0, <1>1 DEF CommandOK
<1>3. /\ record \in Views /\ record.set = seen[p].set /\ record.running = seen[p].running
      /\ record.updated = seen[p].updated
  <2>1. seen[p].next + 1 \in 1 .. Len(Order) + 1
    BY <1>0, <1>1, OrderIs DEF Views
  <2> QED
    BY <1>1, <2>1 DEF Views
<1> HIDE DEF record
<1>4. Goto(p, "check")
  BY <1>0, <1>1 DEF Goto, Typed
<1>5. missed[p] = "none" =>
        /\ record.set["workflow"] = record.running
        /\ task[p].choice = "managed" =>
             \/ record.set["converter"] = current.active["converter"]
             \/ "converter" \in record.updated
  BY <1>0, <1>1, <1>2, <1>3 DEF Knows, JobKnows
<1> QED
  BY <1>0, <1>2, <1>3, <1>4, <1>5, JobStepKeeps

LEMMA UpdateKeeps ==
  ASSUME IInv, NEW p \in Commands, AutoUpdate(p)
  PROVE  IInv'
<1> DEFINE kind == Checked(p)
           record == [seen[p] EXCEPT !.next = @ + 1, !.updated = @ \cup {kind}]
<1>0. /\ pc[p] = "check" /\ seen[p].next <= Len(Order)
      /\ Choose(p, [k \in {kind} |-> Payload(kind).latest])
      /\ todo' = [todo EXCEPT ![p] = <<kind>>]
      /\ Remember(p, record) /\ Goto(p, "install")
      /\ UNCHANGED <<installed, current, published, file, jobs, starts, missed, raced>>
  BY DEF AutoUpdate
<1>1. /\ Typed /\ CommandOK(p) /\ RunsOK(p) /\ seen[p] \in Views
      /\ (missed[p] = "none" => Knows(p))
  BY OfCommand
<1>2. task[p].op = "job"
  BY <1>0, <1>1 DEF CommandOK
<1>3. kind \in Kinds /\ Payload(kind).latest \in Versions /\ seen[p].next + 1 \in 1 .. Len(Order) + 1
  <2>1. seen[p].next \in 1 .. 3 /\ seen[p].next + 1 \in 1 .. Len(Order) + 1
    BY <1>0, <1>1, OrderIs DEF Views
  <2> QED
    BY <1>1, <2>1, OrderIs, PayloadIs DEF Checked
<1> HIDE DEF kind
<1>4. /\ record \in Views /\ record.set = seen[p].set /\ record.running = seen[p].running
      /\ record.updated = seen[p].updated \cup {kind}
  BY <1>1, <1>3 DEF Views
<1> HIDE DEF record
<1>5. /\ seen' \in [Commands -> Views] /\ seen'[p] = record
      /\ \A q \in Commands \ {p} : seen'[q] = seen[q]
  BY <1>0, <1>1, <1>4, RememberIs
<1>6. /\ pc' \in [Commands -> Steps] /\ pc'[p] = "install"
      /\ task' \in [Commands -> Tasks] /\ DOMAIN task'[p].new = {kind}
      /\ task'[p].op = task[p].op /\ task'[p].choice = task[p].choice
      /\ todo' \in [Commands -> Seq(Kinds)]
      /\ \A q \in Commands \ {p} : pc'[q] = pc[q] /\ task'[q] = task[q] /\ todo'[q] = todo[q]
      /\ CommandOK(p)' /\ ChecksHold(p)'
  BY <1>0, <1>2, <1>3, ChooseOne
<1>7. Typed' /\ Local(p) /\ NoNews(p)
  BY <1>0, <1>1, <1>5, <1>6 DEF Typed, Local, NoNews
<1>8. RunsOK(p)'
  BY <1>1, <1>4, <1>5, <1>6 DEF RunsOK
<1>9. missed'[p] = "none" => Knows(p)'
  BY <1>0, <1>1, <1>2, <1>4, <1>5, <1>6 DEF Knows, JobKnows
<1> QED
  BY <1>0, <1>6, <1>7, <1>8, <1>9, QuietKeeps DEF Placed

LEMMA FinalKeeps ==
  ASSUME IInv, NEW p \in Commands, FinalCheck(p)
  PROVE  IInv'
<1> DEFINE loaded == LoadedConverter(p)
           set == [seen[p].set EXCEPT !["converter"] = loaded]
           record == [seen[p] EXCEPT !.set = set]
<1>0. /\ pc[p] = "check" /\ CompatibleSet(Baseline(p), Bare(p))
      /\ Remember(p, record) /\ Goto(p, "create")
      /\ UNCHANGED <<installed, current, published, task, todo, file, jobs, starts, missed, raced>>
  BY DEF FinalCheck
<1>1. /\ Typed /\ CommandOK(p) /\ seen[p] \in Views /\ seen[p].set \in Sets
      /\ (missed[p] = "none" => Knows(p))
  BY OfCommand
<1>2. task[p].op = "job"
  BY <1>0, <1>1 DEF CommandOK
<1>3. loaded \in Versions \cup {None}
  BY <1>1, CurrentIs, KindsAre DEF LoadedConverter, Sets
<1>4. missed[p] = "none" =>
        /\ seen[p].set["workflow"] = seen[p].running
        /\ seen[p].running = WithBundled(current.active)["workflow"]
        /\ Judged(p) => loaded = Baseline(p)["converter"]
  <2> SUFFICES ASSUME missed[p] = "none"
               PROVE  /\ seen[p].set["workflow"] = seen[p].running
                      /\ seen[p].running = WithBundled(current.active)["workflow"]
                      /\ Judged(p) => loaded = Baseline(p)["converter"]
    OBVIOUS
  <2>1. JobKnows(p) /\ task[p].choice \in {"managed", "explicit"}
    BY <1>1, <1>2 DEF Knows, CommandOK
  <2>2. CASE task[p].choice = "managed"
    <3>1. /\ current.active["converter"] # None
          /\ loaded = current.active["converter"]
      BY <1>0, <2>1, <2>2 DEF JobKnows, LoadedConverter
    <3>2. Baseline(p)["converter"] = current.active["converter"]
      BY <3>1, KindsAre DEF Baseline, Bare
    <3> QED
      BY <1>0, <2>1, <3>1, <3>2 DEF JobKnows
  <2>3. CASE current.active["converter"] = None
    <3>1. loaded = seen[p].set["converter"]
      BY <2>3 DEF LoadedConverter
    <3>2. Baseline(p)["converter"] = seen[p].set["converter"]
      BY <2>3, KindsAre DEF Baseline, Bare
    <3> QED
      BY <1>0, <2>1, <3>1, <3>2 DEF JobKnows
  <2> QED
    BY <1>0, <2>1, <2>2, <2>3 DEF JobKnows, Judged
<1> HIDE DEF loaded
<1>5. set \in Sets /\ set["converter"] = loaded /\ set["workflow"] = seen[p].set["workflow"]
  BY <1>1, <1>3, KindsAre DEF Sets
<1> HIDE DEF set
<1>6. record \in Views /\ record.set = set /\ record.running = seen[p].running
  BY <1>1, <1>5 DEF Views
<1> HIDE DEF record
<1>7. seen'[p] = record
  BY <1>0, <1>1, <1>6, RememberIs
<1>8. missed[p] = "none" => (Judged(p) => CompatibleSet(Pins(p), Bare(p)))'
  <2> SUFFICES ASSUME missed[p] = "none", Judged(p)' PROVE CompatibleSet(Pins(p), Bare(p))'
    OBVIOUS
  <2> DEFINE pins == [workflow |-> seen[p].running, converter |-> loaded,
                      knowledge |-> current.active["knowledge"]]
  <2>0. Judged(p)
    BY <1>0 DEF Judged
  <2>1. Pins(p)' = pins
    BY <1>0, <1>5, <1>6, <1>7 DEF Pins
  <2>2. /\ Baseline(p)["workflow"] = seen[p].running
        /\ Baseline(p)["converter"] = loaded
        /\ Baseline(p)["knowledge"] = current.active["knowledge"]
    BY <1>4, <2>0, KindsAre DEF Baseline, Bare, WithBundled
  <2>3. \A kind \in Kinds : Baseline(p)[kind] = pins[kind]
    BY <2>2, KindsAre
  <2> HIDE DEF pins
  <2>4. CompatibleSet(pins, Bare(p))
    BY <1>0, <2>3, CompatibleSame
  <2>5. Bare(p)' = Bare(p)
    BY <1>0 DEF Bare
  <2>6. CompatibleSet(Pins(p)', Bare(p)')
    BY <2>1, <2>4, <2>5
  <2> QED
    BY <2>6 DEF CompatibleSet, Ranges
<1>9. missed[p] = "none" => record.set["workflow"] = record.running
  BY <1>4, <1>5, <1>6
<1> QED
  BY <1>0, <1>2, <1>6, <1>8, <1>9, JobStepKeeps

(* A Job is written, or a Refresh.                                           *)
LEMMA CreateKeeps ==
  ASSUME IInv, NEW p \in Commands, NEW pins \in Sets, pins["workflow"] # None,
         NEW by \in Ways,
         Create(p, pins, by),
         Vouched(Pinned(p, pins, by)) => CompatibleSet(pins, Pinned(p, pins, by).plain)
  PROVE  IInv'
<1>j. PICK job : job = Pinned(p, pins, by)
  OBVIOUS
<1>0. /\ jobs' = jobs \cup {job} /\ Clear(p)
      /\ UNCHANGED <<installed, current, published, starts, raced>>
  BY <1>j DEF Create
<1>1. Typed /\ Forget(p) /\ NoNews(p) /\ missed' \in [Commands -> {"none", "before", "after"}]
  BY <1>0, ClearIs DEF IInv
<1>2. Local(p) /\ pc'[p] = "idle" /\ Placed(p)
  BY <1>1, ForgetIs
<1>3. Typed'
  BY <1>0, <1>1, ForgetIs DEF Typed
<1>4. job.pins = pins /\ job.by = by /\ PinsOK(job)
  BY <1>j DEF PinsOK, Pinned
<1>5. Vouched(job)' => CompatibleSet(job.pins, job.plain)
  <2>1. Vouched(job)' => Vouched(job)
    BY <1>0, <1>4 DEF Vouched, Ways
  <2> QED
    BY <1>j, <1>4, <2>1
<1>6. Grows /\ Noticed(p) /\ (~raced' => ~raced /\ Fit(current'.active))
  BY <1>0, <1>1 DEF Grows, Noticed, NoNews, IInv, RacedInv
<1>7. Sound(current)'
  BY <1>0, CurrentIs DEF Sound, Stocked, GoesBack, LeadsBack
<1>8. \A new \in jobs' \ jobs : new = job
  BY <1>0
<1> QED
  BY <1>2, <1>3, <1>4, <1>5, <1>6, <1>7, <1>8, StepKeeps

LEMMA CreateJobKeeps ==
  ASSUME IInv, NEW p \in Commands, CreateJob(p)
  PROVE  IInv'
<1> DEFINE job == Pinned(p, Pins(p), task[p].choice)
<1>0. pc[p] = "create" /\ Create(p, Pins(p), task[p].choice)
  BY DEF CreateJob
<1>1. /\ CommandOK(p) /\ RunsOK(p) /\ seen[p] \in Views /\ seen[p].set \in Sets
      /\ (missed[p] = "none" => Knows(p))
  BY OfCommand
<1>2. task[p].op = "job" /\ task[p].choice \in {"managed", "explicit"}
  BY <1>0, <1>1 DEF CommandOK
<1>3. Pins(p) \in Sets /\ Pins(p)["workflow"] # None
  <2>1. /\ seen[p].running \in Versions /\ seen[p].set["converter"] \in Versions \cup {None}
        /\ current.active["knowledge"] \in Versions \cup {None}
    BY <1>1, <1>2, CurrentIs, KindsAre DEF RunsOK, Views, Sets
  <2> QED
    BY <2>1, KindsAre, VersionAssumption DEF Pins, Sets
<1>4. ASSUME Vouched(job) PROVE CompatibleSet(Pins(p), job.plain)
  <2>1. missed[p] = "none" /\ Judged(p) /\ Bare(p) \subseteq job.plain
    <3>1. CASE task[p].choice = "managed"
      <4>1. missed[p] = "none"
        BY <1>4, <3>1 DEF Vouched, Pinned
      <4>2. current.active["converter"] # None
        BY <1>1, <1>2, <3>1, <4>1 DEF Knows, JobKnows
      <4> QED
        BY <3>1, <4>1, <4>2 DEF Judged, Bare, Pinned, PlainOf
    <3>2. CASE task[p].choice = "explicit"
      <4>1. missed[p] = "none" /\ "converter" \in job.plain
        BY <1>4, <3>2 DEF Vouched, Pinned
      <4>2. current.active["converter"] = None
        BY <4>1 DEF Pinned, PlainOf
      <4> QED
        BY <3>2, <4>1, <4>2 DEF Judged, Bare, Pinned, PlainOf
    <3> QED
      BY <1>2, <3>1, <3>2
  <2>2. CompatibleSet(Pins(p), Bare(p))
    BY <1>0, <1>1, <1>2, <2>1 DEF Knows, JobKnows
  <2> QED
    BY <2>1, <2>2, CompatibleWeaker
<1> QED
  BY <1>0, <1>2, <1>3, <1>4, CreateKeeps DEF Ways

LEMMA PinRefreshKeeps ==
  ASSUME IInv, NEW p \in Commands, PinRefresh(p)
  PROVE  IInv'
<1> DEFINE job == Pinned(p, current.active, "refresh")
<1>0. /\ CompatibleSet(current.active, {}) /\ current.active["workflow"] # None
      /\ Create(p, current.active, "refresh")
  BY KindsAre DEF PinRefresh
<1>1. CompatibleSet(current.active, job.plain)
  BY <1>0, CompatibleWeaker
<1> QED
  BY <1>0, <1>1, CurrentIs, CreateKeeps DEF Ways

LEMMA PinCurrentKeeps ==
  ASSUME IInv, NEW p \in Commands, PinCurrent(p)
  PROVE  IInv'
<1> DEFINE pins == [current.active EXCEPT !["workflow"] = seen[p].running]
           job == Pinned(p, pins, "create")
<1>0. pc[p] = "pin" /\ Create(p, pins, "create")
  BY DEF PinCurrent
<1>1. /\ CommandOK(p) /\ RunsOK(p) /\ seen[p] \in Views
      /\ (missed[p] = "none" => Knows(p))
  BY OfCommand
<1>2. seen[p].running \in Versions /\ seen[p].running # None
  BY <1>0, <1>1 DEF CommandOK, RunsOK, Views
<1>3. /\ pins \in Sets /\ pins["workflow"] = seen[p].running
      /\ pins["converter"] = current.active["converter"]
      /\ pins["knowledge"] = current.active["knowledge"]
  BY <1>2, CurrentIs, KindsAre DEF Sets
<1> HIDE DEF pins
<1>4. ASSUME Vouched(job) PROVE CompatibleSet(pins, job.plain)
  <2>1. /\ missed[p] = "none" /\ ~raced
        /\ pins["knowledge"] # None \/ "workflow" \notin PlainOf(current.active)
        /\ job.plain = PlainOf(current.active)
    BY <1>4 DEF Vouched, Pinned
  <2>2. CompatibleSet(WithBundled(current.active), PlainOf(current.active))
    BY <1>3, <2>1 DEF IInv, RacedInv, Fit, PlainOf
  <2>3. seen[p].running = WithBundled(current.active)["workflow"]
    BY <1>0, <1>1, <2>1 DEF Knows
  <2>4. \A kind \in Kinds : WithBundled(current.active)[kind] = pins[kind]
    BY <1>3, <2>3, CurrentIs, KindsAre DEF WithBundled, Sets
  <2> QED
    BY <2>1, <2>2, <2>4, CompatibleSame
<1> QED
  BY <1>0, <1>2, <1>3, <1>4, CreateKeeps DEF Ways

-----------------------------------------------------------------------------
(* The invariant.                                                            *)
LEMMA InitHolds == Init => IInv
<1> SUFFICES ASSUME Init PROVE IInv
  OBVIOUS
<1>1. \A p \in Commands :
        /\ pc[p] = "idle" /\ task[p] = NoTask /\ seen[p] = NothingSeen /\ todo[p] = <<>>
  BY DEF Init
<1>2. current = [active |-> NoneActive, history |-> <<>>] /\ current \in Records
  BY NothingIs DEF Init, Records
<1>3. Typed
  <2>1. \A kind \in Kinds : 1 \in DOMAIN Channel[kind]
    <3>1. ASSUME NEW kind \in Kinds PROVE 1 \in DOMAIN Channel[kind]
      <4>1. Channel[kind] \in Seq(Payloads) /\ Channel[kind] # <<>>
        BY ChannelAssumption
      <4> QED
        BY <4>1
    <3> QED
      BY <3>1
  <2>2. published \in [Kinds -> Nat] /\ \A kind \in Kinds : published[kind] \in DOMAIN Channel[kind]
    BY <2>1 DEF Init
  <2>3. /\ pc \in [Commands -> Steps] /\ task \in [Commands -> Tasks]
        /\ seen \in [Commands -> Views]
    BY NothingIs DEF Init, Steps
  <2>4. /\ installed \in [Kinds -> SUBSET Versions] /\ todo \in [Commands -> Seq(Kinds)]
        /\ file \in [Commands -> Records \cup {None}] /\ raced \in BOOLEAN
        /\ missed \in [Commands -> {"none", "before", "after"}]
    <3>1. <<>> \in Seq(Kinds)
      OBVIOUS
    <3> QED
      BY <3>1 DEF Init
  <2> QED
    BY <1>2, <2>2, <2>3, <2>4 DEF Typed
<1>4. FileInv
  <2>1. Sound(current)
    BY <1>2, ReleaseBounds DEF Sound, Stocked, GoesBack, LeadsBack, NoneActive
  <2> QED
    BY <1>1, <2>1 DEF FileInv
<1>5. jobs = {}
  BY DEF Init
<1>6. CommandInv
  <2>1. \A p \in Commands : RunsOK(p)
    BY <1>1, NothingIs DEF RunsOK
  <2>2. ASSUME NEW p \in Commands PROVE CommandOK(p)
    <3>1. /\ pc[p] = "idle" /\ task[p].op = "none" /\ DOMAIN task[p].new = {}
          /\ todo[p] = <<>> /\ DOMAIN todo[p] = {}
      <4>1. DOMAIN <<>> = {}
        OBVIOUS
      <4> QED
        BY <1>1, <4>1, NothingIs
    <3> QED
      BY <3>1 DEF CommandOK
  <2> QED
    BY <1>5, <2>1, <2>2 DEF CommandInv
<1>7. RacedInv
  <2>1. Fit(current.active)
    BY <1>2, KindsAre DEF Fit, NoneActive
  <2> QED
    BY <1>1, <2>1 DEF RacedInv
<1>8. CheckInv
  BY <1>1, NothingIs DEF CheckInv, ChecksHold, Knows
<1>9. JobsAreCompatible
  BY <1>5 DEF JobsAreCompatible
<1> QED
  BY <1>3, <1>4, <1>6, <1>7, <1>8, <1>9 DEF IInv

LEMMA NextKeeps == IInv /\ [Next]_vars => IInv'
<1> SUFFICES ASSUME IInv, [Next]_vars PROVE IInv'
  OBVIOUS
<1>1. CASE UNCHANGED vars
  <2>0. UNCHANGED <<installed, current, published, pc, task, seen, todo, file, jobs, missed, raced>>
    BY <1>1 DEF vars
  <2>1. Typed' /\ FileInv' /\ CommandInv'
    BY <2>0 DEF IInv, Typed, FileInv, Sound, Stocked, GoesBack, LeadsBack,
                CommandInv, CommandOK, RunsOK, PinsOK
  <2>2. RacedInv' /\ JobsAreCompatible'
    BY <2>0 DEF IInv, RacedInv, JobsAreCompatible, Vouched
  <2>3. CheckInv'
    BY <2>0 DEF IInv, CheckInv, ChecksHold, Knows, JobKnows, Judged, Pins, Bare
  <2> QED
    BY <2>1, <2>2, <2>3 DEF IInv
<1>2. CASE Publish
  BY <1>2, PublishKeeps
<1>3. ASSUME NEW p \in Commands,
             \/ StartApply(p) \/ StartInstall(p) \/ StartActivate(p) \/ StartRollback(p)
             \/ StartJob(p) \/ StartCreate(p)
      PROVE  IInv'
  BY <1>3, StartsKeep
<1>4. ASSUME NEW p \in Commands,
             Plan(p) \/ EvaluateInstall(p) \/ InstallNext(p) \/ Installed(p)
      PROVE  IInv'
  BY <1>4, PlanKeeps, EvaluateKeeps, InstallKeeps, InstalledKeeps
<1>5. ASSUME NEW p \in Commands, AssertFits(p) \/ Commit(p) \/ Write(p) \/ Vet(p) \/ Revert(p)
      PROVE  IInv'
  BY <1>5, AssertKeeps, CommitKeeps, WriteKeeps, VetKeeps, RevertKeeps
<1>6. ASSUME NEW p \in Commands,
             LoadConverter(p) \/ KeepVersion(p) \/ AutoUpdate(p) \/ FinalCheck(p)
      PROVE  IInv'
  BY <1>6, LoadKeeps, KeepKeeps, UpdateKeeps, FinalKeeps
<1>7. ASSUME NEW p \in Commands, CreateJob(p) \/ PinRefresh(p) \/ PinCurrent(p)
      PROVE  IInv'
  BY <1>7, CreateJobKeeps, PinRefreshKeeps, PinCurrentKeeps
<1>8. ASSUME NEW p \in Commands, Stop(p) PROVE IInv'
  BY <1>8, ClearKeeps DEF Stop
<1> QED
  BY <1>1, <1>2, <1>3, <1>4, <1>5, <1>6, <1>7, <1>8 DEF Next

(* Whatever commands run, in any order and overlap, and wherever one stops:  *)
(* current.json and each file about to replace it name what is installed and *)
(* can go back; what a command chose is installed or still to be installed;  *)
(* what one has checked holds until it misses a write of current.json; and   *)
(* the active set fits until an activation rests on a check that missed one. *)
THEOREM ReleaseInvariant == Spec => []IInv
<1>1. Init => IInv
  BY InitHolds
<1>2. IInv /\ [Next]_vars => IInv'
  BY NextKeeps
<1> QED
  BY <1>1, <1>2, PTL DEF Spec

(* The variables of Releases keep their types, and the history its limit.    *)
THEOREM TypeCorrect == Spec => []TypeOK
<1>1. IInv => TypeOK
  <2> SUFFICES ASSUME IInv PROVE TypeOK
    OBVIOUS
  <2>1. /\ \A kind \in Kinds : installed[kind] \subseteq Versions
        /\ current.active \in Sets /\ Len(current.history) <= HistoryLimit
    BY CurrentIs DEF IInv, Typed, Sound, GoesBack
  <2>2. \A i \in DOMAIN current.history : current.history[i] \in Entries
    <3>1. current.history \in Seq(Entries)
      BY CurrentIs DEF Records
    <3> QED
      BY <3>1, ElementOfSeq, LenProperties
  <2>3. ASSUME NEW p \in Commands
        PROVE  /\ pc[p] \in Steps
               /\ \A k \in DOMAIN task[p].new : k \in Kinds /\ task[p].new[k] \in Versions
               /\ seen[p].set \in Sets /\ seen[p].next \in 1 .. Len(Order) + 1
               /\ missed[p] \in {"none", "before", "after"}
    BY OfCommand, ChangesAre DEF Views, Typed
  <2>4. \A job \in jobs : job.pins \in Sets /\ job.pins["workflow"] # None
    BY DEF IInv, CommandInv, PinsOK
  <2> QED
    BY <2>1, <2>2, <2>3, <2>4 DEF TypeOK, Entries, Steps
<1> QED
  BY <1>1, ReleaseInvariant, PTL

(* A rollback never returns to the version that is active.                   *)
THEOREM RollbacksReturn == Spec => []RollbackReturns
<1>1. IInv => RollbackReturns
  BY CurrentIs, TargetIs DEF RollbackReturns
<1> QED
  BY <1>1, ReleaseInvariant, PTL

(* The active runtimes accept each other, however commands overlap and stop, *)
(* until activateSet is called upon a check that had missed a write.         *)
THEOREM SetIsCompatible == Spec => []SetStaysCompatible
<1>1. IInv => SetStaysCompatible
  BY DEF IInv, RacedInv, Fit, SetStaysCompatible
<1> QED
  BY <1>1, ReleaseInvariant, PTL

(* What a Refresh, and a Job behind the preflight whose command missed no    *)
(* write, pins fits together, also when runtimes were updated one by one     *)
(* before it; what job create pins fits when the active set it takes over    *)
(* does; an explicit Converter's fits when no other is active.               *)
THEOREM JobsPinCompatible == Spec => []JobsAreCompatible
<1>1. IInv => JobsAreCompatible
  BY DEF IInv
<1> QED
  BY <1>1, ReleaseInvariant, PTL

=============================================================================

------------------------------- MODULE PatchPolicy -------------------------------
(***************************************************************************)
(* One operation of a repair patch: which operations the policy lets pass,  *)
(* and what they make of a work.  Source:                                   *)
(* src/src/workflow/patch-policy.js.                                        *)
(*                                                                          *)
(* A document is the set of its nodes, each with its path from the root and *)
(* its kind: "object", "array" or a leaf value.  The label of a child is    *)
(* its key in an object and its index in an array.  The limits on the size  *)
(* of a patch and its values are left out.                                  *)
(***************************************************************************)
EXTENDS Integers, Sequences

CONSTANTS
  Segments,   \* keys, and what may stand between two slashes of a pointer
  Denied,     \* DENIED_SEGMENTS: keys of identities and secrets
  Roots,      \* ALLOWED_ROOTS: `case`, `stage`, `server`
  Index,      \* Number(segment) where it is a natural number, -1 elsewhere
  AtEnd,      \* the segment `-`
  Leaves      \* values without children

Labels == Segments \cup Nat
Nodes == [path : Seq(Labels), kind : {"object", "array"} \cup Leaves]

Node(path, kind) == [path |-> path, kind |-> kind]
Upto(path, n) == SubSeq(path, 1, n)
Parent(path) == Upto(path, Len(path) - 1)
Under(path, other) ==
  Len(path) <= Len(other) /\ \A i \in 1 .. Len(path) : other[i] = path[i]
Protected(path) == \E i \in 1 .. Len(path) : path[i] \in Denied

Exists(doc, path) == \E node \in doc : node.path = path
IsArray(doc, path) == Node(path, "array") \in doc
IsContainer(doc, path) == IsArray(doc, path) \/ Node(path, "object") \in doc

-----------------------------------------------------------------------------
(* An operation; the nodes of its value have paths from the value's root.    *)
Operations ==
  [op : {"add", "remove", "replace"}, path : Seq(Segments), value : SUBSET Nodes]

(* validateRepairPatch and containsProtectedKey of its value                 *)
PatchAllowed(o) ==
  /\ Len(o.path) > 1 /\ o.path[1] \in Roots
  /\ ~Protected(o.path)
  /\ o.op # "remove" => \A node \in o.value : ~Protected(node.path)

-----------------------------------------------------------------------------
(* The index that follows those of an array.                                 *)
IsNext(doc, path, n) ==
  ~Exists(doc, Append(path, n)) /\ (n = 0 \/ Exists(doc, Append(path, n - 1)))

(* resolveParent and the key: `at` is the path the segments lead to.         *)
Resolves(doc, o, at) ==
  /\ at \in Seq(Labels) /\ Len(at) = Len(o.path)
  /\ \A i \in 1 .. Len(at) :
       IF ~IsArray(doc, Upto(at, i - 1)) THEN at[i] = o.path[i]
       ELSE /\ at[i] \in Nat
            /\ IF i = Len(at) /\ o.op = "add" /\ o.path[i] = AtEnd
                 THEN IsNext(doc, Parent(at), at[i])
                 ELSE at[i] = Index[o.path[i]]

(* An addition creates the objects its path lacks; nothing else does.        *)
IsCreated(doc, o, at, n) ==
  o.op = "add" /\ ~IsArray(doc, Upto(at, n - 1)) /\ ~Exists(doc, Upto(at, n))
Created(doc, o, at) ==
  {Node(Upto(at, n), "object") :
     n \in {m \in 1 .. Len(at) - 1 : IsCreated(doc, o, at, m)}}

(* applyRepairPatch does not throw at this operation.                        *)
Applicable(doc, o, at) ==
  /\ \A n \in 1 .. Len(at) - 1 : IsContainer(doc, Upto(at, n)) \/ IsCreated(doc, o, at, n)
  /\ IF o.op = "add"
       THEN IsArray(doc, Parent(at)) =>
              Exists(doc, at) \/ IsNext(doc, Parent(at), at[Len(at)])
       ELSE Exists(doc, at)

(* splice: what follows in an array moves up or down.                        *)
Distance(doc, o, at) ==
  IF ~IsArray(doc, Parent(at)) \/ o.op = "replace" THEN 0
  ELSE IF o.op = "add" THEN 1 ELSE -1
Moved(path, at, distance) ==
  IF /\ distance # 0
     /\ Under(Parent(at), path) /\ Len(path) >= Len(at)
     /\ path[Len(at)] >= at[Len(at)]
    THEN [path EXCEPT ![Len(at)] = @ + distance] ELSE path

(* What the operation does away with, unless it makes room in an array.      *)
Kept(doc, o, at) ==
  IF o.op = "add" /\ IsArray(doc, Parent(at)) THEN doc
  ELSE {node \in doc : ~Under(at, node.path)}

(* applyRepairPatch, one operation                                           *)
Applied(doc, o, at) ==
  {Node(Moved(node.path, at, Distance(doc, o, at)), node.kind) : node \in Kept(doc, o, at)}
  \cup Created(doc, o, at)
  \cup IF o.op = "remove" THEN {}
       ELSE {Node(at \o node.path, node.kind) : node \in o.value}

-----------------------------------------------------------------------------
(* A work: an object at the root, and indices below arrays only.             *)
IsDocument(doc) ==
  /\ doc \subseteq Nodes
  /\ ~IsArray(doc, <<>>)
  /\ \A node \in doc : \A i \in 1 .. Len(node.path) :
       node.path[i] \in Nat <=> IsArray(doc, Upto(node.path, i - 1))

(* Keys are no numbers, and the roots are not among the denied ones.         *)
SegmentsOK ==
  /\ Segments \cap Int = {}
  /\ Denied \subseteq Segments /\ Roots \subseteq Segments \ Denied
==================================================================================

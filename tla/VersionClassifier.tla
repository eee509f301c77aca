--------------------------- MODULE VersionClassifier ---------------------------
(***************************************************************************)
(* Which generation of the editor made a case, judged from its metadata and *)
(* from the events in its work: src/src/workflow/version-classifier.js.     *)
(* Only a confirmed V4 work may be converted.                               *)
(*                                                                          *)
(* Metadata is a record of the version number in `extra` (any nesting of it *)
(* has been parsed), the ntype and the editor version strings of its five   *)
(* aliases.  A work is the set of its objects, each with the signals it     *)
(* carries; NoWork is a missing one.                                        *)
(***************************************************************************)
EXTENDS Naturals

CONSTANTS
  NoWork,   \* no work was read
  Absent    \* a metadata field that is missing

Signals == {"v5EventAst", "v4EventTree", "legacyEventOn", "formulaObjects"}
Works == SUBSET (SUBSET Signals) \cup {NoWork}

-----------------------------------------------------------------------------
(* normalizeEditorVersion: a missing or empty version says nothing.          *)
Normalized(value) ==
  CASE value \in {"4", "4.0"} -> "V4_0"
    [] value = "4.1" -> "V4_1"
    [] value \in {"3", "3.0", "3.5"} -> "OUT_OF_SCOPE"
    [] value \in {Absent, ""} -> Absent
    [] OTHER -> "UNKNOWN"

Candidates(metadata) == {Normalized(v) : v \in metadata.editors} \ {Absent}

(* classifyMetadataVersion                                                   *)
MetadataKind(metadata) ==
  IF metadata.ver = 2 THEN IF metadata.ntype \in {91, 92} THEN "V5_1" ELSE "V5_0"
  ELSE IF Candidates(metadata) = {} THEN "UNKNOWN"
  ELSE IF \E kind \in Candidates(metadata) : Candidates(metadata) = {kind}
       THEN CHOOSE kind \in Candidates(metadata) : TRUE
       ELSE "AMBIGUOUS"

(* scanWorkVersionSignals                                                    *)
Shows(work, signal) == work # NoWork /\ \E object \in work : signal \in object

PhysicalKind(work) ==
  LET v5 == Shows(work, "v5EventAst")
      v4 == Shows(work, "v4EventTree") \/ Shows(work, "legacyEventOn")
  IN CASE v5 /\ v4 -> "AMBIGUOUS"
       [] v5 /\ ~v4 -> "V5"
       [] ~v5 /\ v4 -> "V4"
       [] ~v5 /\ ~v4 -> "UNKNOWN"

(* A V4 work with the new event format only.                                 *)
NewFormat(work) == ~Shows(work, "legacyEventOn")

-----------------------------------------------------------------------------
(* classifyCaseVersion                                                       *)
MetadataIsV5(metadata) == MetadataKind(metadata) \in {"V5_0", "V5_1"}
MetadataIsV4(metadata) == MetadataKind(metadata) \in {"V4_0", "V4_1"}

Conflict(metadata, work) ==
  \/ MetadataIsV5(metadata) /\ PhysicalKind(work) = "V4"
  \/ MetadataIsV4(metadata) /\ PhysicalKind(work) = "V5"
  \/ PhysicalKind(work) = "AMBIGUOUS"
  \/ MetadataKind(metadata) = "AMBIGUOUS"

Reason(metadata, work) ==
  IF Conflict(metadata, work) THEN "VERSION_SIGNAL_CONFLICT"
  ELSE IF MetadataIsV5(metadata) \/ PhysicalKind(work) = "V5" THEN "ALREADY_V5"
  ELSE IF MetadataKind(metadata) = "OUT_OF_SCOPE" THEN "SOURCE_VERSION_OUT_OF_SCOPE"
  ELSE IF PhysicalKind(work) = "V4"
       THEN IF NewFormat(work) THEN "CONFIRMED_V4" ELSE "UNSUPPORTED_V4_FORMAT"
  ELSE IF MetadataIsV4(metadata)
       THEN IF work # NoWork THEN "CONFIRMED_V4_METADATA_FALLBACK"
            ELSE "WORK_REQUIRED_FOR_PHYSICAL_CONFIRMATION"
  ELSE "INSUFFICIENT_VERSION_SIGNALS"

ConvertibleReasons == {"CONFIRMED_V4", "CONFIRMED_V4_METADATA_FALLBACK"}
Convertible(metadata, work) == Reason(metadata, work) \in ConvertibleReasons

(* terminalForVersion: the status of a Job whose source is not converted.    *)
TerminalForVersion(reason) ==
  CASE reason = "ALREADY_V5" -> "SKIPPED_ALREADY_V5"
    [] reason = "SOURCE_VERSION_OUT_OF_SCOPE" -> "SKIPPED_OUT_OF_SCOPE"
    [] reason = "UNSUPPORTED_V4_FORMAT" -> "UNSUPPORTED_V4_FORMAT"
    [] OTHER -> "VERSION_AMBIGUOUS"
=============================================================================

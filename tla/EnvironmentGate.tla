----------------------------- MODULE EnvironmentGate -----------------------------
(***************************************************************************)
(* Whether the environment of a V5 target is equivalent to that of its V4   *)
(* source, field by field, as far as it is not a matter of the case itself: *)
(* src/src/environment/environment-gate.js and field-policy.js.  A repair   *)
(* of the target asks for an equivalent environment, a cycle for that or    *)
(* for a user who accepts the risk.                                         *)
(*                                                                          *)
(* An environment is a function from the paths of the fields it has to      *)
(* their values (canonical, so that equal means the same); `asserted` is    *)
(* the set of paths a user has confirmed to be bound equivalently.          *)
(***************************************************************************)
CONSTANTS
  Policy,       \* the policy registry: a function from paths, all of them
  Unregistered, \* the policy of a path no rule is registered for
  PreDisable,   \* /workInfo/extra/preDisable, a flag that is false when absent
  False,        \* its value false
  Settings,     \* a function from /workInfo/domain and /workInfo/previewDomain
                \*   to the fields of /settings they are a projection of
  Blank         \* values that mean nothing: null, blank texts, empty structures

Has(environment, path) == path \in DOMAIN environment
Meaningful(environment, path) == Has(environment, path) /\ environment[path] \notin Blank

(* What the gate looks at: the fields of either side.                        *)
Fields(source, target) == DOMAIN source \cup DOMAIN target

Same(source, target, path) ==
  Has(source, path) /\ Has(target, path) /\ source[path] = target[path]

-----------------------------------------------------------------------------
(* validateBindingAssertions: a user may speak for bindings only.            *)
Bindings == {"USE_TARGET_BINDING", "REQUIRE_USER_BINDING"}
Assertable(source, target) == {path \in Fields(source, target) : Policy[path] \in Bindings}

(* evaluateDefaultFalseBoolean                                               *)
Flag(environment, path) == IF Has(environment, path) THEN environment[path] ELSE False
DefaultFalse(source, target, path) ==
  IF Flag(source, path) # Flag(target, path) THEN "BLOCKED"
  ELSE IF Has(source, path) <=> Has(target, path) THEN "EQUIVALENT" ELSE "NORMALIZED"

(* A binding of the target, or one the user has to vouch for.                *)
TargetBinding(source, target, asserted, path) ==
  IF ~Meaningful(source, path)
    THEN IF Meaningful(target, path) THEN "NORMALIZED" ELSE "EQUIVALENT"
  ELSE IF Same(source, target, path) THEN "EQUIVALENT"
  ELSE IF path \in asserted THEN "NORMALIZED" ELSE "REQUIRES_USER_BINDING"

UserBinding(source, asserted, path) ==
  IF ~Meaningful(source, path) THEN "EQUIVALENT"
  ELSE IF path \in asserted THEN "NORMALIZED" ELSE "REQUIRES_USER_BINDING"

(* evaluateField                                                             *)
Evaluated(source, target, asserted, path) ==
  IF path = PreDisable THEN DefaultFalse(source, target, path)
  ELSE CASE Policy[path] = "IGNORE_FOR_PARITY" -> "IGNORED"
         [] Policy[path] \in {"COPY_EXACT", "REDACT_AND_COMPARE"} ->
              IF Same(source, target, path) THEN "EQUIVALENT" ELSE "BLOCKED"
         [] Policy[path] = "REMAP_FOR_TARGET" ->
              IF Has(source, path) /\ ~Has(target, path) THEN "BLOCKED" ELSE "NORMALIZED"
         [] Policy[path] = "USE_TARGET_BINDING" -> TargetBinding(source, target, asserted, path)
         [] Policy[path] = "REQUIRE_USER_BINDING" -> UserBinding(source, asserted, path)
         [] OTHER -> "BLOCKED"

(* normalizeWorkInfoProjections: the target need not repeat what its         *)
(* settings say.                                                             *)
Projected(source, target, asserted, path) ==
  /\ path \in DOMAIN Settings
  /\ Has(source, path) /\ ~Has(target, path)
  /\ Has(source, Settings[path]) /\ Has(target, Settings[path])
  /\ Evaluated(source, target, asserted, Settings[path]) \in {"EQUIVALENT", "NORMALIZED"}

Disposition(source, target, asserted, path) ==
  IF /\ Evaluated(source, target, asserted, path) = "BLOCKED"
     /\ Projected(source, target, asserted, path)
    THEN "NORMALIZED" ELSE Evaluated(source, target, asserted, path)

-----------------------------------------------------------------------------
(* evaluateEnvironmentGate                                                   *)
Disposed(source, target, asserted, disposition) ==
  {path \in Fields(source, target) :
     Disposition(source, target, asserted, path) = disposition}

GateStatus(source, target, asserted) ==
  IF Disposed(source, target, asserted, "BLOCKED") # {} THEN "BLOCKED_ENVIRONMENT"
  ELSE IF Disposed(source, target, asserted, "REQUIRES_USER_BINDING") # {}
    THEN "REQUIRES_USER_BINDING"
  ELSE IF Disposed(source, target, asserted, "NORMALIZED") # {} THEN "NORMALIZED_EQUIVALENT"
  ELSE "ENVIRONMENT_EQUIVALENT"

(* What a comparison and a repair ask of the latest comparison.              *)
Equivalent(source, target, asserted) ==
  GateStatus(source, target, asserted) \in {"ENVIRONMENT_EQUIVALENT", "NORMALIZED_EQUIVALENT"}

-----------------------------------------------------------------------------
(* What an equivalent environment is, said without dispositions: the cases   *)
(* behave alike where they are compared, the target has a route of its own   *)
(* wherever the source has one, and a binding the source relies on is the    *)
(* same in the target or vouched for by the user.                            *)
Matches(source, target, asserted, path) ==
  IF path = PreDisable THEN Flag(source, path) = Flag(target, path)
  ELSE /\ Policy[path] # Unregistered
       /\ Policy[path] \in {"COPY_EXACT", "REDACT_AND_COMPARE"} =>
            Same(source, target, path)
       /\ Policy[path] = "REMAP_FOR_TARGET" /\ Has(source, path) =>
            \/ Has(target, path)
            \/ /\ path \in DOMAIN Settings
               /\ Has(source, Settings[path]) /\ Has(target, Settings[path])
       /\ Policy[path] = "USE_TARGET_BINDING" /\ Meaningful(source, path) =>
            Same(source, target, path) \/ path \in asserted
       /\ Policy[path] = "REQUIRE_USER_BINDING" /\ Meaningful(source, path) =>
            path \in asserted

(* The registry: what field-policy.js registers, of the paths above.         *)
Policies ==
  {"COPY_EXACT", "REDACT_AND_COMPARE", "REMAP_FOR_TARGET", "IGNORE_FOR_PARITY"} \cup Bindings
RegistryOK ==
  /\ \A path \in DOMAIN Policy : Policy[path] \in Policies \cup {Unregistered}
  /\ Unregistered \notin Policies
  /\ \A path \in DOMAIN Settings :
       /\ path \in DOMAIN Policy /\ Policy[path] = "REMAP_FOR_TARGET" /\ path # PreDisable
       /\ Settings[path] \in DOMAIN Policy /\ Policy[Settings[path]] = "REMAP_FOR_TARGET"
       /\ Settings[path] # PreDisable
==================================================================================

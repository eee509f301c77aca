----------------------------- MODULE PlatformAdapter -----------------------------
(***************************************************************************)
(* The platform adapter without its calls: how the answer to a request is   *)
(* classified, and how the routing of a target is built, written and        *)
(* recognised.  Source: src/src/platform/http-adapter.js.                   *)
(***************************************************************************)
EXTENDS Integers

CONSTANT NoAnswer   \* the request failed before a response was received

-----------------------------------------------------------------------------
(* An answer: its HTTP status, the codes along its error chain, whether this *)
(* chain is the refusal of a group, whether its body asks for a login, and   *)
(* whether the body can be read as what was asked for.                       *)
Answers ==
  [status : 200 .. 599, codes : SUBSET Int, group : BOOLEAN, login : BOOLEAN,
   readable : BOOLEAN]
Ok(answer) == answer.status \in 200 .. 299
LoginFilter(answer) == answer.status = 203 /\ answer.login

(* isPlatformMemberPermissionRejection: only the two saves tell it.          *)
MemberRejection(path, answer) ==
  /\ path \in {"saveAs", "save"}
  /\ \/ answer.status = 401 \/ {401, 403} \cap answer.codes # {}
     \/ path = "saveAs" /\ answer.group

(* #request: "returned", or the outcome recorded in the error; a body that   *)
(* cannot be read is an error without one.                                   *)
Outcome(path, write, answer) ==
  IF answer = NoAnswer
    THEN IF write THEN "UNKNOWN_AFTER_WRITE_ATTEMPT" ELSE "NO_RESPONSE"
  ELSE IF ~Ok(answer)
    THEN IF ~write THEN "REJECTED"
         ELSE IF MemberRejection(path, answer) THEN "REJECTED_BY_PLATFORM"
         ELSE "UNKNOWN_AFTER_WRITE_ATTEMPT"
  ELSE IF LoginFilter(answer)
    THEN IF write THEN "REJECTED_BY_PLATFORM" ELSE "REJECTED"
  ELSE IF answer.readable THEN "returned" ELSE "none"

-----------------------------------------------------------------------------
(* WORK_ROUTING_KEYS.  Case information and settings are functions from some *)
(* of these keys, and may have others; values of a wrong type, at which the  *)
(* code throws, are left out.                                                *)
Keys ==
  {"domain", "path", "previewDomain", "previewPath", "customDomain", "pubRoot", "preRoot"}

(* extractWorkRouting: the settings speak first.                             *)
Routing(info, settings) ==
  [key \in Keys \cap (DOMAIN info \cup DOMAIN settings) |->
     IF key \in DOMAIN settings THEN settings[key] ELSE info[key]]

Given(routing, key, default) == IF key \in DOMAIN routing THEN routing[key] ELSE default
IsRootPath(text) == text \in {"", "/"}
RootOf(key) == IF key = "path" THEN "pubRoot" ELSE "preRoot"

AtRoot(routing, key) == Given(routing, RootOf(key), IsRootPath(routing[key]))
EffectivePath(routing, key) == IF AtRoot(routing, key) THEN "/" ELSE routing[key]

(* extractWorkDomainBinding, which reads the source's settings alone, and    *)
(* extractWorkPathOwnership of the target.                                   *)
DomainBinding(routing) ==
  [domain |-> Given(routing, "domain", ""),
   previewDomain |-> Given(routing, "previewDomain", ""),
   customDomain |-> Given(routing, "customDomain", FALSE)]
PathOwnership(routing) ==
  [path |-> EffectivePath(routing, "path"),
   previewPath |-> EffectivePath(routing, "previewPath"),
   pubRoot |-> AtRoot(routing, "path"), preRoot |-> AtRoot(routing, "previewPath")]

(* buildSaveAsDomainRouting: the domains of the source, the paths of the     *)
(* target.                                                                   *)
Built(binding, ownership) ==
  [domain |-> binding.domain, previewDomain |-> binding.previewDomain,
   customDomain |-> binding.customDomain,
   path |-> ownership.path, previewPath |-> ownership.previewPath,
   pubRoot |-> ownership.pubRoot, preRoot |-> ownership.preRoot]

(* observedWorkRoutingValue                                                  *)
ObservedValue(routing, key) ==
  CASE key \in {"domain", "previewDomain"} -> Given(routing, key, "")
    [] key = "customDomain" -> Given(routing, key, FALSE)
    [] key \in {"path", "previewPath"} -> EffectivePath(routing, key)
    [] key = "pubRoot" -> AtRoot(routing, "path")
    [] OTHER -> AtRoot(routing, "previewPath")

(* workRoutingMatches                                                        *)
RoutingMatches(expected, routing) ==
  \A key \in DOMAIN expected : ObservedValue(routing, key) = expected[key]

-----------------------------------------------------------------------------
(* What `work/modify` is taken to do: the fields it is given are those that  *)
(* are read afterwards, be they found in the information or in the settings. *)
Stores(info, settings, routing) ==
  \A key \in Keys : key \in DOMAIN Routing(info, settings)
                      /\ Routing(info, settings)[key] = routing[key]
==================================================================================

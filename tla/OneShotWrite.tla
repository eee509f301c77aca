----------------------------- MODULE OneShotWrite -----------------------------
(***************************************************************************)
(* What an authorized plan promises of the write it permits: the permit is  *)
(* spent before the request leaves, the request leaves at most once, and    *)
(* the verdict on the plan, once there is one, neither changes nor lets the *)
(* request out.  The request itself may take effect at any later time.      *)
(***************************************************************************)
EXTENDS Naturals

VARIABLES
  permit,   \* "none", "granted" to a plan, "spent" on its request
  sends,    \* how many requests have left
  fate,     \* of the request: "none" before it leaves, "out" until it is settled
  verdict   \* "open" until the plan is closed

vars == <<permit, sends, fate, verdict>>


Init == permit = "none" /\ sends = 0 /\ fate = "none" /\ verdict = "open"

Grant ==
  /\ permit = "none" /\ verdict = "open"
  /\ permit' = "granted"
  /\ UNCHANGED <<sends, fate, verdict>>

Spend ==
  /\ permit = "granted" /\ verdict = "open"
  /\ permit' = "spent"
  /\ UNCHANGED <<sends, fate, verdict>>

Send ==
  /\ permit = "spent" /\ sends = 0 /\ verdict = "open"
  /\ sends' = 1
  /\ fate' = "out"
  /\ UNCHANGED <<permit, verdict>>

TakeEffect ==
  /\ fate = "out"
  /\ fate' \in {"applied", "refused", "lost"}
  /\ UNCHANGED <<permit, sends, verdict>>

(* A plan that never spent its permit is abandoned without a trace on the    *)
(* target.                                                                   *)
Abandon ==
  /\ permit # "spent" /\ verdict = "open"
  /\ verdict' = "void"
  /\ UNCHANGED <<permit, sends, fate>>

(* One that did is decided; it is closed as refused only if the request was. *)
Decide ==
  /\ permit = "spent" /\ verdict = "open"
  /\ verdict' \in {"confirmed", "unknown", "drifted"}
                    \cup {v \in {"refused"} : fate = "refused"}
  /\ UNCHANGED <<permit, sends, fate>>

Next == Grant \/ Spend \/ Send \/ TakeEffect \/ Abandon \/ Decide

Spec == Init /\ [][Next]_vars
=============================================================================

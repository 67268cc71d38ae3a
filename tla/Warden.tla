------------------------------- MODULE Warden -------------------------------
(***************************************************************************)
(* An agent-warden stack with its kill switch, its digest, or both: opt-in *)
(* features with functions, topics and triggers of their own.              *)
(***************************************************************************)
EXTENDS Containment, Digest

CONSTANT Stacks   \* which of the two features a stack may have enabled

ASSUME StacksAssumption == Stacks \subseteq SUBSET {"budget_killswitch", "daily_digest"}

VARIABLE enabled   \* the features this stack has enabled

vars == <<enabled, containmentVars, digestVars>>

Init ==
  /\ enabled \in Stacks
  /\ ContainmentInit /\ DigestInit
  /\ "daily_digest" \notin enabled => lake = FALSE
  /\ "budget_killswitch" \notin enabled => exclusive = FALSE

Next ==
  /\ UNCHANGED enabled
  /\ \/ "budget_killswitch" \in enabled /\ ContainmentNext /\ UNCHANGED digestVars
     \/ "daily_digest" \in enabled /\ DigestNext /\ UNCHANGED containmentVars

\* AWS delivers the notice, and runs and retries the function.
Fairness ==
  \A n \in Notice :
    WF_vars("budget_killswitch" \in enabled /\ Invoke(n) /\ UNCHANGED <<enabled, digestVars>>)

Spec == Init /\ [][Next]_vars /\ Fairness

\* What the variables hold.
TypeOK ==
  /\ enabled \in Stacks
  /\ ContainmentTypeOK /\ DigestTypeOK
=============================================================================

---------------------------- MODULE Containment ----------------------------
(***************************************************************************)
(* agent-warden: how the agent's role is contained and released.  The      *)
(* budget notifies, the kill-switch function attaches an emergency deny to *)
(* the role, people codify it with kill_switch = true and delete it, and   *)
(* Terraform applies plans that may be older than what it finds.           *)
(***************************************************************************)
EXTENDS Naturals, FiniteSetsExt

CONSTANTS
  Threshold,    \* budget_alert_thresholds_percent
  Notice,       \* bound of the model: thresholds the budget sees passed
  MaxRetries    \* asynchronous retries of a function, 2 in AWS

ASSUME ContainmentAssumption ==
  Threshold \subseteq Nat /\ IsFiniteSet(Threshold) /\ MaxRetries \in Nat

VARIABLES
  exclusive,    \* exclusive_inline_policies, as configured
  kill_switch,  \* kill_switch in the configuration
  manages,      \* aws_iam_role_policies_exclusive is in Terraform's state
  boundary,     \* whether the boundary policy in AWS denies everything
  inline,       \* the inline policies of the role in AWS
  plan,         \* what a planned run of Terraform still has to do
  passed,       \* what the budget saw passed, <<>> if nothing yet
  invocation,   \* per notice, the run of the function it invoked, with two things of
                \* history: it has attached the policy; its error raised killswitch_errors
  held          \* history: contained, and nobody has decided to release

config == <<exclusive, kill_switch>>
role == <<boundary, inline>>
budget == <<passed, invocation>>
containmentVars == <<config, manages, role, plan, budget, held>>

Managed == {"team_grants"}
Emergency == "ZZZ-EMERGENCY-DENY-ALL"
Contained == boundary \/ Emergency \in inline
NoPlan == [kill_switch |-> FALSE, steps |-> {}]

ContainmentInit ==
  /\ exclusive \in BOOLEAN /\ manages = exclusive /\ kill_switch = FALSE
  /\ boundary = FALSE /\ inline = Managed
  /\ plan = NoPlan
  /\ passed = [n \in Notice |-> <<>>]
  /\ invocation = [n \in Notice |-> [state |-> "none", errors |-> 0, attached |-> FALSE,
                                   paged |-> FALSE]]
  /\ held = FALSE

-----------------------------------------------------------------------------
budget_final_threshold == IF Threshold = {} THEN 100 ELSE Max(Threshold)

\* Actual cost above a threshold or the final one, or the forecast of it.
Occasion == ({"actual"} \X (Threshold \cup {budget_final_threshold})) \cup {<<"forecast">>}

\* Slip: only cost beyond the final threshold triggers the function.
Subscribed_AboveFinal(occasion) ==
  occasion \in {"actual"} \X Threshold /\ occasion[2] > budget_final_threshold

\* A threshold of the list notifies the function's own topic if it is the final
\* one; the forecast, and cost above what is not in the list, never does.
Subscribed(occasion) ==
  occasion \in {"actual"} \X Threshold /\ occasion[2] >= budget_final_threshold

\* The alerts topic may be told, and the function is invoked if its topic is.
Notify(n) ==
  /\ passed[n] = <<>>
  /\ \E occasion \in Occasion :
       /\ passed' = [passed EXCEPT ![n] = occasion]
       /\ invocation' = [invocation EXCEPT ![n].state = IF Subscribed(occasion) THEN "queued" ELSE @]
  /\ UNCHANGED <<config, manages, role, plan, held>>

AfterError(run) ==
  IF run.errors = MaxRetries THEN [run EXCEPT !.state = "dead_letter"]
                             ELSE [run EXCEPT !.errors = @ + 1]

\* The function runs: the policy is attached, or the call fails; a run may
\* also end in an error after the call took effect.  Errors page and retry.
Invoke(n) ==
  /\ invocation[n].state = "queued"
  /\ \E attached, failed \in BOOLEAN :
       /\ attached \/ failed
       /\ inline' = IF attached THEN inline \cup {Emergency} ELSE inline
       /\ held' = (held \/ attached)
       /\ LET run == [invocation[n] EXCEPT !.attached = @ \/ attached, !.paged = @ \/ failed]
          IN invocation' = [invocation EXCEPT ![n] = IF failed THEN AfterError(run)
                                                     ELSE [run EXCEPT !.state = "returned"]]
  /\ UNCHANGED <<config, manages, boundary, plan, passed>>

-----------------------------------------------------------------------------
\* Turning kill_switch off again is the decision to release.
Flip ==
  /\ kill_switch' = ~kill_switch
  /\ held' = (held /\ kill_switch')
  /\ UNCHANGED <<exclusive, manages, role, plan, budget>>

\* exclusive_inline_policies is turned on or off, maybe during an incident.
SetExclusive ==
  /\ exclusive' = ~exclusive
  /\ UNCHANGED <<kill_switch, manages, role, plan, budget, held>>

\* Codified: kill_switch = true is configured, and its apply has ended.
Codified == kill_switch /\ boundary /\ plan = NoPlan

\* The emergency policy is deleted by hand: once it is codified, or to release.
DeleteEmergency ==
  /\ Emergency \in inline
  /\ inline' = inline \ {Emergency}
  /\ held' = (held /\ Codified)
  /\ UNCHANGED <<config, manages, boundary, plan, budget>>

\* Slip: policy_names is left empty.
PolicyNames_None == {}

\* The list of inline policies that Terraform gives the role.
PolicyNames == Managed

\* A run is planned from the configuration, from Terraform's state and from
\* what is in AWS now: the list is created, brought up to date or forgotten.
Plan ==
  /\ plan = NoPlan
  /\ \E steps \in SUBSET {"boundary", "exclusive", "forget"} \ {{}} :
       /\ "boundary" \in steps <=> kill_switch # boundary
       /\ "exclusive" \in steps <=> exclusive /\ (~manages \/ inline # PolicyNames)
       /\ "forget" \in steps <=> ~exclusive /\ manages
       /\ plan' = [kill_switch |-> kill_switch, steps |-> steps]
  /\ UNCHANGED <<config, manages, role, budget, held>>

Without(step) == IF plan.steps = {step} THEN NoPlan ELSE [plan EXCEPT !.steps = @ \ {step}]

ApplyBoundary ==
  /\ "boundary" \in plan.steps
  /\ boundary' = plan.kill_switch
  /\ held' = (held \/ (plan.kill_switch /\ kill_switch))
  /\ plan' = Without("boundary")
  /\ UNCHANGED <<config, manages, inline, budget>>

\* Slip: the list of the role's policies does not wait for the boundary.
MayPrune_AnyOrder == TRUE

\* The role refers to the boundary policy, and the list of its policies to the
\* role: Terraform comes to the list when the boundary has been applied.
MayPrune == "boundary" \notin plan.steps

\* The list is created or brought up to date: every inline policy the role has
\* by then that is not in it goes, also one the plan has not seen. Removing the
\* emergency policy without kill_switch = true in both the plan and the
\* configuration is the trade-off the variable's description states.
ApplyExclusive ==
  /\ "exclusive" \in plan.steps /\ MayPrune
  /\ inline' = inline \cap PolicyNames /\ manages' = TRUE
  /\ held' = (held /\ plan.kill_switch /\ kill_switch)
  /\ plan' = Without("exclusive")
  /\ UNCHANGED <<config, boundary, budget>>

\* The resource goes out of the state; the role keeps its policies.
ApplyForget ==
  /\ "forget" \in plan.steps
  /\ manages' = FALSE
  /\ plan' = Without("forget")
  /\ UNCHANGED <<config, role, budget, held>>

\* The run fails or is discarded: what it has not done yet is not done.
Discard ==
  /\ plan # NoPlan
  /\ plan' = NoPlan
  /\ UNCHANGED <<config, manages, role, budget, held>>

ContainmentNext ==
  \/ \E n \in Notice : Notify(n) \/ Invoke(n)
  \/ Flip \/ SetExclusive \/ DeleteEmergency
  \/ Plan \/ ApplyBoundary \/ ApplyExclusive \/ ApplyForget \/ Discard

-----------------------------------------------------------------------------
ContainmentTypeOK ==
  /\ exclusive \in BOOLEAN /\ kill_switch \in BOOLEAN /\ manages \in BOOLEAN
  /\ boundary \in BOOLEAN
  /\ Managed \subseteq inline /\ inline \subseteq Managed \cup {Emergency}
  /\ plan \in [kill_switch : BOOLEAN, steps : SUBSET {"boundary", "exclusive", "forget"}]
  /\ passed \in [Notice -> Occasion \cup {<<>>}]
  /\ invocation \in [Notice -> [state : {"none", "queued", "returned", "dead_letter"},
                                errors : 0..MaxRetries, attached : BOOLEAN,
                                paged : BOOLEAN]]
  /\ held \in BOOLEAN

\* From the moment the role is contained until somebody decides to release it
\* (or accepts, with exclusive_inline_policies, that an apply does), one of the
\* two denials is in force: codifying the emergency and deleting it leaves no
\* gap, whatever plan is applied, fails halfway or was made before.
ContainedUntilReleased == held => Contained

\* A breach: actual cost above every threshold there is.
Final(occasion) ==
  /\ occasion # <<>> /\ occasion[1] = "actual"
  /\ \A t \in Threshold : occasion[2] >= t

\* "Containment must never fail silently": a breach of the final threshold
\* leads to a run of the function that contained the role, or to the alarm over
\* an error of that very run.
BreachContainsOrPages ==
  \A n \in Notice : Final(passed[n]) ~> (invocation[n].attached \/ invocation[n].paged)
=============================================================================

---------------------------- MODULE WardenProofs ----------------------------
(***************************************************************************)
(* What Warden promises, for every set of thresholds, notices and events,  *)
(* any number of retries, and a stack with one or both of its features: a  *)
(* contained role stays contained until it is released, and a digest is    *)
(* honest.                                                                 *)
(***************************************************************************)
EXTENDS Warden, TLAPS

\* A denial that is not the emergency's is the configuration's; a pending
\* change of the boundary that lifts it leaves the emergency in force; and a
\* plan that does not change the boundary found it as it wants it.
HeldInv ==
  /\ ContainedUntilReleased
  /\ held /\ Emergency \notin inline => kill_switch
  /\ held /\ "boundary" \in plan.steps /\ ~plan.kill_switch => Emergency \in inline
  /\ plan.steps # {} /\ "boundary" \notin plan.steps => boundary = plan.kill_switch

\* What a run in the middle of its pages has counted.
ScanInv ==
  scan.state \in {"querying", "scanning"} =>
    /\ scan.counted \subseteq scan.window \cap RoleEvents
    /\ scan.late \/ scan.fetched \cap RoleEvents \subseteq scan.counted

Inv == TypeOK /\ HeldInv /\ ScanInv /\ HonestDigest

-----------------------------------------------------------------------------
LEMMA InitInv == Init => Inv
<1> SUFFICES ASSUME Init PROVE Inv
  OBVIOUS
<1> USE ContainmentAssumption, DigestAssumption, StacksAssumption DEF Init
<1>1. ContainmentTypeOK
  <2>1. plan \in [kill_switch : BOOLEAN, steps : SUBSET {"boundary", "exclusive", "forget"}]
    BY DEF ContainmentInit, NoPlan
  <2>2. passed \in [Notice -> Occasion \cup {<<>>}]
    BY DEF ContainmentInit
  <2>3. invocation \in [Notice -> [state : {"none", "queued", "returned", "dead_letter"},
                                   errors : 0..MaxRetries, attached : BOOLEAN, paged : BOOLEAN]]
    BY DEF ContainmentInit
  <2> QED BY <2>1, <2>2, <2>3 DEF ContainmentInit, ContainmentTypeOK
<1>2. HeldInv
  BY DEF ContainmentInit, HeldInv, ContainedUntilReleased, NoPlan
<1>4. digest = NoDigest /\ scan = Idle /\ visible = {} /\ lake \in BOOLEAN
        /\ when \in [Event -> {"future", "last24h", "before"}]
  BY DEF DigestInit
<1>5. ScanInv
  BY <1>4 DEF ScanInv, Idle
<1>6. HonestDigest
  BY <1>4 DEF HonestDigest, NoDigest
<1>7. DigestTypeOK
  BY <1>4 DEF DigestTypeOK, NoDigest
<1> QED BY <1>1, <1>2, <1>5, <1>6, <1>7 DEF Inv, TypeOK

-----------------------------------------------------------------------------
(* Containment.                                                            *)

LEMMA ContainmentStep ==
  ASSUME ContainmentTypeOK, HeldInv, ContainmentNext
  PROVE  ContainmentTypeOK' /\ HeldInv'
<1> USE ContainmentAssumption DEF ContainmentTypeOK, config, role, budget
<1>1. ASSUME NEW n \in Notice, Notify(n)
      PROVE  ContainmentTypeOK' /\ HeldInv'
  <2>1. PICK occasion \in Occasion :
          /\ passed' = [passed EXCEPT ![n] = occasion]
          /\ invocation' = [invocation EXCEPT ![n].state = IF Subscribed(occasion) THEN "queued" ELSE @]
    BY <1>1 DEF Notify
  <2>2. passed[n] = <<>> /\ UNCHANGED <<exclusive, kill_switch, manages, boundary, inline, plan, held>>
    BY <1>1 DEF Notify
  <2>3. ContainmentTypeOK'
    BY <2>1, <2>2
  <2>4. HeldInv'
    BY <2>2 DEF HeldInv, ContainedUntilReleased, Contained
  <2> QED BY <2>3, <2>4
<1>2. ASSUME NEW n \in Notice, Invoke(n)
      PROVE  ContainmentTypeOK' /\ HeldInv'
  <2>1. PICK attached \in BOOLEAN, failed \in BOOLEAN :
          /\ attached \/ failed
          /\ inline' = IF attached THEN inline \cup {Emergency} ELSE inline
          /\ held' = (held \/ attached)
          /\ LET run == [invocation[n] EXCEPT !.attached = @ \/ attached, !.paged = @ \/ failed]
             IN invocation' = [invocation EXCEPT ![n] = IF failed THEN AfterError(run)
                                                        ELSE [run EXCEPT !.state = "returned"]]
    BY <1>2 DEF Invoke
  <2>2. /\ invocation[n].state = "queued"
        /\ UNCHANGED <<exclusive, kill_switch, manages, boundary, plan, passed>>
    BY <1>2 DEF Invoke
  <2> DEFINE run == [invocation[n] EXCEPT !.attached = @ \/ attached, !.paged = @ \/ failed]
  <2>3. invocation'[n] \in [state : {"none", "queued", "returned", "dead_letter"},
                            errors : 0..MaxRetries, attached : BOOLEAN, paged : BOOLEAN]
    <3>1. run \in [state : {"queued"}, errors : 0..MaxRetries, attached : BOOLEAN, paged : BOOLEAN]
      BY <2>2
    <3> HIDE DEF run
    <3>2. AfterError(run) \in [state : {"queued", "dead_letter"}, errors : 0..MaxRetries,
                               attached : BOOLEAN, paged : BOOLEAN]
      <4>1. CASE run.errors = MaxRetries
        BY <3>1, <4>1 DEF AfterError
      <4>2. CASE run.errors # MaxRetries
        <5>1. AfterError(run) = [run EXCEPT !.errors = @ + 1] /\ run.errors + 1 \in 0..MaxRetries
          BY <3>1, <4>2 DEF AfterError
        <5> QED BY <3>1, <5>1
      <4> QED BY <4>1, <4>2
    <3>3. invocation'[n] = IF failed THEN AfterError(run) ELSE [run EXCEPT !.state = "returned"]
      BY <2>1 DEF run
    <3> QED BY <3>1, <3>2, <3>3
  <2>4. invocation' = [invocation EXCEPT ![n] = invocation'[n]]
    BY <2>1
  <2>5. ContainmentTypeOK'
    BY <2>1, <2>2, <2>3, <2>4
  <2>6. HeldInv'
    BY <2>1, <2>2 DEF HeldInv, ContainedUntilReleased, Contained
  <2> QED BY <2>5, <2>6
<1>3. CASE Flip
  <2>1. ContainmentTypeOK'
    BY <1>3 DEF Flip
  <2>2. HeldInv'
    BY <1>3 DEF Flip, HeldInv, ContainedUntilReleased, Contained
  <2> QED BY <2>1, <2>2
<1>4. CASE DeleteEmergency
  <2>1. ContainmentTypeOK'
    BY <1>4 DEF DeleteEmergency, Managed, Emergency, Codified
  <2>2. HeldInv'
    BY <1>4 DEF DeleteEmergency, Codified, NoPlan, HeldInv, ContainedUntilReleased, Contained
  <2> QED BY <2>1, <2>2
<1>5. CASE Plan
  <2>1. PICK steps \in SUBSET {"boundary", "exclusive", "forget"} :
          /\ "boundary" \in steps <=> kill_switch # boundary
          /\ plan' = [kill_switch |-> kill_switch, steps |-> steps]
    BY <1>5 DEF Plan
  <2>2. UNCHANGED <<exclusive, kill_switch, manages, boundary, inline, passed, invocation, held>>
    BY <1>5 DEF Plan
  <2>3. ContainmentTypeOK'
    BY <2>1, <2>2
  <2>4. HeldInv'
    BY <2>1, <2>2 DEF HeldInv, ContainedUntilReleased, Contained
  <2> QED BY <2>3, <2>4
<1>6. CASE SetExclusive
  <2>1. ContainmentTypeOK'
    BY <1>6 DEF SetExclusive
  <2>2. HeldInv'
    BY <1>6 DEF SetExclusive, HeldInv, ContainedUntilReleased, Contained
  <2> QED BY <2>1, <2>2
<1>7. CASE ApplyBoundary
  <2>1. /\ "boundary" \in plan.steps /\ boundary' = plan.kill_switch
        /\ held' = (held \/ (plan.kill_switch /\ kill_switch))
        /\ UNCHANGED <<exclusive, kill_switch, manages, inline, passed, invocation>>
    BY <1>7 DEF ApplyBoundary
  <2>2. /\ plan' \in [kill_switch : BOOLEAN, steps : SUBSET {"boundary", "exclusive", "forget"}]
        /\ "boundary" \notin plan'.steps
        /\ plan'.steps # {} => plan'.kill_switch = plan.kill_switch
    BY <1>7 DEF ApplyBoundary, Without, NoPlan
  <2>3. ContainmentTypeOK'
    BY <2>1, <2>2
  <2>4. HeldInv'
    BY <2>1, <2>2 DEF HeldInv, ContainedUntilReleased, Contained
  <2> QED BY <2>3, <2>4
<1>8. CASE ApplyExclusive
  <2>1. /\ "boundary" \notin plan.steps /\ "exclusive" \in plan.steps
        /\ inline' = inline \cap Managed /\ manages' = TRUE
        /\ held' = (held /\ plan.kill_switch /\ kill_switch)
        /\ UNCHANGED <<exclusive, kill_switch, boundary, passed, invocation>>
    BY <1>8 DEF ApplyExclusive, MayPrune, PolicyNames
  <2>2. /\ plan' \in [kill_switch : BOOLEAN, steps : SUBSET {"boundary", "exclusive", "forget"}]
        /\ "boundary" \notin plan'.steps
        /\ plan'.steps # {} => plan'.kill_switch = plan.kill_switch
    BY <1>8, <2>1 DEF ApplyExclusive, Without, NoPlan
  <2>3. ContainmentTypeOK'
    BY <2>1, <2>2 DEF Managed, Emergency
  <2>4. HeldInv'
    BY <2>1, <2>2 DEF HeldInv, ContainedUntilReleased, Contained
  <2> QED BY <2>3, <2>4
<1>9. CASE ApplyForget
  <2>1. /\ "forget" \in plan.steps /\ manages' = FALSE
        /\ UNCHANGED <<exclusive, kill_switch, boundary, inline, held, passed, invocation>>
    BY <1>9 DEF ApplyForget
  <2>2. /\ plan' \in [kill_switch : BOOLEAN, steps : SUBSET {"boundary", "exclusive", "forget"}]
        /\ "boundary" \in plan'.steps => "boundary" \in plan.steps
        /\ plan'.steps # {} =>
             /\ plan'.kill_switch = plan.kill_switch
             /\ "boundary" \in plan.steps => "boundary" \in plan'.steps
    BY <1>9 DEF ApplyForget, Without, NoPlan
  <2>3. ContainmentTypeOK'
    BY <2>1, <2>2
  <2>4. HeldInv'
    BY <2>1, <2>2 DEF HeldInv, ContainedUntilReleased, Contained
  <2> QED BY <2>3, <2>4
<1>10. CASE Discard
  <2>1. ContainmentTypeOK'
    BY <1>10 DEF Discard, NoPlan
  <2>2. HeldInv'
    BY <1>10 DEF Discard, NoPlan, HeldInv, ContainedUntilReleased, Contained
  <2> QED BY <2>1, <2>2
<1> QED BY <1>1, <1>2, <1>3, <1>4, <1>5, <1>7, <1>8, <1>10, <1>6, <1>9 DEF ContainmentNext

-----------------------------------------------------------------------------
(* The digest.                                                             *)

LEMMA DigestStep ==
  ASSUME DigestTypeOK, ScanInv, HonestDigest, DigestNext
  PROVE  DigestTypeOK' /\ ScanInv' /\ HonestDigest'
<1> USE DigestAssumption DEF DigestTypeOK
<1>0. ASSUME UNCHANGED digest
      PROVE  HonestDigest'
  BY <1>0 DEF HonestDigest
<1>1. CASE \E e \in Event : Happen(e) \/ Deliver(e)
  BY <1>0, <1>1 DEF Happen, Deliver, ScanInv
<1>2. CASE Age
  BY <1>0, <1>2 DEF Age, ScanInv
<1>3. CASE Start
  <2>1. scan.errors \in 0..MaxErrors
    BY <1>3 DEF Start, Idle
  <2> QED BY <1>0, <1>3, <2>1 DEF Start, ScanInv, Window
<1>4. \/ /\ Errored \in {Idle} \cup [state : {"retry"}, errors : 1..MaxErrors]
         /\ Errored.state \notin {"querying", "scanning"}
      \/ scan.state \notin {"querying", "scanning"}
  <2>1. CASE scan.state \in {"querying", "scanning"}
    <3>1. scan.errors \in 0..MaxErrors
      BY <2>1 DEF Idle
    <3> QED BY <3>1 DEF Errored, Idle
  <2> QED BY <2>1
<1>5. CASE Fail
  BY <1>0, <1>4, <1>5 DEF Fail, ScanInv
<1>6. CASE QueryFinished
  BY <1>0, <1>6 DEF QueryFinished, ScanInv, Idle
<1>7. CASE TimePasses
  BY <1>0, <1>7 DEF TimePasses, ScanInv, Idle
<1>8. CASE Page
  <2>1. scan \in [state : {"scanning"}, errors : 0..MaxErrors, window : SUBSET Event,
                  shown : SUBSET Event, fetched : SUBSET Event, counted : SUBSET Event,
                  late : BOOLEAN]
    BY <1>8 DEF Page, Idle
  <2>2. PICK page \in SUBSET ((scan.window \cap visible) \ scan.fetched), last \in BOOLEAN :
          LET next == [scan EXCEPT !.fetched = @ \cup page,
                                   !.counted = IF scan.late THEN @ ELSE @ \cup Counted(page)]
          IN /\ last => scan.shown \subseteq next.fetched
             /\ IF scan.late \/ last
                  THEN /\ digest' = [events |-> next.counted, truncated |-> scan.late,
                                     owed |-> scan.shown \cap RoleEvents, window |-> scan.window]
                       /\ scan' \in {Idle, Errored}
                  ELSE scan' = next /\ UNCHANGED digest
    BY <1>8 DEF Page
  <2> DEFINE next == [scan EXCEPT !.fetched = @ \cup page,
                                  !.counted = IF scan.late THEN @ ELSE @ \cup Counted(page)]
  <2>3. /\ next \in [state : {"scanning"}, errors : 0..MaxErrors, window : SUBSET Event,
                     shown : SUBSET Event, fetched : SUBSET Event, counted : SUBSET Event,
                     late : BOOLEAN]
        /\ next.counted \subseteq scan.window \cap RoleEvents
        /\ scan.late \/ next.fetched \cap RoleEvents \subseteq next.counted
        /\ next.window = scan.window /\ next.late = scan.late
    BY <2>1 DEF ScanInv, Counted
  <2> HIDE DEF next
  <2>4. UNCHANGED <<lake, when, visible>>
    BY <1>8 DEF Page
  <2>5. CASE scan.late \/ last
    <3>1. digest' = [events |-> next.counted, truncated |-> scan.late,
                     owed |-> scan.shown \cap RoleEvents, window |-> scan.window]
      BY <2>2, <2>5 DEF next
    <3>2. scan' \in {Idle, Errored}
      BY <2>2, <2>5
    <3>3. last => scan.shown \subseteq next.fetched
      BY <2>2 DEF next
    <3>4. HonestDigest'
      BY <2>1, <2>3, <2>5, <3>1, <3>3 DEF HonestDigest
    <3>5. DigestTypeOK' /\ ScanInv'
      BY <1>4, <2>1, <2>3, <2>4, <3>1, <3>2 DEF ScanInv, Idle
    <3> QED BY <3>4, <3>5
  <2>6. CASE ~(scan.late \/ last)
    <3>1. scan' = next /\ UNCHANGED digest
      BY <2>2, <2>6 DEF next
    <3> QED BY <1>0, <2>3, <2>4, <3>1 DEF ScanInv
  <2> QED BY <2>5, <2>6
<1> QED BY <1>1, <1>2, <1>3, <1>5, <1>6, <1>7, <1>8 DEF DigestNext

-----------------------------------------------------------------------------
LEMMA NextInv == Inv /\ [Next]_vars => Inv'
<1> SUFFICES ASSUME Inv, [Next]_vars PROVE Inv'
  OBVIOUS
<1> USE DEF Inv, TypeOK
<1>1. ASSUME UNCHANGED containmentVars
      PROVE  ContainmentTypeOK' /\ HeldInv'
  BY <1>1 DEF containmentVars, config, role, budget, ContainmentTypeOK, HeldInv,
     ContainedUntilReleased, Contained
<1>2. ASSUME UNCHANGED digestVars
      PROVE  DigestTypeOK' /\ ScanInv' /\ HonestDigest'
  BY <1>2 DEF digestVars, DigestTypeOK, ScanInv, HonestDigest
<1>3. CASE "budget_killswitch" \in enabled /\ ContainmentNext /\ UNCHANGED <<enabled, digestVars>>
  BY <1>2, <1>3, ContainmentStep
<1>4. CASE "daily_digest" \in enabled /\ DigestNext /\ UNCHANGED <<enabled, containmentVars>>
  BY <1>1, <1>4, DigestStep
<1>5. CASE UNCHANGED vars
  BY <1>1, <1>2, <1>5 DEF vars
<1> QED BY <1>3, <1>4, <1>5 DEF Next

\* Plans, policies and invocations fit together in every state of a stack, and
\* so do what a digest has read and what it has counted.
THEOREM Invariance == Spec => []Inv
BY InitInv, NextInv, PTL DEF Spec

\* Every reachable state of a stack is well-typed.
THEOREM TypeCorrect == Spec => []TypeOK
<1>1. Inv => TypeOK
  BY DEF Inv
<1> QED BY <1>1, Invariance, PTL

\* Codifying an emergency and deleting its policy leaves no gap, whatever plan
\* Terraform applies, and however many notices and errors there are.
THEOREM StaysContained == Spec => []ContainedUntilReleased
<1>1. Inv => ContainedUntilReleased
  BY DEF Inv, HeldInv
<1> QED BY <1>1, Invariance, PTL

\* A digest without the warning has every event of the role that CloudTrail
\* showed when its run began, and none that is not the role's.
THEOREM DigestIsHonest == Spec => []HonestDigest
<1>1. Inv => HonestDigest
  BY DEF Inv
<1> QED BY <1>1, Invariance, PTL
=============================================================================

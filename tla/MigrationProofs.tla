-------------------------- MODULE MigrationProofs --------------------------
(***************************************************************************)
(* Theorems about Migration, for every set of requests whose lists have    *)
(* different names, any number of runs, signals and statements.            *)
(*                                                                         *)
(* Each run is a run of Runner, so its steps keep Outcomes; what is to be  *)
(* shown is that Resume establishes it again beside the clients of earlier *)
(* runs, and that the StartAt of the log cuts the plan where MigrationInv  *)
(* says. The first rests on Inv and Outcomes speaking of the run's own     *)
(* clients (Mine), the second on Report: a hint names the step of the last *)
(* verdict.                                                                *)
(***************************************************************************)
EXTENDS Migration, RunnerOutcomes

Whole == Outcomes /\ MigrationInv

\* A step of the migration is one of the run, or starts the next.
LEMMA StepOrResume ==
  ASSUME [MigrationNext]_migrationVars
  PROVE  \/ [Next]_vars /\ plan' = plan /\ past' = past
         \/ Resume
  BY DEF MigrationNext, RunnerStep, migrationVars

\* The types of both lists, and how they lie.
LEMMA Lists ==
  ASSUME Inv, RestOfPlan
  PROVE  /\ Len(plan) \in Nat /\ DOMAIN plan = 1 .. Len(plan)
         /\ Len(steps) \in Nat \ {0} /\ DOMAIN steps = 1 .. Len(steps)
         /\ steps \in Seq(Step) /\ plan \in Seq(Step)
         /\ Base \in Nat /\ Len(plan) = Base + Len(steps)
<1>1. /\ Len(steps) \in Nat \ {0} /\ DOMAIN steps = 1 .. Len(steps)
      /\ steps \in Seq(Step)
  BY RequestType DEF Inv
<1>2. plan \in Seq(Step) /\ Len(plan) \in Nat /\ DOMAIN plan = 1 .. Len(plan)
  BY LenProperties DEF RestOfPlan
<1>3. Base \in Nat /\ Base = Len(plan) - Len(steps)
  BY DEF RestOfPlan, Base
<1>4. QED
  BY <1>1, <1>2, <1>3

\* The name of a step of the run says where it is in the plan.
LEMMA PlaceOfName ==
  ASSUME Inv, RestOfPlan, NEW i \in DOMAIN steps, NEW j \in DOMAIN plan,
         plan[j].name = steps[i].name
  PROVE  j = Base + i
  BY DEF RestOfPlan, NamesDiffer

-----------------------------------------------------------------------------
(* Resume: where the next run starts. *)

\* A list from its m-th step on.
LEMMA Cut ==
  ASSUME NEW list \in Seq(Step), NEW m \in 1 .. Len(list)
  PROVE  LET rest == SubSeq(list, m, Len(list)) IN
           /\ rest \in Seq(Step) \ {<<>>}
           /\ Len(rest) = Len(list) - m + 1
           /\ DOMAIN rest = 1 .. Len(rest)
           /\ \A i \in DOMAIN rest : rest[i] = list[m - 1 + i]
<1> DEFINE rest == SubSeq(list, m, Len(list))
<1>1. Len(list) \in Nat /\ DOMAIN list = 1 .. Len(list)
  BY LenProperties
<1>2. \A i \in m .. Len(list) : list[i] \in Step
  BY <1>1, ElementOfSeq
<1>3. m \in Int /\ Len(list) \in Int /\ m <= Len(list)
  BY <1>1
<1>4. /\ rest \in Seq(Step)
      /\ Len(rest) = Len(list) - m + 1
      /\ \A i \in 1 .. Len(list) - m + 1 : rest[i] = list[m + i - 1]
  BY <1>2, <1>3, SubSeqProperties
<1> HIDE DEF rest
<1>5. DOMAIN rest = 1 .. Len(rest) /\ Len(rest) > 0
  BY <1>3, <1>4, LenProperties
<1>6. rest # <<>>
  BY <1>5, EmptySeq
<1>7. \A i \in 1 .. Len(rest) : rest[i] = list[m - 1 + i]
  <2> SUFFICES ASSUME NEW i \in 1 .. Len(rest)
               PROVE  rest[i] = list[m - 1 + i]
    OBVIOUS
  <2>1. m + i - 1 = m - 1 + i /\ i \in 1 .. Len(list) - m + 1
    BY <1>3, <1>4
  <2>2. QED
    BY <1>4, <2>1
<1>8. QED
  BY <1>4, <1>5, <1>6, <1>7 DEF rest

\* The next list starts at the step that stopped the last.
LEMMA ResumePoint ==
  ASSUME Whole, Resume
  PROVE  \E h \in DOMAIN steps :
           /\ Frontier(h)
           /\ request' = [request EXCEPT !.steps = SubSeq(plan, Base + h, Len(plan))]
<1>1. PICK h \in DOMAIN steps : Frontier(h)
  BY DEF Resume, Whole, Outcomes, Report
<1>2. PICK i \in DOMAIN plan :
        /\ plan[i].name = hint
        /\ request' = [request EXCEPT !.steps = SubSeq(plan, i, Len(plan))]
  BY DEF Resume, ResumeFrom
<1>3. i = Base + h
  BY <1>1, <1>2, PlaceOfName DEF Frontier, Whole, MigrationInv
<1>4. QED
  BY <1>1, <1>2, <1>3

LEMMA ResumedList ==
  ASSUME Whole, Resume, NEW h \in DOMAIN steps,
         request' = [request EXCEPT !.steps = SubSeq(plan, Base + h, Len(plan))]
  PROVE  /\ request' \in Request /\ request'.dry_run = request.dry_run
         /\ Len(steps') = Len(plan) - Base - h + 1
         /\ DOMAIN steps' = 1 .. Len(steps')
         /\ Base' = Base + h - 1
         /\ \A i \in DOMAIN steps' : steps'[i] = plan[Base + h - 1 + i]
<1> DEFINE m    == Base + h
           rest == SubSeq(plan, m, Len(plan))
<1>1. /\ Len(plan) \in Nat /\ DOMAIN plan = 1 .. Len(plan)
      /\ Len(steps) \in Nat \ {0} /\ DOMAIN steps = 1 .. Len(steps)
      /\ plan \in Seq(Step)
      /\ Base \in Nat /\ Len(plan) = Base + Len(steps)
  BY Lists DEF Whole, MigrationInv
<1>2. m \in 1 .. Len(plan)
  BY <1>1
<1>3. /\ rest \in Seq(Step) \ {<<>>}
      /\ Len(rest) = Len(plan) - m + 1
      /\ DOMAIN rest = 1 .. Len(rest)
      /\ \A i \in DOMAIN rest : rest[i] = plan[m - 1 + i]
  BY <1>1, <1>2, Cut
<1>4. request \in Request
  BY DEF Whole, Outcomes, Inv, TypeOK
<1>5. request' \in Request /\ request'.steps = rest /\ request'.dry_run = request.dry_run
  BY <1>3, <1>4 DEF Request
<1>6. plan' = plan
  BY DEF Resume
<1>7. steps' = rest
  BY <1>5 DEF steps
<1>8. Base' = Len(plan) - Len(rest)
  BY <1>6, <1>7 DEF Base
<1> HIDE DEF rest
<1>9. h \in Int /\ Base \in Int /\ Len(plan) \in Int
  BY <1>1
<1>10. Len(rest) = Len(plan) - Base - h + 1
  BY <1>3, <1>9
<1>11. Base' = Base + h - 1
  BY <1>8, <1>9, <1>10
<1>12. \A i \in DOMAIN rest : rest[i] = plan[Base + h - 1 + i]
  <2> SUFFICES ASSUME NEW i \in DOMAIN rest
               PROVE  rest[i] = plan[Base + h - 1 + i]
    OBVIOUS
  <2>1. i \in Int
    BY <1>3, <1>9, <1>10
  <2>2. m - 1 + i = Base + h - 1 + i
    BY <1>9, <2>1
  <2>3. QED
    BY <1>3, <2>2
<1>13. QED
  BY <1>3, <1>5, <1>7, <1>10, <1>11, <1>12

\* No client belongs to the run that starts.
LEMMA FreshRun ==
  ASSUME Inv, Resume
  PROVE  Mine' = {} /\ attempts' = attempts /\ run' = run + 1
<1>1. attempts' = attempts /\ run' = run + 1
  BY DEF Resume
<1>2. attempts \in Seq(Attempt) /\ run \in Nat
  BY DEF Inv, TypeOK
<1>3. ASSUME NEW k \in DOMAIN attempts
      PROVE  attempts[k].run # run + 1
  <2>1. attempts[k] \in Attempt
    BY <1>2, ElementOfSeq
  <2>2. attempts[k].run \in Nat
    BY <2>1 DEF Attempt
  <2>3. attempts[k].run <= run
    BY DEF Inv, Clients
  <2>4. QED
    BY <1>2, <2>2, <2>3
<1>4. QED
  BY <1>1, <1>3 DEF Mine

LEMMA ResumeOutcomes ==
  ASSUME Whole, Resume
  PROVE  Outcomes'
<1>1. PICK h \in DOMAIN steps :
        /\ Frontier(h)
        /\ request' = [request EXCEPT !.steps = SubSeq(plan, Base + h, Len(plan))]
  BY ResumePoint
<1>2. request' \in Request /\ request'.dry_run = request.dry_run
  BY <1>1, ResumedList
<1>3. Mine' = {} /\ attempts' = attempts /\ run' = run + 1
  BY FreshRun DEF Whole, Outcomes
<1>4. /\ pc' = "build" /\ idx' = 1 /\ outcome' = EXIT_OK /\ results' = <<>>
      /\ firstFailure' = EXIT_OK /\ hint' = NoName /\ creds' = {}
      /\ fetched' = NoSha /\ current' = 0 /\ handler' = "none" /\ signals' = 0
      /\ exitCode' = NoCode /\ store' = store
  BY DEF Resume
<1>5. TypeOK'
  BY <1>2, <1>3, <1>4, EmptySeq
  DEF TypeOK, Whole, Outcomes, Inv, ExitCode, EXIT_OK, EXIT_TIMEOUT
<1>6. Control' /\ Order'
  BY <1>3, <1>4, EmptySeq DEF Control, InStep, Order
<1>7. Clients'
  <2>1. \A k \in DOMAIN attempts : attempts[k].run <= run + 1
    <3>1. attempts \in Seq(Attempt) /\ run \in Nat
      BY DEF Whole, Outcomes, Inv, TypeOK
    <3>2. \A k \in DOMAIN attempts : attempts[k] \in Attempt
      BY <3>1, ElementOfSeq
    <3>3. \A k \in DOMAIN attempts : attempts[k].run \in Nat /\ attempts[k].run <= run
      BY <3>2 DEF Attempt, Whole, Outcomes, Inv, Clients
    <3>4. QED
      BY <3>1, <3>3
  <2>2. QED
    BY <1>3, <1>4, <2>1 DEF Clients
<1>8. Inv'
  BY <1>5, <1>6, <1>7 DEF Inv
<1>9. Signalled' /\ Checked'
  BY <1>4 DEF Signalled, Checked
<1>10. Origin'
  <2>1. \A k \in DOMAIN attempts : Sound(attempts[k])
    BY DEF Whole, Outcomes, Origin
  <2>2. QED
    BY <1>2, <1>3, <2>1 DEF Origin, Sound
<1>11. Verdicts'
  BY <1>4, EmptySeq DEF Verdicts
<1>12. Report'
  <2>1. Len(steps') \in Nat
    BY <1>1, ResumedList, Lists DEF Whole, Outcomes, MigrationInv
  <2>2. Len(<<>>) <= Len(steps')
    BY <2>1, EmptySeq
  <2>3. QED
    BY <1>4, <2>2, EmptySeq
    DEF Report, FirstFailureIsFirst, StatusFits, NoMoreThanSteps
<1>13. QED
  BY <1>8, <1>9, <1>10, <1>11, <1>12 DEF Outcomes

-----------------------------------------------------------------------------
(* Resume: MigrationInv. *)

\* A verdict of 0 of this run stands for a client that carried the step through.
LEMMA CarriedNow ==
  ASSUME Whole, NEW i \in DOMAIN steps, i \in DOMAIN results, results[i] = EXIT_OK
  PROVE  \E k \in Mine : attempts[k].step = i /\ Carried(k, Base + i)
<1>1. ~ request.dry_run
  BY DEF Whole, MigrationInv, RestOfPlan
<1>2. PICK k \in Mine : attempts[k].step = i /\ attempts[k].leader = "ok"
  BY <1>1 DEF Whole, Outcomes, Verdicts, Executed, CarriedOut
<1>3. attempts[k].name = steps[i].name
  BY <1>2 DEF Whole, Outcomes, Origin, Suits
<1>4. steps[i] = plan[Base + i]
  BY DEF Whole, MigrationInv, RestOfPlan
<1>5. QED
  BY <1>2, <1>3, <1>4 DEF Carried

\* The verdicts of the run that ends are kept with those before it.
LEMMA FiledAfterResume ==
  ASSUME Whole, Resume
  PROVE  /\ past' \in Seq([steps : Seq(Step), results : Seq(ExitCode)])
         /\ \A j, code : FiledBefore(j, code)' <=> Filed(j, code)
<1> DEFINE T == [steps : Seq(Step), results : Seq(ExitCode)]
           e == [steps |-> steps, results |-> results]
           n == Len(past)
<1>1. plan' = plan /\ past' = Append(past, e)
  BY DEF Resume
<1>2. steps \in Seq(Step) /\ results \in Seq(ExitCode)
  BY Lists DEF Whole, Outcomes, MigrationInv, Inv, TypeOK
<1>3. past \in Seq(T) /\ e \in T
  BY <1>2 DEF Whole, MigrationInv, PastReachesTheRest
<1> HIDE DEF T
<1>4. /\ past' \in Seq(T) /\ n \in Nat
      /\ DOMAIN past = 1 .. n /\ DOMAIN past' = 1 .. n + 1
      /\ past'[n + 1] = e /\ \A r \in 1 .. n : past'[r] = past[r]
  BY <1>1, <1>3, AppendProperties, LenProperties
<1>5. ASSUME NEW j, NEW code
      PROVE  FiledBefore(j, code)' <=> Filed(j, code)
  <2> DEFINE In(x) == \E m \in DOMAIN x.results :
                        x.steps[m] = plan[j] /\ x.results[m] = code
  <2>1. FiledBefore(j, code)' <=> \E r \in 1 .. n + 1 : In(past'[r])
    BY <1>1, <1>4 DEF FiledBefore
  <2>2. FiledBefore(j, code) <=> \E r \in 1 .. n : In(past[r])
    BY <1>4 DEF FiledBefore
  <2>3. FiledNow(j, code) <=> In(e)
    BY DEF FiledNow
  <2> HIDE DEF In, e
  <2>4. (\E r \in 1 .. n + 1 : In(past'[r])) <=> (\E r \in 1 .. n : In(past[r])) \/ In(e)
    BY <1>4
  <2>5. QED
    BY <2>1, <2>2, <2>3, <2>4 DEF Filed
<1>6. QED
  BY <1>4, <1>5 DEF T

LEMMA ResumeInv ==
  ASSUME Whole, Resume
  PROVE  MigrationInv'
<1> USE DEF Whole
<1>1. PICK h \in DOMAIN steps :
        /\ Frontier(h)
        /\ request' = [request EXCEPT !.steps = SubSeq(plan, Base + h, Len(plan))]
  BY ResumePoint
<1>2. /\ Len(plan) \in Nat /\ DOMAIN plan = 1 .. Len(plan)
      /\ Len(steps) \in Nat \ {0} /\ DOMAIN steps = 1 .. Len(steps)
      /\ Base \in Nat /\ Len(plan) = Base + Len(steps)
  BY Lists DEF Outcomes, MigrationInv
<1>3. /\ request'.dry_run = request.dry_run
      /\ Len(steps') = Len(plan) - Base - h + 1
      /\ DOMAIN steps' = 1 .. Len(steps')
      /\ Base' = Base + h - 1
      /\ \A i \in DOMAIN steps' : steps'[i] = plan[Base + h - 1 + i]
  BY <1>1, ResumedList
<1>4. plan' = plan /\ attempts' = attempts /\ Mine' = {}
  BY FreshRun DEF Resume, Outcomes
<1>5. /\ h \in Nat /\ h >= 1 /\ h <= Len(steps)
      /\ h = Len(results) /\ DOMAIN results = 1 .. h
      /\ \A i \in DOMAIN results : results[i] \in ExitCode
  <2>1. results \in Seq(ExitCode) /\ h = Len(results)
    BY <1>1 DEF Frontier, Outcomes, Inv, TypeOK
  <2>2. DOMAIN results = 1 .. h /\ \A i \in DOMAIN results : results[i] \in ExitCode
    BY <2>1, LenProperties, ElementOfSeq
  <2>3. QED
    BY <1>2, <2>1, <2>2
<1>6. RestOfPlan'
  <2>1. Base' \in Nat
    BY <1>2, <1>3, <1>5
  <2>2. ASSUME NEW i \in 1 .. Len(plan) - Base - h + 1
        PROVE  Base + h - 1 + i \in 1 .. Len(plan)
    BY <1>2, <1>5, <2>2
  <2>3. \A i \in DOMAIN steps' : Base' + i \in DOMAIN plan' /\ steps'[i] = plan'[Base' + i]
    BY <1>2, <1>3, <1>4, <2>2
  <2>4. QED
    BY <1>3, <1>4, <2>1, <2>3 DEF RestOfPlan, MigrationInv, NamesDiffer
<1>7. ASSUME NEW j \in 1 .. Base', ~ (j \in 1 .. Base)
      PROVE  /\ j - Base \in 1 .. h - 1
             /\ j - Base \in DOMAIN steps /\ j - Base \in DOMAIN results
             /\ steps[j - Base] = plan[j] /\ Base + (j - Base) = j
             /\ \/ results[j - Base] = EXIT_OK
                \/ plan[j].on_error = "continue"
  <2>1. j - Base \in 1 .. h - 1 /\ Base + (j - Base) = j
    BY <1>2, <1>3, <1>5, <1>7
  <2>2. j - Base \in DOMAIN steps /\ j - Base \in DOMAIN results
    BY <1>2, <1>5, <2>1
  <2>3. steps[j - Base] = plan[j]
    BY <2>1, <2>2 DEF MigrationInv, RestOfPlan
  <2>4. QED
    BY <1>1, <2>1, <2>2, <2>3 DEF Frontier
<1>8. PastReachesTheRest'
  <2>1. /\ past' \in Seq([steps : Seq(Step), results : Seq(ExitCode)])
        /\ \A j, code : FiledBefore(j, code)' <=> Filed(j, code)
    BY FiledAfterResume
  <2>2. ASSUME NEW j \in 1 .. Base'
        PROVE  \E code \in ExitCode :
                 Filed(j, code) /\ (code = EXIT_OK \/ plan[j].on_error = "continue")
    <3>1. CASE j \in 1 .. Base
      BY <3>1 DEF MigrationInv, PastReachesTheRest, Filed
    <3>2. CASE ~ (j \in 1 .. Base)
      <4>1. FiledNow(j, results[j - Base])
        BY <1>7, <3>2 DEF FiledNow
      <4>2. QED
        BY <1>5, <1>7, <3>2, <4>1 DEF Filed
    <3>3. QED
      BY <3>1, <3>2
  <2>3. ASSUME NEW j \in DOMAIN plan, Filed(j, EXIT_OK)
        PROVE  j <= Base'
    <3>1. CASE FiledBefore(j, EXIT_OK)
      <4>1. j <= Base
        BY <3>1 DEF MigrationInv, PastReachesTheRest
      <4>2. QED
        BY <1>2, <1>3, <1>5, <4>1
    <3>2. CASE FiledNow(j, EXIT_OK)
      <4>1. PICK n \in DOMAIN results : steps[n] = plan[j] /\ results[n] = EXIT_OK
        BY <3>2 DEF FiledNow
      <4>2. n # h
        BY <1>1, <4>1 DEF Frontier
      <4>3. n \in DOMAIN steps /\ n \in 1 .. h - 1
        BY <1>2, <1>5, <4>2
      <4>4. j = Base + n
        BY <4>1, <4>3, PlaceOfName DEF Outcomes, MigrationInv
      <4>5. QED
        BY <1>2, <1>3, <1>5, <4>3, <4>4
    <3>3. QED
      BY <2>3, <3>1, <3>2 DEF Filed
  <2>4. QED
    BY <1>4, <2>1, <2>2, <2>3 DEF PastReachesTheRest
<1>9. Foundations'
  <2>1. ASSUME NEW j \in 1 .. Base'
        PROVE  \/ plan[j].on_error = "continue"
               \/ \E l \in DOMAIN attempts : Carried(l, j)
    <3>1. CASE j \in 1 .. Base
      BY <3>1 DEF MigrationInv, Foundations
    <3>2. CASE ~ (j \in 1 .. Base)
      <4>1. CASE results[j - Base] = EXIT_OK
        BY <1>7, <3>2, <4>1, CarriedNow DEF Mine
      <4>2. QED
        BY <1>7, <3>2, <4>1
    <3>3. QED
      BY <3>1, <3>2
  <2>2. \A l, j : Carried(l, j)' <=> Carried(l, j)
    BY <1>4 DEF Carried
  <2>3. QED
    BY <1>4, <2>1, <2>2 DEF MigrationInv, Foundations
<1>10. EarlierClientsEnded'
  <2>1. \A k \in DOMAIN attempts : ~ Running(k)
    BY <1>1 DEF Frontier, MigrationInv, EarlierClientsEnded
  <2>2. QED
    BY <1>4, <2>1 DEF EarlierClientsEnded, Running
<1>11. QED
  BY <1>6, <1>8, <1>9, <1>10, ResumeOutcomes DEF Outcomes, MigrationInv

-----------------------------------------------------------------------------
(* The steps of a run. *)

LEMMA SpawnFoundations ==
  ASSUME Whole, Spawn, plan' = plan, Base' = Base
  PROVE  Foundations'
<1> DEFINE n == Len(attempts)
<1> USE DEF Whole
<1>1. /\ n \in Nat
      /\ DOMAIN attempts = 1 .. n /\ DOMAIN attempts' = 1 .. n + 1
      /\ attempts'[n + 1] = NewAttempt
      /\ \A k \in 1 .. n : attempts'[k] = attempts[k]
      /\ Mine' = Mine \cup {n + 1}
  BY SpawnAdds DEF Outcomes
<1>2. /\ idx \in DOMAIN steps /\ Len(results) = idx - 1 /\ idx \in Nat \ {0}
      /\ DOMAIN results = 1 .. idx - 1
  BY LenProperties DEF Spawn, At, Outcomes, Inv, TypeOK, Control, InStep
<1>3. /\ Len(plan) \in Nat /\ DOMAIN plan = 1 .. Len(plan)
      /\ Len(steps) \in Nat \ {0} /\ DOMAIN steps = 1 .. Len(steps)
      /\ Base \in Nat /\ Len(plan) = Base + Len(steps)
  BY Lists DEF Outcomes, MigrationInv
<1>4. \A l \in 1 .. n, j \in DOMAIN plan : Carried(l, j)' <=> Carried(l, j)
  BY <1>1 DEF Carried
<1>5. Mine \subseteq 1 .. n /\ DOMAIN attempts' \ Mine' = DOMAIN attempts \ Mine
  BY <1>1 DEF Mine
<1>6. ASSUME NEW j \in 1 .. Base
      PROVE  \/ plan[j].on_error = "continue"
             \/ \E l \in DOMAIN attempts \ Mine : Carried(l, j)
  BY DEF MigrationInv, Foundations
<1>7. ASSUME NEW i \in DOMAIN plan, NEW j \in DOMAIN plan, i < j,
             plan[j].name = NewAttempt.name
      PROVE  \/ plan[i].on_error = "continue"
             \/ \E l \in 1 .. n : Carried(l, i)
  <2>1. NewAttempt.name = steps[idx].name
    BY DEF NewAttempt, Cur
  <2>2. j = Base + idx
    BY <1>2, <1>7, <2>1, PlaceOfName DEF Outcomes, MigrationInv
  <2>3. CASE i \in 1 .. Base
    BY <1>1, <1>6, <2>3
  <2>4. CASE ~ (i \in 1 .. Base)
    <3>1. /\ i - Base \in 1 .. idx - 1 /\ i - Base \in DOMAIN steps
          /\ i - Base \in DOMAIN results /\ Base + (i - Base) = i
      BY <1>2, <1>3, <1>7, <2>2, <2>4
    <3>2. steps[i - Base] = plan[i]
      BY <3>1 DEF MigrationInv, RestOfPlan
    <3>3. results[i - Base] = EXIT_OK \/ plan[i].on_error = "continue"
      BY <3>1, <3>2 DEF Outcomes, Inv, Order
    <3>4. CASE results[i - Base] = EXIT_OK
      BY <1>5, <3>1, <3>4, CarriedNow
    <3>5. QED
      BY <3>3, <3>4
  <2>5. QED
    BY <2>3, <2>4
<1>8. \A j \in 1 .. Base : j \in DOMAIN plan
  BY <1>3
<1>9. ASSUME NEW j \in 1 .. Base
      PROVE  \/ plan[j].on_error = "continue"
             \/ \E l \in DOMAIN attempts' \ Mine' : Carried(l, j)'
  BY <1>1, <1>4, <1>5, <1>6, <1>8
<1>10. ASSUME NEW k \in 1 .. n + 1, NEW i \in DOMAIN plan, NEW j \in DOMAIN plan,
              i < j, plan[j].name = attempts'[k].name
       PROVE  \/ plan[i].on_error = "continue"
              \/ \E l \in 1 .. n + 1 : l < k /\ Carried(l, i)'
  <2>1. CASE k \in 1 .. n
    <3>1. \/ plan[i].on_error = "continue"
          \/ \E l \in 1 .. n : l < k /\ Carried(l, i)
      BY <1>1, <1>10, <2>1 DEF MigrationInv, Foundations
    <3>2. QED
      BY <1>1, <1>4, <3>1
  <2>2. CASE k = n + 1
    <3>1. \/ plan[i].on_error = "continue"
          \/ \E l \in 1 .. n : Carried(l, i)
      BY <1>1, <1>7, <1>10, <2>2
    <3>2. QED
      BY <1>1, <1>4, <2>2, <3>1
  <2>3. QED
    BY <1>1, <2>1, <2>2
<1>11. QED
  BY <1>1, <1>9, <1>10 DEF Foundations

LEMMA RunnerStepInv ==
  ASSUME Whole, [Next]_vars, plan' = plan, past' = past
  PROVE  MigrationInv'
<1> USE DEF Whole
<1>1. request' = request /\ run' = run /\ steps' = steps
  BY SameRequest
<1>2. Base' = Base
  BY <1>1 DEF Base
<1>3. Inv'
  BY NextInv DEF Outcomes
<1>4. RestOfPlan'
  BY <1>1, <1>2 DEF MigrationInv, RestOfPlan, NamesDiffer
<1>5. PastReachesTheRest'
  <2>1. \A j, code : FiledBefore(j, code)' <=> FiledBefore(j, code)
    BY DEF FiledBefore
  <2>2. QED
    BY <1>2, <2>1 DEF MigrationInv, PastReachesTheRest
<1>6. CASE Spawn
  <2>1. Foundations'
    BY <1>2, <1>6, SpawnFoundations
  <2>2. EarlierClientsEnded'
    <3>1. \A k \in DOMAIN attempts' \ Mine' :
            k \in DOMAIN attempts \ Mine /\ attempts'[k] = attempts[k]
      BY <1>6, SpawnAdds DEF Outcomes
    <3>2. QED
      BY <3>1 DEF MigrationInv, EarlierClientsEnded, Running
  <2>3. QED
    BY <1>3, <1>4, <1>5, <2>1, <2>2 DEF MigrationInv
<1>7. CASE ~ Spawn
  <2>1. ClientsKept /\ Mine' = Mine
    BY <1>1, <1>7, Kept, SameMine DEF Outcomes
  <2>2. \A l \in DOMAIN attempts : \A j : Carried(l, j) => Carried(l, j)'
    BY <2>1 DEF ClientsKept, Keeps, Carried
  <2>3. Foundations'
    <3>1. ASSUME NEW j \in 1 .. Base
          PROVE  \/ plan[j].on_error = "continue"
                 \/ \E l \in DOMAIN attempts \ Mine : Carried(l, j)'
      BY <2>2 DEF MigrationInv, Foundations
    <3>2. ASSUME NEW k \in DOMAIN attempts, NEW i \in DOMAIN plan,
                 NEW j \in DOMAIN plan, i < j, plan[j].name = attempts'[k].name
          PROVE  \/ plan[i].on_error = "continue"
                 \/ \E l \in DOMAIN attempts : l < k /\ Carried(l, i)'
      <4>1. attempts'[k].name = attempts[k].name
        BY <2>1 DEF ClientsKept, Keeps
      <4>2. QED
        BY <2>2, <3>2, <4>1 DEF MigrationInv, Foundations
    <3>3. DOMAIN attempts' = DOMAIN attempts
      BY <2>1 DEF ClientsKept
    <3>4. QED
      BY <1>2, <2>1, <3>1, <3>2, <3>3 DEF Foundations
  <2>4. EarlierClientsEnded'
    BY <2>1 DEF ClientsKept, Keeps, MigrationInv, EarlierClientsEnded, Running
  <2>5. QED
    BY <1>3, <1>4, <1>5, <2>3, <2>4 DEF MigrationInv
<1>8. QED
  BY <1>6, <1>7

LEMMA InitWhole == MigrationInit => Whole
<1> SUFFICES ASSUME MigrationInit PROVE Whole
  OBVIOUS
<1>1. Outcomes
  BY InitOutcomes DEF MigrationInit
<1>2. Inv
  BY <1>1 DEF Outcomes
<1>3. /\ steps \in Seq(Step) /\ Len(steps) \in Nat
      /\ plan = steps /\ past = <<>> /\ attempts = <<>>
  BY <1>2, RequestType DEF MigrationInit, Init, Inv, steps
<1>4. Base = 0
  BY <1>3 DEF Base
<1>5. RestOfPlan
  <2>1. request \in Requests /\ ~ request.dry_run
    BY DEF MigrationInit, Init, InitMain
  <2>2. NamesDiffer(plan)
    BY <1>3, <2>1, MigrationAssumption DEF steps
  <2>3. DOMAIN steps = 1 .. Len(steps)
    BY <1>3, LenProperties
  <2>4. QED
    BY <1>3, <1>4, <2>1, <2>2, <2>3 DEF RestOfPlan
<1>6. PastReachesTheRest
  BY <1>3, <1>4, EmptySeq DEF PastReachesTheRest, FiledBefore
<1>7. Foundations /\ EarlierClientsEnded
  BY <1>3, <1>4, EmptySeq DEF Foundations, EarlierClientsEnded
<1>8. QED
  BY <1>1, <1>2, <1>5, <1>6, <1>7 DEF Whole, MigrationInv

LEMMA NextWhole == Whole /\ [MigrationNext]_migrationVars => Whole'
<1> SUFFICES ASSUME Whole, [MigrationNext]_migrationVars PROVE Whole'
  OBVIOUS
<1>1. CASE [Next]_vars /\ plan' = plan /\ past' = past
  BY <1>1, NextOutcomes, RunnerStepInv DEF Whole
<1>2. CASE Resume
  BY <1>2, ResumeOutcomes, ResumeInv DEF Whole
<1>3. QED
  BY <1>1, <1>2, StepOrResume

\* In every run of a migration the log of the run fits what its clients did.
THEOREM MigrationInvariance == MigrationSpec => []Whole
<1>1. Whole /\ [MigrationNext]_migrationVars => Whole'
  BY NextWhole
<1>2. QED
  BY <1>1, InitWhole, PTL DEF MigrationSpec

\* A run that resumes works on the rest of the plan the log names: the runs
\* before it have carried through all that lies before, and reported nothing of
\* the rest ok. (ResumeAt, apply_start_at)
THEOREM ResumedWhereItStopped == MigrationSpec => []MigrationInv
<1>1. Whole => MigrationInv
  BY DEF Whole
<1>2. QED
  BY <1>1, MigrationInvariance, PTL

-----------------------------------------------------------------------------
(* What follows for the operator. *)

\* Each promise of a single run is kept by every run of a migration, beside
\* whatever clients and sessions the runs before it have left.
THEOREM EveryRunKeepsItsPromises ==
  MigrationSpec =>
    [](/\ OneClientAtATime /\ StopIsRespected /\ KnownClientsAreStopped
       /\ OnlyPinnedContent /\ ExitZeroMeansApplied /\ HintIsTheFrontier)
<1>1. Whole => Outcomes /\ Inv
  BY DEF Whole, Outcomes
<1>2. Whole => /\ OneClientAtATime /\ StopIsRespected /\ KnownClientsAreStopped
               /\ OnlyPinnedContent /\ ExitZeroMeansApplied /\ HintIsTheFrontier
  BY <1>1, OneClientFact, StopFact, KnownClientsFact, PinnedFact, ZeroFact, FrontierFact
<1>3. QED
  BY <1>2, MigrationInvariance, PTL

\* No run of a migration starts a client once it was sent a signal.
THEOREM NoRunStartsAfterASignal == MigrationSpec => NothingStartsAfterASignal
<1>1. ASSUME Whole, [MigrationNext]_migrationVars
      PROVE  [signals > 0 => Len(attempts') = Len(attempts)]_vars
  <2>1. CASE [Next]_vars
    BY <1>1, <2>1, NothingStartsFact DEF Whole
  <2>2. CASE Resume
    BY <2>2 DEF Resume
  <2>3. QED
    BY <1>1, <2>1, <2>2, StepOrResume
<1>2. QED
  BY <1>1, MigrationInvariance, PTL DEF MigrationSpec, NothingStartsAfterASignal

LEMMA NoOverlapFact == Whole => RunsDoNotOverlap
<1> SUFFICES ASSUME Whole, NEW k \in DOMAIN attempts, NEW l \in DOMAIN attempts,
                    k < l, Running(k)
             PROVE  FALSE
  BY DEF RunsDoNotOverlap
<1>1. Len(attempts) \in Nat /\ DOMAIN attempts = 1 .. Len(attempts)
  BY LenProperties DEF Whole, Outcomes, Inv, TypeOK
<1>2. k \in Mine
  BY DEF Whole, MigrationInv, EarlierClientsEnded
<1>3. k = Len(attempts)
  BY <1>2 DEF Whole, Outcomes, Inv, Clients
<1>4. QED
  BY <1>1, <1>3

\* A client is started only when every client before it has ended, also those
\* of the runs before: a run that prints a StartAt has left none.
THEOREM NoOverlap == MigrationSpec => []RunsDoNotOverlap
  BY NoOverlapFact, MigrationInvariance, PTL

LEMMA FoundationsFact == Whole => StepsBuildOnEachOther
<1> SUFFICES ASSUME Whole, NEW k \in DOMAIN attempts,
                    NEW i \in DOMAIN plan, NEW j \in DOMAIN plan,
                    i < j, plan[j].name = attempts[k].name
             PROVE  \/ plan[i].on_error = "continue"
                    \/ \E l \in DOMAIN attempts :
                         /\ l < k /\ attempts[l].name = plan[i].name
                         /\ attempts[l].leader = "ok"
                         /\ attempts[l].done = Items(attempts[l])
  BY DEF StepsBuildOnEachOther
<1>1. \/ plan[i].on_error = "continue"
      \/ \E l \in DOMAIN attempts : l < k /\ Carried(l, i)
  BY DEF Whole, MigrationInv, Foundations
<1>2. \A l \in DOMAIN attempts :
        attempts[l].leader = "ok" => attempts[l].done = Items(attempts[l])
  BY DEF Whole, Outcomes, Origin, Sound
<1>3. QED
  BY <1>1, <1>2 DEF Carried

\* However often a migration is resumed: statements of a step are in the
\* database only if each step before it, unless it may fail, was carried
\* through before, in this run or in an earlier one.
THEOREM BuildOnEachOther == MigrationSpec => []StepsBuildOnEachOther
  BY FoundationsFact, MigrationInvariance, PTL

LEMMA CompleteFact == Whole => MigrationIsComplete
<1> SUFFICES ASSUME Whole, Exited(EXIT_OK), NEW j \in DOMAIN plan
             PROVE  \E code \in ExitCode :
                      Filed(j, code) /\ (code = EXIT_OK \/ plan[j].on_error = "continue")
  BY DEF MigrationIsComplete
<1>1. /\ DOMAIN plan = 1 .. Len(plan) /\ Len(plan) \in Nat
      /\ DOMAIN steps = 1 .. Len(steps) /\ Len(steps) \in Nat
      /\ Base \in Nat /\ Len(plan) = Base + Len(steps)
  BY Lists DEF Whole, Outcomes, MigrationInv
<1>2. CASE j \in 1 .. Base
  BY <1>2 DEF Whole, MigrationInv, PastReachesTheRest, Filed
<1>3. CASE ~ (j \in 1 .. Base)
  <2>1. j - Base \in DOMAIN steps /\ Base + (j - Base) = j
    BY <1>1, <1>3
  <2>2. steps[j - Base] = plan[j]
    BY <2>1 DEF Whole, MigrationInv, RestOfPlan
  <2>3. j - Base \in DOMAIN results /\ results[j - Base] = EXIT_OK
    BY <2>1, ZeroVerdicts DEF Whole
  <2>4. FiledNow(j, EXIT_OK)
    BY <2>2, <2>3 DEF FiledNow
  <2>5. EXIT_OK \in ExitCode
    BY DEF ExitCode, EXIT_OK, EXIT_TIMEOUT
  <2>6. QED
    BY <2>4, <2>5 DEF Filed
<1>4. QED
  BY <1>2, <1>3

\* A migration whose last run exits 0 has left out no step of the plan.
THEOREM Complete == MigrationSpec => []MigrationIsComplete
  BY CompleteFact, MigrationInvariance, PTL

\* The run is about to start the client of a step: no run has reported it ok.
LEMMA SpawnIsNew ==
  ASSUME Whole, Spawn
  PROVE  NewAttempt.name \notin Reported
<1> SUFFICES ASSUME NEW j \in DOMAIN plan, Filed(j, EXIT_OK),
                    plan[j].name = NewAttempt.name
             PROVE  FALSE
  BY DEF Reported
<1>1. /\ idx \in DOMAIN steps /\ Len(results) = idx - 1 /\ idx \in Nat \ {0}
      /\ DOMAIN results = 1 .. idx - 1
  BY LenProperties DEF Spawn, At, Whole, Outcomes, Inv, TypeOK, Control, InStep
<1>2. DOMAIN steps = 1 .. Len(steps) /\ Len(steps) \in Nat /\ Base \in Nat
  BY Lists DEF Whole, Outcomes, MigrationInv
<1>3. j = Base + idx
  BY <1>1, PlaceOfName DEF NewAttempt, Cur, Whole, Outcomes, MigrationInv
<1>4. CASE FiledBefore(j, EXIT_OK)
  BY <1>1, <1>2, <1>3, <1>4 DEF Whole, MigrationInv, PastReachesTheRest
<1>5. CASE FiledNow(j, EXIT_OK)
  <2>1. PICK n \in DOMAIN results : steps[n] = plan[j]
    BY <1>5 DEF FiledNow
  <2>2. n \in DOMAIN steps /\ n < idx
    BY <1>1, <1>2, <2>1
  <2>3. j = Base + n
    BY <2>1, <2>2, PlaceOfName DEF Whole, Outcomes, MigrationInv
  <2>4. QED
    BY <1>1, <1>2, <1>3, <2>2, <2>3
<1>6. QED
  BY <1>4, <1>5 DEF Filed

\* Resuming where the log says never starts a client for a step that some run
\* has reported ok.
THEOREM NotRepeated == MigrationSpec => ReportedStepsAreNotRepeated
<1>1. ASSUME Whole, [MigrationNext]_migrationVars,
             NEW k \in DOMAIN attempts' \ DOMAIN attempts
      PROVE  attempts'[k].name \notin Reported
  <2>1. Inv
    BY <1>1 DEF Whole, Outcomes
  <2>2. CASE Spawn
    <3>1. attempts'[k] = NewAttempt
      BY <1>1, <2>1, <2>2, SpawnAdds
    <3>2. QED
      BY <1>1, <2>2, <3>1, SpawnIsNew
  <2>3. CASE [Next]_vars /\ ~ Spawn
    BY <1>1, <2>1, <2>3, Kept DEF ClientsKept
  <2>4. CASE Resume
    BY <1>1, <2>4 DEF Resume
  <2>5. QED
    BY <1>1, <2>2, <2>3, <2>4, StepOrResume
<1>2. Whole /\ [MigrationNext]_migrationVars =>
        [\A k \in DOMAIN attempts' \ DOMAIN attempts :
           attempts'[k].name \notin Reported]_migrationVars
  BY <1>1
<1>3. QED
  BY <1>2, MigrationInvariance, PTL DEF MigrationSpec, ReportedStepsAreNotRepeated
=============================================================================

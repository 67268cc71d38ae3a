--------------------------- MODULE StepListProofs ---------------------------
(***************************************************************************)
(* Theorems about the step list, for every list of raw steps of any        *)
(* length, every set of targets and every combination of the parameters.   *)
(*                                                                         *)
(* The state machine has one step, so the invariant is only that the plan  *)
(* is the Plan of the parameters; the work is in the lemmas that say what  *)
(* each function returns.                                                  *)
(***************************************************************************)
EXTENDS StepListCheck, TLAPS, SequenceTheorems, FiniteSetTheorems,
        WellFoundedInduction

Codes == {EXIT_OK, EXIT_UNEXPECTED, EXIT_INTEGRITY, EXIT_CONFIG}

Distinct(list) ==
  \A i, j \in DOMAIN list : list[i].name = list[j].name => i = j

\* A list that a run may start with.
Proper(list) == list \in Seq(Step) /\ list # <<>> /\ Distinct(list)

-----------------------------------------------------------------------------
(* Single steps. *)

LEMMA Least ==
  ASSUME NEW S \in SUBSET Nat, S # {}
  PROVE  \E i \in S : \A j \in S : i <= j
<1>1. PICK i \in S : \A j \in S : <<j, i>> \notin OpToRel(<, Nat)
  BY NatLessThanWellFounded, WFMin, Zenon
<1>2. \A j \in S : ~ (j < i)
  BY <1>1 DEF OpToRel
<1>3. QED
  BY <1>2

LEMMA BuiltParts ==
  ASSUME NEW code, NEW list
  PROVE  Built(code, list).code = code /\ Built(code, list).list = list
  BY DEF Built

LEMMA CodesDiffer ==
  /\ EXIT_OK # EXIT_CONFIG /\ EXIT_OK # EXIT_UNEXPECTED /\ EXIT_OK # EXIT_INTEGRITY
  /\ EXIT_OK \in Codes /\ EXIT_CONFIG \in Codes
  /\ EXIT_UNEXPECTED \in Codes /\ EXIT_INTEGRITY \in Codes
  BY DEF EXIT_OK, EXIT_CONFIG, EXIT_UNEXPECTED, EXIT_INTEGRITY, Codes

LEMMA VerdictCodes ==
  ASSUME NEW raw, NEW i, NEW timeout
  PROVE  StepVerdict(raw, i, timeout) \in {EXIT_OK, EXIT_UNEXPECTED, EXIT_CONFIG}
  BY DEF StepVerdict

\* The conditions under which normalize_step returns a step.
LEMMA VerdictOK ==
  ASSUME NEW raw \in RawStep, NEW i, NEW timeout
  PROVE  StepVerdict(raw, i, timeout) = EXIT_OK <=>
           /\ raw.spelling = "good"
           /\ raw.target \in Target
           /\ normalize_step(raw, i, timeout).type = "shell" => AllowShell
           /\ normalize_step(raw, i, timeout).timeout_seconds \in 1 .. MAX_TIMEOUT
<1>1. normalize_step(raw, i, timeout).target = raw.target
  BY DEF normalize_step
<1>2. QED
  BY <1>1, CodesDiffer DEF StepVerdict

LEMMA NormalStep ==
  ASSUME NEW raw \in RawStep, NEW i \in 1 .. MaxSteps, NEW timeout \in Nat,
         StepVerdict(raw, i, timeout) = EXIT_OK
  PROVE  /\ normalize_step(raw, i, timeout) \in Step
         /\ normalize_step(raw, i, timeout).type # "check"
<1> DEFINE s == normalize_step(raw, i, timeout)
<1>1. s.target \in Target /\ s.timeout_seconds \in 1 .. MAX_TIMEOUT
  BY VerdictOK DEF normalize_step
<1>2. s.name \in Name
  BY StepListAssumption DEF normalize_step, OrDefault, RawStep
<1>3. s.type \in TYPES
  BY DEF normalize_step, OrDefault, RawStep, TYPES
<1>4. s.transaction \in TRANSACTIONS /\ s.on_error \in ON_ERROR
  BY DEF normalize_step, OrDefault, RawStep, TRANSACTIONS, ON_ERROR
<1>5. s.script \in Script /\ s.sha256 \in Content \cup {NoSha}
  BY DEF normalize_step, RawStep
<1>6. s = [name |-> s.name, target |-> s.target, script |-> s.script,
           sha256 |-> s.sha256, type |-> s.type, transaction |-> s.transaction,
           timeout_seconds |-> s.timeout_seconds, on_error |-> s.on_error]
  BY DEF normalize_step
<1> HIDE DEF s
<1>7. s.type # "check" /\ s.script # NoScript
  BY <1>3, <1>5, StepsAssumption DEF TYPES
<1>8. s \in StepRecord
  BY <1>1, <1>2, <1>3, <1>4, <1>5, <1>6 DEF StepRecord
<1>9. s \in Step
  BY <1>7, <1>8 DEF Step
<1>10. QED
  BY <1>7, <1>9 DEF s

LEMMA CheckStep ==
  ASSUME NEW t \in Target
  PROVE  /\ check_step(t) \in Step
         /\ check_step(t).target = t
         /\ check_step(t).type = "check"
         /\ check_step(t).name = CheckName[t]
<1>1. check_step(t).type = "check" /\ check_step(t).script = NoScript
  BY DEF check_step
<1>2. CheckName[t] \in Name
  BY StepListAssumption
<1>3. 120 \in 1 .. MAX_TIMEOUT
  BY DEF MAX_TIMEOUT
<1>4. check_step(t) \in StepRecord
  BY <1>2, <1>3 DEF check_step, StepRecord, TRANSACTIONS, ON_ERROR
<1>5. QED
  BY <1>1, <1>4 DEF Step, check_step

-----------------------------------------------------------------------------
(* normalize_steps *)

\* It accepts a list of 1 to MaxSteps steps that are all accepted and differ
\* in their names, and nothing else.
LEMMA NormalizeSteps ==
  ASSUME NEW raws \in Seq(RawStep), NEW timeout \in Nat
  PROVE  LET b    == normalize_steps(raws, timeout)
             list == [i \in DOMAIN raws |-> normalize_step(raws[i], i, timeout)]
         IN /\ b.code \in Codes
            /\ b.code # EXIT_OK => b.list = <<>>
            /\ b.code = EXIT_OK => b.list = list
            /\ b.code = EXIT_OK <=>
                 /\ Len(raws) \in 1 .. MaxSteps
                 /\ \A i \in DOMAIN raws : StepVerdict(raws[i], i, timeout) = EXIT_OK
                 /\ ~ DuplicateNames(list)
<1> DEFINE b    == normalize_steps(raws, timeout)
           list == [i \in DOMAIN raws |-> normalize_step(raws[i], i, timeout)]
           Code(i) == StepVerdict(raws[i], i, timeout)
           bad  == {i \in DOMAIN raws : Code(i) # EXIT_OK}
           i0   == CHOOSE i \in bad : \A j \in bad : i <= j
<1>1. b = IF Len(raws) \notin 1 .. MaxSteps THEN Rejected(EXIT_CONFIG)
          ELSE IF bad # {} THEN Rejected(Code(i0))
          ELSE IF DuplicateNames(list) THEN Rejected(EXIT_CONFIG)
          ELSE Built(EXIT_OK, list)
  BY DEF normalize_steps
<1>2. bad # {} => Code(i0) # EXIT_OK /\ Code(i0) \in Codes
  <2> SUFFICES ASSUME bad # {} PROVE Code(i0) # EXIT_OK /\ Code(i0) \in Codes
    OBVIOUS
  <2>1. bad \in SUBSET Nat
    BY LenProperties
  <2>2. \E i \in bad : \A j \in bad : i <= j
    BY <2>1, Least
  <2>3. i0 \in bad
    BY <2>2
  <2>4. QED
    BY <2>3, VerdictCodes DEF Codes
<1>3. bad = {} <=> \A i \in DOMAIN raws : StepVerdict(raws[i], i, timeout) = EXIT_OK
  OBVIOUS
<1> HIDE DEF b, list, bad, i0, Code
<1>4. CASE Len(raws) \notin 1 .. MaxSteps
  <2>1. b.code = EXIT_CONFIG /\ b.list = <<>>
    BY <1>1, <1>4, BuiltParts DEF Rejected
  <2>2. QED
    BY <1>4, <2>1, CodesDiffer DEF b, list
<1>5. CASE Len(raws) \in 1 .. MaxSteps /\ bad # {}
  <2>1. b.code = Code(i0) /\ b.list = <<>>
    BY <1>1, <1>5, BuiltParts DEF Rejected
  <2>2. QED
    BY <1>2, <1>3, <1>5, <2>1 DEF b, list
<1>6. CASE Len(raws) \in 1 .. MaxSteps /\ bad = {} /\ DuplicateNames(list)
  <2>1. b.code = EXIT_CONFIG /\ b.list = <<>>
    BY <1>1, <1>6, BuiltParts DEF Rejected
  <2>2. QED
    BY <1>6, <2>1, CodesDiffer DEF b, list
<1>7. CASE Len(raws) \in 1 .. MaxSteps /\ bad = {} /\ ~ DuplicateNames(list)
  <2>1. b.code = EXIT_OK /\ b.list = list
    BY <1>1, <1>7, BuiltParts
  <2>2. QED
    BY <1>3, <1>7, <2>1, CodesDiffer DEF b, list
<1>8. QED
  BY <1>4, <1>5, <1>6, <1>7

\* What it accepts is a proper list, without probes.
LEMMA AcceptedSteps ==
  ASSUME NEW raws \in Seq(RawStep), NEW timeout \in Nat,
         normalize_steps(raws, timeout).code = EXIT_OK
  PROVE  LET list == normalize_steps(raws, timeout).list IN
           /\ Proper(list) /\ Len(list) = Len(raws)
           /\ \A i \in DOMAIN list : /\ list[i] = normalize_step(raws[i], i, timeout)
                                     /\ list[i].type # "check"
<1> DEFINE list == [i \in DOMAIN raws |-> normalize_step(raws[i], i, timeout)]
<1>1. /\ normalize_steps(raws, timeout).list = list
      /\ Len(raws) \in 1 .. MaxSteps
      /\ \A i \in DOMAIN raws : StepVerdict(raws[i], i, timeout) = EXIT_OK
      /\ ~ DuplicateNames(list)
  BY NormalizeSteps
<1>2. Len(raws) \in Nat /\ DOMAIN raws = 1 .. Len(raws) /\ MaxSteps \in Nat
  BY LenProperties, StepListAssumption
<1>3. \A i \in DOMAIN raws : /\ normalize_step(raws[i], i, timeout) \in Step
                             /\ normalize_step(raws[i], i, timeout).type # "check"
  <2> SUFFICES ASSUME NEW i \in DOMAIN raws
               PROVE  /\ normalize_step(raws[i], i, timeout) \in Step
                      /\ normalize_step(raws[i], i, timeout).type # "check"
    OBVIOUS
  <2>1. raws[i] \in RawStep /\ i \in 1 .. MaxSteps
    BY <1>1, <1>2, ElementOfSeq
  <2>2. QED
    BY <1>1, <2>1, NormalStep
<1>4. list \in [1 .. Len(raws) -> Step]
  BY <1>2, <1>3
<1>5. \A i \in DOMAIN raws : list[i] = normalize_step(raws[i], i, timeout)
  OBVIOUS
<1> HIDE DEF list
<1>6. list \in Seq(Step) /\ Len(list) = Len(raws) /\ DOMAIN list = 1 .. Len(raws)
  BY <1>2, <1>4
<1>7. list # <<>>
  BY <1>1, <1>6, EmptySeq
<1>8. Distinct(list)
  BY <1>1, <1>2, <1>6 DEF DuplicateNames, Distinct
<1>9. QED
  BY <1>1, <1>2, <1>3, <1>5, <1>6, <1>7, <1>8 DEF Proper

-----------------------------------------------------------------------------
(* build_steps *)

LEMMA ParamTypes ==
  ASSUME NEW p \in Inputs
  PROVE  /\ p.raws \in Seq(RawStep) /\ Timeout(p) \in Nat
         /\ p.target \in Target \cup {Absent}
         /\ p.mode \in {"check", "run", "runbook", "manifest"}
         /\ p.start_at \in Name \cup {Absent} /\ p.dry_run \in BOOLEAN
         /\ p.timeout \in Nat
         /\ p.mode = "run" => Len(p.raws) = 1
<1>1. p \in Params
  BY InputsAssumption
<1>2. DefaultTimeout \in Nat
  BY StepListAssumption
<1>3. QED
  BY <1>1, <1>2, InputsAssumption DEF Params, Timeout

LEMMA RunStepType ==
  ASSUME NEW p \in Inputs, p.mode = "run"
  PROVE  <<RunStep(p.raws[1])>> \in Seq(RawStep)
<1>1. p.raws[1] \in RawStep
  BY ParamTypes, ElementOfSeq
<1>2. RunStep(p.raws[1]) \in RawStep
  BY <1>1, StepListAssumption DEF RunStep, RawStep
<1>3. QED
  BY <1>2

\* The steps of Mode=check are proper: no target occurs twice.
LEMMA CheckList ==
  LET list == [i \in DOMAIN TargetSeq |-> check_step(TargetSeq[i])] IN
    /\ Proper(list)
    /\ \A i \in DOMAIN list : list[i].type = "check"
<1> DEFINE list == [i \in DOMAIN TargetSeq |-> check_step(TargetSeq[i])]
<1>1. /\ TargetSeq \in Seq(Target) /\ Len(TargetSeq) \in Nat
      /\ DOMAIN TargetSeq = 1 .. Len(TargetSeq)
  BY StepListAssumption, LenProperties
<1>2. \A i \in DOMAIN TargetSeq : TargetSeq[i] \in Target
  BY <1>1, ElementOfSeq
<1>3. \A i \in DOMAIN TargetSeq : /\ list[i] = check_step(TargetSeq[i])
                                  /\ list[i] \in Step /\ list[i].type = "check"
                                  /\ list[i].name = CheckName[TargetSeq[i]]
  BY <1>2, CheckStep
<1>4. list \in [1 .. Len(TargetSeq) -> Step]
  BY <1>1, <1>3
<1>5. Len(TargetSeq) # 0
  BY <1>1, StepListAssumption
<1> HIDE DEF list
<1>6. /\ list \in Seq(Step) /\ Len(list) = Len(TargetSeq)
      /\ DOMAIN list = DOMAIN TargetSeq
  BY <1>1, <1>4
<1>7. list # <<>>
  BY <1>5, <1>6, EmptySeq
<1>8. Distinct(list)
  <2> SUFFICES ASSUME NEW i \in DOMAIN TargetSeq, NEW j \in DOMAIN TargetSeq,
                      list[i].name = list[j].name
               PROVE  i = j
    BY <1>6 DEF Distinct
  <2>1. CheckName[TargetSeq[i]] = CheckName[TargetSeq[j]]
    BY <1>3
  <2>2. TargetSeq[i] = TargetSeq[j]
    BY <1>2, <2>1, StepListAssumption
  <2>3. QED
    BY <2>2, StepListAssumption
<1>9. QED
  BY <1>3, <1>6, <1>7, <1>8 DEF Proper, list

LEMMA OneCheck ==
  ASSUME NEW t \in Target
  PROVE  /\ Proper(<<check_step(t)>>)
         /\ \A i \in DOMAIN <<check_step(t)>> : <<check_step(t)>>[i].type = "check"
<1>1. check_step(t) \in Step /\ check_step(t).type = "check"
  BY CheckStep
<1> DEFINE s == check_step(t)
<1> HIDE DEF s
<1>2. /\ <<s>> \in Seq({s}) /\ <<s>> # <<>> /\ DOMAIN <<s>> = {1} /\ <<s>>[1] = s
  OBVIOUS
<1>3. <<s>> \in Seq(Step)
  BY <1>1 DEF s
<1>4. QED
  BY <1>1, <1>2, <1>3 DEF Proper, Distinct, s

\* Every mode: a refusal has no list, a list is proper, and only Mode=check
\* has probes in it.
LEMMA BuildSteps ==
  ASSUME NEW p \in Inputs
  PROVE  LET b == build_steps(p) IN
           /\ b.code \in Codes
           /\ b.code # EXIT_OK => b.list = <<>>
           /\ b.code = EXIT_OK =>
                /\ Proper(b.list)
                /\ \A i \in DOMAIN b.list : b.list[i].type = "check" <=> p.mode = "check"
<1> DEFINE b == build_steps(p)
           checks == [i \in DOMAIN TargetSeq |-> check_step(TargetSeq[i])]
           OK == /\ b.code \in Codes
                 /\ b.code # EXIT_OK => b.list = <<>>
                 /\ b.code = EXIT_OK =>
                      /\ Proper(b.list)
                      /\ \A i \in DOMAIN b.list : b.list[i].type = "check" <=> p.mode = "check"
<1> DEFINE Refusal == \/ p.refused = "request"
                      \/ p.mode = "manifest" /\ p.pin # "mismatch" /\ p.refused = "manifest"
<1>0. CASE Refusal
  <2>1. b = Rejected(EXIT_CONFIG)
    BY <1>0 DEF build_steps
  <2>2. b.code = EXIT_CONFIG /\ b.list = <<>>
    BY <2>1, BuiltParts DEF Rejected
  <2> HIDE DEF b
  <2>3. QED
    BY <2>2, CodesDiffer DEF b
<1>1. CASE ~ Refusal /\ p.mode = "check" /\ p.target = Absent
  <2>1. b = Built(EXIT_OK, checks)
    BY <1>1 DEF build_steps
  <2> HIDE DEF b, checks
  <2>2. b.code = EXIT_OK /\ b.list = checks
    BY <2>1, BuiltParts
  <2>3. Proper(checks) /\ \A i \in DOMAIN checks : checks[i].type = "check"
    BY CheckList DEF checks
  <2>4. QED
    BY <1>1, <2>2, <2>3, CodesDiffer DEF b
<1>2. CASE ~ Refusal /\ p.mode = "check" /\ p.target # Absent
  <2>1. b = Built(EXIT_OK, <<check_step(p.target)>>)
    BY <1>2 DEF build_steps
  <2>2. p.target \in Target
    BY <1>2, ParamTypes
  <2> HIDE DEF b
  <2>3. b.code = EXIT_OK /\ b.list = <<check_step(p.target)>>
    BY <2>1, BuiltParts
  <2>4. QED
    BY <1>2, <2>2, <2>3, OneCheck, CodesDiffer DEF b
<1>3. CASE ~ Refusal /\ p.mode = "manifest" /\ p.pin = "mismatch"
  <2>1. b = Rejected(EXIT_INTEGRITY)
    BY <1>3 DEF build_steps
  <2>2. b.code = EXIT_INTEGRITY /\ b.list = <<>>
    BY <2>1, BuiltParts DEF Rejected
  <2> HIDE DEF b
  <2>3. QED
    BY <2>2, CodesDiffer DEF b
<1>4. ASSUME NEW raws \in Seq(RawStep), p.mode # "check",
             b = normalize_steps(raws, Timeout(p))
      PROVE  OK
  <2>1. Timeout(p) \in Nat
    BY ParamTypes
  <2> HIDE DEF b
  <2>2. b.code \in Codes /\ (b.code # EXIT_OK => b.list = <<>>)
    BY <1>4, <2>1, NormalizeSteps
  <2>3. b.code = EXIT_OK => Proper(b.list) /\ \A i \in DOMAIN b.list : b.list[i].type # "check"
    BY <1>4, <2>1, AcceptedSteps
  <2>4. QED
    BY <1>4, <2>2, <2>3
<1>5. CASE ~ Refusal /\ p.mode = "run"
  <2>1. b = normalize_steps(<<RunStep(p.raws[1])>>, Timeout(p))
    BY <1>5 DEF build_steps
  <2>2. QED
    BY <1>4, <1>5, <2>1, RunStepType
<1>6. CASE /\ ~ Refusal
           /\ p.mode = "runbook" \/ (p.mode = "manifest" /\ p.pin # "mismatch")
  <2>1. b = normalize_steps(p.raws, Timeout(p))
    BY <1>6 DEF build_steps
  <2>2. QED
    BY <1>4, <1>6, <2>1, ParamTypes
<1>7. QED
  BY <1>0, <1>1, <1>2, <1>3, <1>5, <1>6, ParamTypes

-----------------------------------------------------------------------------
(* apply_start_at *)

LEMMA Suffix ==
  ASSUME NEW list \in Seq(Step), NEW m \in 1 .. Len(list)
  PROVE  LET rest == SubSeq(list, m, Len(list)) IN
           /\ rest \in Seq(Step) /\ rest # <<>>
           /\ \A i \in DOMAIN rest : \E j \in DOMAIN list : rest[i] = list[j]
<1> DEFINE rest == SubSeq(list, m, Len(list))
<1>1. Len(list) \in Nat /\ DOMAIN list = 1 .. Len(list)
  BY LenProperties
<1>2. \A i \in m .. Len(list) : list[i] \in Step
  BY <1>1, ElementOfSeq
<1>3. /\ rest \in Seq(Step) /\ Len(rest) = Len(list) - m + 1
      /\ \A i \in 1 .. Len(list) - m + 1 : rest[i] = list[m + i - 1]
  BY <1>1, <1>2, SubSeqProperties
<1> HIDE DEF rest
<1>4. rest # <<>>
  BY <1>1, <1>3, EmptySeq
<1>5. DOMAIN rest = 1 .. Len(list) - m + 1
  BY <1>3, LenProperties
<1>6. \A i \in DOMAIN rest : m + i - 1 \in DOMAIN list /\ rest[i] = list[m + i - 1]
  BY <1>1, <1>3, <1>5
<1>7. QED
  BY <1>3, <1>4, <1>6 DEF rest

\* The rest of the list from some step on, or a refusal.
LEMMA StartAt ==
  ASSUME NEW list, Proper(list), NEW start_at
  PROVE  LET a == apply_start_at(list, start_at) IN
           /\ a.code \in {EXIT_OK, EXIT_CONFIG}
           /\ a.code # EXIT_OK => a.list = <<>>
           /\ a.code = EXIT_OK =>
                \E m \in 1 .. Len(list) : a.list = SubSeq(list, m, Len(list))
<1> DEFINE a     == apply_start_at(list, start_at)
           named == {i \in DOMAIN list : list[i].name = start_at}
           m0    == CHOOSE i \in named : \A j \in named : i <= j
<1>1. /\ list \in Seq(Step) /\ DOMAIN list = 1 .. Len(list) /\ Len(list) \in Nat
      /\ 1 \in 1 .. Len(list)
  BY LenProperties, EmptySeq DEF Proper
<1>2. a = IF start_at = Absent THEN Built(EXIT_OK, list)
          ELSE IF named = {} THEN Rejected(EXIT_CONFIG)
          ELSE Built(EXIT_OK, SubSeq(list, m0, Len(list)))
  BY DEF apply_start_at
<1>3. named # {} => m0 \in 1 .. Len(list)
  <2> SUFFICES ASSUME named # {} PROVE m0 \in named
    BY <1>1
  <2>1. named \in SUBSET Nat
    BY <1>1
  <2>2. \E i \in named : \A j \in named : i <= j
    BY <2>1, Least
  <2>3. QED
    BY <2>2
<1> HIDE DEF a, named, m0
<1>4. CASE start_at = Absent
  <2>1. a.code = EXIT_OK /\ a.list = list
    BY <1>2, <1>4, BuiltParts
  <2>2. list = SubSeq(list, 1, Len(list))
    BY <1>1, SubSeqFull
  <2>3. QED
    BY <1>1, <2>1, <2>2 DEF a
<1>5. CASE start_at # Absent /\ named = {}
  <2>1. a.code = EXIT_CONFIG /\ a.list = <<>>
    BY <1>2, <1>5, BuiltParts DEF Rejected
  <2>2. QED
    BY <2>1, CodesDiffer DEF a
<1>6. CASE start_at # Absent /\ named # {}
  <2>1. a.code = EXIT_OK /\ a.list = SubSeq(list, m0, Len(list))
    BY <1>2, <1>6, BuiltParts
  <2>2. QED
    BY <1>3, <1>6, <2>1 DEF a
<1>7. QED
  BY <1>4, <1>5, <1>6

\* In a proper list a name leads to its own step.
LEMMA StartAtName ==
  ASSUME NEW list, Proper(list), NEW i \in DOMAIN list
  PROVE  LET a == apply_start_at(list, list[i].name) IN
           a.code = EXIT_OK /\ a.list = SubSeq(list, i, Len(list))
<1> DEFINE a     == apply_start_at(list, list[i].name)
           named == {j \in DOMAIN list : list[j].name = list[i].name}
           m0    == CHOOSE k \in named : \A j \in named : k <= j
<1>1. list \in Seq(Step) /\ DOMAIN list = 1 .. Len(list) /\ Len(list) \in Nat
  BY LenProperties DEF Proper
<1>2. list[i].name \in Name
  BY <1>1, ElementOfSeq DEF Step, StepRecord
<1>3. list[i].name # Absent
  BY <1>2, StepListAssumption
<1>4. named = {i}
  BY DEF Proper, Distinct
<1>5. m0 = i
  BY <1>1, <1>4
<1>6. a = Built(EXIT_OK, SubSeq(list, m0, Len(list)))
  BY <1>3, <1>4 DEF apply_start_at
<1> HIDE DEF a, named, m0
<1>7. QED
  BY <1>5, <1>6, BuiltParts DEF a

-----------------------------------------------------------------------------
(* The probes of a dry run. *)

\* Counting the members of a finite set of numbers from below: each number up
\* to its cardinality is the rank of one member.
LEMMA Ranks ==
  ASSUME NEW F \in SUBSET Nat, IsFiniteSet(F)
  PROVE  LET Nth(n) == CHOOSE i \in F : Cardinality({j \in F : j <= i}) = n IN
           /\ \A n \in 1 .. Cardinality(F) : Nth(n) \in F
           /\ \A n, m \in 1 .. Cardinality(F) : Nth(n) = Nth(m) => n = m
           /\ \A i \in F : \E n \in 1 .. Cardinality(F) : Nth(n) = i
<1> DEFINE Nth(n)   == CHOOSE i \in F : Cardinality({j \in F : j <= i}) = n
           Below(i) == {j \in F : j <= i}
           c        == Cardinality(F)
           rank     == [i \in F |-> Cardinality(Below(i))]
<1>1. c \in Nat
  BY FS_CardinalityType
<1>2. \A i \in F : IsFiniteSet(Below(i)) /\ Cardinality(Below(i)) \in 1 .. c
  <2> SUFFICES ASSUME NEW i \in F
               PROVE  IsFiniteSet(Below(i)) /\ Cardinality(Below(i)) \in 1 .. c
    OBVIOUS
  <2>1. Below(i) \in SUBSET F
    OBVIOUS
  <2>2. IsFiniteSet(Below(i)) /\ Cardinality(Below(i)) <= c
    BY <2>1, FS_Subset
  <2>3. Cardinality(Below(i)) \in Nat
    BY <2>2, FS_CardinalityType
  <2>4. i \in Below(i)
    OBVIOUS
  <2>5. Cardinality(Below(i)) # 0
    BY <2>2, <2>4, FS_EmptySet
  <2>6. QED
    BY <1>1, <2>2, <2>3, <2>5
<1>3. ASSUME NEW i \in F, NEW k \in F, i < k
      PROVE  Cardinality(Below(i)) # Cardinality(Below(k))
  <2>1. Below(i) \in SUBSET Below(k)
    <3>1. \A j \in F : j <= i => j <= k
      BY <1>3
    <3>2. QED
      BY <3>1
  <2>2. k \in Below(k) /\ k \notin Below(i)
    BY <1>3
  <2>3. Below(i) # Below(k)
    BY <2>2
  <2>4. IsFiniteSet(Below(k))
    BY <1>2
  <2> HIDE DEF Below
  <2>5. QED
    BY <2>1, <2>3, <2>4, FS_Subset
<1>4. \A i, k \in F : Cardinality(Below(i)) = Cardinality(Below(k)) => i = k
  <2> SUFFICES ASSUME NEW i \in F, NEW k \in F, i # k
               PROVE  Cardinality(Below(i)) # Cardinality(Below(k))
    OBVIOUS
  <2>1. i < k \/ k < i
    OBVIOUS
  <2> HIDE DEF Below
  <2>2. QED
    BY <1>3, <2>1
<1>5. rank \in Injection(F, 1 .. c)
  <2>1. rank \in [F -> 1 .. c]
    BY <1>2
  <2>2. \A i, k \in F : rank[i] = rank[k] => i = k
    BY <1>4
  <2>3. QED
    BY <2>1, <2>2 DEF Injection, IsInjective
<1>6. IsFiniteSet(1 .. c) /\ Cardinality(1 .. c) = c
  BY <1>1, FS_Interval
<1>7. rank \in Surjection(F, 1 .. c)
  BY <1>5, <1>6, FS_Injection
<1>8. \A n \in 1 .. c : \E i \in F : Cardinality(Below(i)) = n
  BY <1>7 DEF Surjection
<1>9. \A n \in 1 .. c : Nth(n) \in F /\ Cardinality(Below(Nth(n))) = n
  BY <1>8
<1>10. \A i \in F : Nth(Cardinality(Below(i))) = i
  BY <1>2, <1>4, <1>9
<1> HIDE DEF Nth, Below, c
<1>11. /\ \A n \in 1 .. c : Nth(n) \in F
       /\ \A n, m \in 1 .. c : Nth(n) = Nth(m) => n = m
       /\ \A i \in F : \E n \in 1 .. c : Nth(n) = i
  BY <1>2, <1>9, <1>10
<1>12. QED
  BY <1>11 DEF Nth, c

\* One probe for each target of the list, and nothing else.
LEMMA ProbeList ==
  ASSUME NEW list \in Seq(Step)
  PROVE  LET q == Probes(list) IN
           /\ q \in Seq(Step)
           /\ \A n \in DOMAIN q : /\ q[n].type = "check"
                                  /\ \E i \in DOMAIN list : list[i].target = q[n].target
           /\ \A i \in DOMAIN list : \E n \in DOMAIN q : q[n].target = list[i].target
           /\ \A n, m \in DOMAIN q : q[n].target = q[m].target => n = m
<1> DEFINE First(i) == \A j \in 1 .. i - 1 : list[j].target # list[i].target
           F        == {i \in DOMAIN list : First(i)}
           Nth(n)   == CHOOSE i \in F : Cardinality({j \in F : j <= i}) = n
           c        == Cardinality(F)
           q        == Probes(list)
<1>1. /\ DOMAIN list = 1 .. Len(list) /\ Len(list) \in Nat
      /\ \A i \in DOMAIN list : list[i].target \in Target
  BY LenProperties, ElementOfSeq DEF Step, StepRecord
<1>2. F \in SUBSET Nat /\ IsFiniteSet(F)
  <2>1. IsFiniteSet(1 .. Len(list)) /\ F \in SUBSET (1 .. Len(list))
    BY <1>1, FS_Interval
  <2>2. IsFiniteSet(F)
    BY <2>1, FS_Subset
  <2>3. QED
    BY <1>1, <2>2
<1>3. c \in Nat
  BY <1>2, FS_CardinalityType
<1>4. /\ \A n \in 1 .. c : Nth(n) \in F
      /\ \A n, m \in 1 .. c : Nth(n) = Nth(m) => n = m
      /\ \A i \in F : \E n \in 1 .. c : Nth(n) = i
  BY <1>2, Ranks
<1>5. q = [n \in 1 .. c |-> check_step(list[Nth(n)].target)]
  BY DEF Probes
<1>6. \A i, k \in F : list[i].target = list[k].target => i = k
  <2> SUFFICES ASSUME NEW i \in F, NEW k \in F, i < k
               PROVE  list[i].target # list[k].target
    BY <1>1
  <2>1. i \in 1 .. k - 1 /\ First(k)
    BY <1>1
  <2>2. QED
    BY <2>1
<1>7. \A i \in DOMAIN list : \E k \in F : list[k].target = list[i].target
  <2> SUFFICES ASSUME NEW i \in DOMAIN list
               PROVE  \E k \in F : list[k].target = list[i].target
    OBVIOUS
  <2> DEFINE S == {k \in DOMAIN list : list[k].target = list[i].target}
  <2>1. S \in SUBSET Nat /\ S # {}
    BY <1>1
  <2>2. PICK k \in S : \A j \in S : k <= j
    BY <2>1, Least
  <2>3. First(k)
    BY <1>1, <2>2
  <2>4. QED
    BY <2>3
<1> HIDE DEF First, Nth, c, q
<1>8. \A n \in 1 .. c : Nth(n) \in DOMAIN list
  BY <1>4
<1>9. \A n \in 1 .. c : /\ q[n] \in Step /\ q[n].type = "check"
                        /\ q[n].target = list[Nth(n)].target
  BY <1>1, <1>5, <1>8, CheckStep
<1>10. q \in Seq(Step) /\ DOMAIN q = 1 .. c
  <2>1. q \in [1 .. c -> Step]
    BY <1>5, <1>9
  <2>2. QED
    BY <1>3, <2>1
<1>11. \A i \in DOMAIN list : \E n \in DOMAIN q : q[n].target = list[i].target
  <2> SUFFICES ASSUME NEW i \in DOMAIN list
               PROVE  \E n \in 1 .. c : q[n].target = list[i].target
    BY <1>10
  <2>1. PICK k \in F : list[k].target = list[i].target
    BY <1>7
  <2>2. PICK n \in 1 .. c : Nth(n) = k
    BY <1>4
  <2>3. QED
    BY <1>9, <2>1, <2>2
<1>12. \A n, m \in DOMAIN q : q[n].target = q[m].target => n = m
  <2> SUFFICES ASSUME NEW n \in 1 .. c, NEW m \in 1 .. c, q[n].target = q[m].target
               PROVE  n = m
    BY <1>10
  <2>1. list[Nth(n)].target = list[Nth(m)].target
    BY <1>9
  <2>2. Nth(n) \in F /\ Nth(m) \in F
    BY <1>4
  <2>3. Nth(n) = Nth(m)
    BY <1>6, <2>1, <2>2
  <2>4. QED
    BY <1>4, <2>3
<1>13. QED
  BY <1>8, <1>9, <1>10, <1>11, <1>12 DEF q

-----------------------------------------------------------------------------
(* The plan. *)

\* Plan takes a request that has the list of p, whatever its StartAt and
\* DryRun, through apply_start_at and the probes.
LEMMA PlanParts ==
  ASSUME NEW p \in Inputs, NEW r, build_steps(r) = build_steps(p), r.mode = p.mode
  PROVE  LET all  == build_steps(p)
             from == apply_start_at(all.list, r.start_at)
         IN /\ Plan(r).code \in Codes
            /\ Plan(r).code # EXIT_OK => Plan(r).list = <<>>
            /\ Plan(r).code = EXIT_OK <=> all.code = EXIT_OK /\ from.code = EXIT_OK
            /\ Plan(r).code = EXIT_OK =>
                 Plan(r).list = IF r.dry_run /\ p.mode # "check"
                                THEN from.list \o Probes(from.list) ELSE from.list
<1> DEFINE all  == build_steps(p)
           from == apply_start_at(all.list, r.start_at)
           q    == Plan(r)
<1>1. q = IF all.code # EXIT_OK THEN all
          ELSE IF from.code # EXIT_OK THEN from
          ELSE IF r.dry_run /\ p.mode # "check"
               THEN Built(EXIT_OK, from.list \o Probes(from.list))
          ELSE from
  BY DEF Plan
<1>2. /\ all.code \in Codes /\ (all.code # EXIT_OK => all.list = <<>>)
      /\ all.code = EXIT_OK => Proper(all.list)
  BY BuildSteps
<1> HIDE DEF all
<1>3. all.code = EXIT_OK => /\ from.code \in Codes
                            /\ from.code # EXIT_OK => from.list = <<>>
  BY <1>2, StartAt, CodesDiffer
<1> HIDE DEF from, q
<1>4. CASE all.code # EXIT_OK
  BY <1>1, <1>2, <1>4 DEF all, from, q
<1>5. CASE all.code = EXIT_OK /\ from.code # EXIT_OK
  BY <1>1, <1>3, <1>5 DEF all, from, q
<1>6. CASE all.code = EXIT_OK /\ from.code = EXIT_OK
  <2>1. q.code = EXIT_OK
    BY <1>1, <1>6, BuiltParts
  <2>2. q.list = IF r.dry_run /\ p.mode # "check"
                 THEN from.list \o Probes(from.list) ELSE from.list
    BY <1>1, <1>6, BuiltParts
  <2>3. QED
    BY <1>6, <2>1, <2>2, CodesDiffer DEF all, from, q
<1>7. QED
  BY <1>4, <1>5, <1>6

\* StartAt and DryRun do not change what build_steps returns.
LEMMA SameList ==
  ASSUME NEW p \in Inputs, NEW start_at, NEW dry_run,
         NEW r \in {p, [p EXCEPT !.dry_run = dry_run],
                    [p EXCEPT !.start_at = start_at, !.dry_run = dry_run]}
  PROVE  build_steps(r) = build_steps(p) /\ r.mode = p.mode
<1>1. p \in Params
  BY InputsAssumption
<1>2. /\ r.mode = p.mode /\ r.target = p.target /\ r.raws = p.raws
      /\ r.pin = p.pin /\ r.timeout = p.timeout /\ r.refused = p.refused
  BY <1>1 DEF Params
<1>3. Timeout(r) = Timeout(p)
  BY <1>2 DEF Timeout
<1>4. QED
  BY <1>2, <1>3 DEF build_steps

\* The steps of an accepted plan: those of the list from some place on, with
\* the probes of their targets behind them in a dry run.
LEMMA PlanSteps ==
  ASSUME NEW p \in Inputs, Plan(p).code = EXIT_OK
  PROVE  LET all  == build_steps(p).list
             from == apply_start_at(all, p.start_at).list
         IN /\ build_steps(p).code = EXIT_OK /\ Proper(all)
            /\ from \in Seq(Step) /\ from # <<>>
            /\ \A i \in DOMAIN from : \E j \in DOMAIN all : from[i] = all[j]
            /\ Plan(p).list = IF p.dry_run /\ p.mode # "check"
                              THEN from \o Probes(from) ELSE from
            /\ Plan(p).list \in Seq(Step) /\ Plan(p).list # <<>>
            /\ \A i \in DOMAIN Plan(p).list :
                 \/ \E j \in DOMAIN all : Plan(p).list[i] = all[j]
                 \/ Plan(p).list[i].type = "check"
<1> DEFINE all  == build_steps(p).list
           from == apply_start_at(all, p.start_at).list
           list == Plan(p).list
<1>1. build_steps(p) = build_steps(p) /\ p.mode = p.mode
  OBVIOUS
<1>2. /\ build_steps(p).code = EXIT_OK
      /\ apply_start_at(all, p.start_at).code = EXIT_OK
      /\ list = IF p.dry_run /\ p.mode # "check" THEN from \o Probes(from) ELSE from
  BY <1>1, PlanParts
<1>3. Proper(all)
  BY <1>2, BuildSteps
<1> HIDE DEF all
<1>4. PICK m \in 1 .. Len(all) : from = SubSeq(all, m, Len(all))
  BY <1>2, <1>3, StartAt
<1> HIDE DEF from, list
<1>5. /\ from \in Seq(Step) /\ from # <<>>
      /\ \A i \in DOMAIN from : \E j \in DOMAIN all : from[i] = all[j]
  BY <1>3, <1>4, Suffix DEF Proper
<1>6. CASE list = from
  BY <1>2, <1>3, <1>5, <1>6 DEF all, from, list
<1>7. CASE list = from \o Probes(from)
  <2> DEFINE q == Probes(from)
  <2>1. q \in Seq(Step) /\ \A n \in DOMAIN q : q[n].type = "check"
    BY <1>5, ProbeList
  <2> HIDE DEF q
  <2>2. /\ Len(from) \in Nat \ {0} /\ Len(q) \in Nat
        /\ DOMAIN from = 1 .. Len(from) /\ DOMAIN q = 1 .. Len(q)
    BY <1>5, <2>1, LenProperties, EmptySeq
  <2>3. /\ list \in Seq(Step) /\ Len(list) = Len(from) + Len(q)
        /\ \A i \in 1 .. Len(from) + Len(q) :
             list[i] = IF i <= Len(from) THEN from[i] ELSE q[i - Len(from)]
    BY <1>5, <1>7, <2>1, ConcatProperties DEF q
  <2>4. DOMAIN list = 1 .. Len(from) + Len(q) /\ list # <<>>
    BY <2>2, <2>3, LenProperties, EmptySeq
  <2>5. \A i \in DOMAIN list : \/ \E j \in DOMAIN all : list[i] = all[j]
                               \/ list[i].type = "check"
    <3> SUFFICES ASSUME NEW i \in DOMAIN list
                 PROVE  \/ \E j \in DOMAIN all : list[i] = all[j]
                        \/ list[i].type = "check"
      OBVIOUS
    <3>1. CASE i <= Len(from)
      BY <1>5, <2>2, <2>3, <2>4, <3>1
    <3>2. CASE i > Len(from)
      <4>1. i - Len(from) \in DOMAIN q /\ list[i] = q[i - Len(from)]
        BY <2>2, <2>3, <2>4, <3>2
      <4>2. QED
        BY <2>1, <4>1
    <3>3. QED
      BY <2>2, <2>4, <3>1, <3>2
  <2>6. QED
    BY <1>2, <1>3, <1>5, <2>3, <2>4, <2>5 DEF all, from, list
<1>8. QED
  BY <1>2, <1>6, <1>7

-----------------------------------------------------------------------------
(* What a plan may be. *)

IInv == params \in Inputs /\ (plan # NotBuilt => plan = Plan(params))

\* The plan is made once, from parameters that do not change.
THEOREM Invariance == Spec => []IInv
<1>1. Init => IInv
  BY DEF Init, IInv
<1>2. IInv /\ [Next]_vars => IInv'
  BY DEF IInv, Next, Build, vars
<1>3. QED
  BY <1>1, <1>2, PTL DEF Spec

\* A plan is a list of well-formed steps, or a refusal with its exit code; an
\* accepted plan is never empty.
THEOREM TypeCorrect == Spec => []TypeOK
<1>1. IInv => TypeOK
  <2> SUFFICES ASSUME IInv, plan # NotBuilt
               PROVE  /\ plan.code \in Codes
                      /\ plan.list \in Seq(Step)
                      /\ plan.code = EXIT_OK <=> plan.list # <<>>
    BY DEF IInv, TypeOK, Codes
  <2>1. params \in Inputs /\ plan = Plan(params)
    BY DEF IInv
  <2>2. build_steps(params) = build_steps(params) /\ params.mode = params.mode
    OBVIOUS
  <2>3. plan.code \in Codes /\ (plan.code # EXIT_OK => plan.list = <<>>)
    BY <2>1, <2>2, PlanParts
  <2>4. plan.code = EXIT_OK => plan.list \in Seq(Step) /\ plan.list # <<>>
    BY <2>1, PlanSteps
  <2>5. <<>> \in Seq(Step)
    BY EmptySeq
  <2>6. QED
    BY <2>3, <2>4, <2>5
<1>2. QED
  BY <1>1, Invariance, PTL

\* Names are unique in every list that is accepted, whatever names a manifest
\* writes out and whatever is left to the defaults: a StartAt resumes at the
\* step that printed it.
THEOREM StartAtResumes == Spec => []StartAtResumesThere
<1>1. IInv => StartAtResumesThere
  <2> SUFFICES ASSUME IInv, Accepted, NEW i \in DOMAIN Whole(params).list
               PROVE  LET all  == Whole(params).list
                          from == Plan([params EXCEPT !.start_at = all[i].name,
                                                      !.dry_run = FALSE])
                      IN from.code = EXIT_OK /\ from.list = SubSeq(all, i, Len(all))
    BY DEF StartAtResumesThere
  <2> DEFINE all == build_steps(params).list
             w   == [params EXCEPT !.start_at = Absent, !.dry_run = FALSE]
             r   == [params EXCEPT !.start_at = all[i].name, !.dry_run = FALSE]
  <2>1. params \in Inputs /\ params \in Params /\ Plan(params).code = EXIT_OK
    BY InputsAssumption DEF IInv, Accepted
  <2>2. build_steps(params).code = EXIT_OK /\ Proper(all)
    BY <2>1, PlanSteps
  <2>3. /\ build_steps(w) = build_steps(params) /\ w.mode = params.mode
        /\ build_steps(r) = build_steps(params) /\ r.mode = params.mode
    BY <2>1, SameList
  <2>4. /\ w.start_at = Absent /\ ~ w.dry_run
        /\ r.start_at = all[i].name /\ ~ r.dry_run
    BY <2>1 DEF Params
  <2> HIDE DEF all, w, r
  <2>5. /\ apply_start_at(all, Absent).code = EXIT_OK
        /\ apply_start_at(all, Absent).list = all
    BY BuiltParts DEF apply_start_at
  <2>6. Plan(w).code = EXIT_OK
    BY <2>1, <2>2, <2>3, <2>4, <2>5, PlanParts DEF all
  <2>7. Plan(w).list = all
    BY <2>1, <2>3, <2>4, <2>5, <2>6, PlanParts DEF all
  <2>8. Whole(params).list = all
    BY <2>7 DEF Whole, w
  <2>9. i \in DOMAIN all
    BY <2>8
  <2>10. /\ apply_start_at(all, all[i].name).code = EXIT_OK
         /\ apply_start_at(all, all[i].name).list = SubSeq(all, i, Len(all))
    BY <2>2, <2>9, StartAtName
  <2>11. Plan(r).code = EXIT_OK
    BY <2>1, <2>2, <2>3, <2>4, <2>10, PlanParts DEF all
  <2>12. Plan(r).list = SubSeq(all, i, Len(all))
    BY <2>1, <2>3, <2>4, <2>10, <2>11, PlanParts DEF all
  <2>13. QED
    BY <2>8, <2>11, <2>12 DEF r
<1>2. QED
  BY <1>1, Invariance, PTL

\* A dry run sees the steps of the real run with the same parameters and, of
\* each target among them, one probe.
THEOREM DryRunMatches == Spec => []DryRunMatchesRun
<1>1. IInv => DryRunMatchesRun
  <2> SUFFICES ASSUME IInv, Accepted, params.dry_run, params.mode # "check"
               PROVE  LET real   == Plan([params EXCEPT !.dry_run = FALSE]).list
                          n      == Len(real)
                          probes == {i \in DOMAIN plan.list : i > n}
                      IN /\ SubSeq(plan.list, 1, n) = real
                         /\ \A i \in probes : plan.list[i].type = "check"
                         /\ \A t \in Target :
                              (\E i \in DOMAIN real : real[i].target = t)
                                <=> Cardinality({i \in probes : plan.list[i].target = t}) = 1
    BY DEF DryRunMatchesRun
  <2> DEFINE r    == [params EXCEPT !.dry_run = FALSE]
             all  == build_steps(params).list
             from == apply_start_at(all, params.start_at).list
             real == Plan(r).list
             q    == Probes(real)
             n    == Len(real)
             list == plan.list
             probes == {i \in DOMAIN list : i > n}
  <2>1. /\ params \in Inputs /\ params \in Params /\ plan = Plan(params)
        /\ Plan(params).code = EXIT_OK
    BY InputsAssumption DEF IInv, Accepted
  <2>2. from \in Seq(Step) /\ list = from \o Probes(from)
    BY <2>1, PlanSteps
  <2>3. /\ build_steps(r) = build_steps(params) /\ r.mode = params.mode
        /\ r.start_at = params.start_at /\ ~ r.dry_run
    BY <2>1, SameList DEF Params
  <2>4. params.mode = params.mode /\ build_steps(params) = build_steps(params)
    OBVIOUS
  <2> HIDE DEF r
  <2>5. Plan(r).code = EXIT_OK
    BY <2>1, <2>3, <2>4, PlanParts
  <2>6. real = from
    BY <2>1, <2>3, <2>5, PlanParts
  <2> HIDE DEF all, from, real
  <2>7. real \in Seq(Step) /\ list = real \o q
    BY <2>2, <2>6
  <2> HIDE DEF q, n, list
  <2>8. /\ q \in Seq(Step)
        /\ \A k \in DOMAIN q : /\ q[k].type = "check"
                               /\ \E i \in DOMAIN real : real[i].target = q[k].target
        /\ \A i \in DOMAIN real : \E k \in DOMAIN q : q[k].target = real[i].target
        /\ \A k, m \in DOMAIN q : q[k].target = q[m].target => k = m
    BY <2>7, ProbeList DEF q
  <2>9. /\ n \in Nat /\ Len(q) \in Nat /\ DOMAIN q = 1 .. Len(q)
        /\ DOMAIN real = 1 .. n
    BY <2>7, <2>8, LenProperties DEF n
  <2>10. /\ list \in Seq(Step) /\ Len(list) = n + Len(q)
        /\ \A i \in 1 .. n + Len(q) : list[i] = IF i <= n THEN real[i] ELSE q[i - n]
    BY <2>7, <2>8, ConcatProperties DEF n
  <2>11. DOMAIN list = 1 .. n + Len(q)
    BY <2>10, LenProperties
  <2>12. SubSeq(list, 1, n) = real
    <3>1. \A i \in 1 .. n : list[i] \in Step /\ list[i] = real[i]
      BY <2>7, <2>9, <2>10, ElementOfSeq DEF n
    <3>2. /\ SubSeq(list, 1, n) \in Seq(Step)
          /\ Len(SubSeq(list, 1, n)) = IF 1 <= n THEN n - 1 + 1 ELSE 0
          /\ \A i \in 1 .. n - 1 + 1 : SubSeq(list, 1, n)[i] = list[1 + i - 1]
      BY <2>9, <3>1, SubSeqProperties
    <3>3. /\ Len(SubSeq(list, 1, n)) = n
          /\ \A i \in 1 .. n : SubSeq(list, 1, n)[i] = real[i]
      BY <2>9, <3>1, <3>2
    <3>4. QED
      BY <2>7, <3>2, <3>3, SeqEqual DEF n
  <2>13. \A i \in probes : i - n \in DOMAIN q /\ list[i] = q[i - n]
    BY <2>9, <2>10, <2>11
  <2>14. \A k \in DOMAIN q : n + k \in probes /\ list[n + k] = q[k]
    BY <2>9, <2>10, <2>11
  <2>15. \A i \in probes : list[i].type = "check"
    BY <2>8, <2>13
  <2>16. ASSUME NEW t \in Target
         PROVE  (\E i \in DOMAIN real : real[i].target = t)
                  <=> Cardinality({i \in probes : list[i].target = t}) = 1
    <3> DEFINE P == {i \in probes : list[i].target = t}
    <3>1. ASSUME NEW i \in DOMAIN real, real[i].target = t
          PROVE  Cardinality(P) = 1
      <4>1. PICK k \in DOMAIN q : q[k].target = t
        BY <2>8, <3>1
      <4>2. n + k \in P
        BY <2>14, <4>1
      <4>3. \A j \in P : j = n + k
        <5> SUFFICES ASSUME NEW j \in P PROVE j = n + k
          OBVIOUS
        <5>1. j - n \in DOMAIN q /\ q[j - n].target = t
          BY <2>13
        <5>2. j - n = k
          BY <2>8, <4>1, <5>1
        <5>3. j \in Nat /\ k \in Nat
          BY <2>9, <2>11
        <5>4. QED
          BY <2>9, <5>2, <5>3
      <4>4. P = {n + k}
        BY <4>2, <4>3
      <4> HIDE DEF P
      <4>5. QED
        BY <4>4, FS_Singleton
    <3>2. ASSUME Cardinality(P) = 1
          PROVE  \E i \in DOMAIN real : real[i].target = t
      <4>1. P # {}
        <5> HIDE DEF P
        <5>1. QED
          BY <3>2, FS_EmptySet
      <4>2. PICK j \in probes : list[j].target = t
        BY <4>1
      <4>3. QED
        BY <2>8, <2>13, <4>2
    <3>3. QED
      BY <3>1, <3>2
  <2>17. QED
    BY <2>12, <2>15, <2>16 DEF r, real, n, list
<1>2. QED
  BY <1>1, Invariance, PTL

\* The step of Mode=run has the timeout of the parameters.
LEMMA RunTimeout ==
  ASSUME NEW p \in Inputs, p.mode = "run", p.timeout > 0,
         build_steps(p).code = EXIT_OK, NEW i \in DOMAIN build_steps(p).list
  PROVE  build_steps(p).list[i].timeout_seconds = p.timeout
<1> DEFINE raws == <<RunStep(p.raws[1])>>
<1>1. p.raws[1] \in RawStep
  BY ParamTypes, ElementOfSeq
<1>2. RunStep(p.raws[1]).timeout_seconds = Absent
  BY <1>1 DEF RunStep, RawStep
<1>3. raws \in Seq(RawStep) /\ Timeout(p) \in Nat /\ Timeout(p) = p.timeout
  BY RunStepType, ParamTypes DEF Timeout
<1>4. build_steps(p) = normalize_steps(raws, Timeout(p))
  <2>1. build_steps(p) # Rejected(EXIT_CONFIG)
    BY BuiltParts, CodesDiffer DEF Rejected
  <2>2. QED
    BY <2>1 DEF build_steps
<1>5. Len(raws) = 1 /\ raws[1] = RunStep(p.raws[1])
  OBVIOUS
<1> HIDE DEF raws
<1>6. /\ build_steps(p).list \in Seq(Step) /\ Len(build_steps(p).list) = 1
      /\ build_steps(p).list[i] = normalize_step(raws[i], i, Timeout(p))
  BY <1>3, <1>4, <1>5, AcceptedSteps DEF Proper
<1>7. i = 1
  BY <1>6, LenProperties
<1>8. QED
  BY <1>2, <1>3, <1>5, <1>6, <1>7 DEF normalize_step, OrDefault

\* No step of an accepted plan has a timeout that is not between a second and
\* two days, from whichever of the four places it comes.
THEOREM TimeoutsBounded == Spec => []TimeoutsAreBounded
<1>1. IInv => TimeoutsAreBounded
  <2> SUFFICES ASSUME IInv, Accepted, NEW i \in DOMAIN plan.list
               PROVE  LET s == plan.list[i] IN
                        /\ s.timeout_seconds \in 1 .. MAX_TIMEOUT
                        /\ s.type # "check" /\ params.mode = "run" /\ params.timeout > 0
                             => s.timeout_seconds = params.timeout
    BY DEF TimeoutsAreBounded
  <2>1. params \in Inputs /\ plan = Plan(params) /\ Plan(params).code = EXIT_OK
    BY DEF IInv, Accepted
  <2>2. /\ plan.list \in Seq(Step) /\ build_steps(params).code = EXIT_OK
        /\ \/ \E j \in DOMAIN build_steps(params).list :
                plan.list[i] = build_steps(params).list[j]
           \/ plan.list[i].type = "check"
    BY <2>1, PlanSteps
  <2>3. plan.list[i] \in Step
    BY <2>2, LenProperties, ElementOfSeq
  <2>4. plan.list[i].timeout_seconds \in 1 .. MAX_TIMEOUT
    BY <2>3 DEF Step, StepRecord
  <2>5. QED
    BY <2>1, <2>2, <2>4, RunTimeout
<1>2. QED
  BY <1>1, Invariance, PTL

-----------------------------------------------------------------------------
(* The plan of Terraform and the runner. *)

\* The runner accepts and can run a raw step exactly if Terraform's validation
\* accepts it, unless it is a shell step in one transaction.
LEMMA SameVerdict ==
  ASSUME NEW raw \in RawStep, NEW i, NEW timeout \in 1 .. MAX_TIMEOUT,
         ~ ShellInOne(raw)
  PROVE  LET s == normalize_step(raw, i, timeout) IN
           (StepVerdict(raw, i, timeout) = EXIT_OK /\ ~ TransactionRefused(s))
             <=> /\ raw.spelling = "good"
                 /\ raw.target \in Target
                 /\ \/ AllowShell
                    \/ raw.type = "sql"
                    \/ raw.type = Absent /\ raw.script \notin ShellScripts
                 /\ raw.transaction = "single" => Family[raw.target] # "mysql"
                 /\ raw.timeout_seconds = Absent
                    \/ raw.timeout_seconds \in 1 .. MAX_TIMEOUT
<1> DEFINE s == normalize_step(raw, i, timeout)
<1>1. /\ Absent # "sql" /\ Absent # "shell" /\ Absent # "single" /\ AllowShell \in BOOLEAN
  BY StepListAssumption DEF TYPES, TRANSACTIONS
<1>2. raw.type \in {"sql", "shell", Absent}
  BY DEF RawStep, TYPES
<1>3. s.target = raw.target
  BY DEF normalize_step
<1>4. /\ s.type \in {"sql", "shell"}
      /\ s.type = "shell" <=>
           raw.type = "shell" \/ (raw.type = Absent /\ raw.script \in ShellScripts)
  BY <1>1, <1>2 DEF normalize_step, OrDefault
<1>5. s.transaction = "single" <=> raw.transaction = "single"
  BY <1>1 DEF normalize_step, OrDefault
<1>6. s.timeout_seconds \in 1 .. MAX_TIMEOUT <=>
        raw.timeout_seconds = Absent \/ raw.timeout_seconds \in 1 .. MAX_TIMEOUT
  BY DEF normalize_step, OrDefault
<1>7. StepVerdict(raw, i, timeout) = EXIT_OK <=>
        /\ raw.spelling = "good" /\ raw.target \in Target
        /\ s.type = "shell" => AllowShell
        /\ s.timeout_seconds \in 1 .. MAX_TIMEOUT
  BY VerdictOK
<1>8. (s.type = "shell" => AllowShell) <=>
        \/ AllowShell
        \/ raw.type = "sql"
        \/ raw.type = Absent /\ raw.script \notin ShellScripts
  BY <1>1, <1>2, <1>4
<1>9. TransactionRefused(s) <=> raw.transaction = "single" /\ Family[raw.target] = "mysql"
  BY <1>3, <1>4, <1>5 DEF TransactionRefused, ShellInOne
<1> HIDE DEF s
<1>10. QED
  BY <1>6, <1>7, <1>8, <1>9 DEF s

\* normalize_steps and the names' validation of a runbook.
LEMMA SameNames ==
  ASSUME NEW raws \in Seq(RawStep), NEW timeout
  PROVE  RunbookNames(raws) <=>
           ~ DuplicateNames([i \in DOMAIN raws |-> normalize_step(raws[i], i, timeout)])
<1> DEFINE list == [i \in DOMAIN raws |-> normalize_step(raws[i], i, timeout)]
           name == [i \in DOMAIN raws |-> OrDefault(raws[i].name, StepName[i])]
<1>1. DOMAIN raws = 1 .. Len(raws) /\ Len(raws) \in Nat
  BY LenProperties
<1>2. \A i \in DOMAIN raws : list[i].name = name[i]
  BY DEF normalize_step
<1>3. RunbookNames(raws) <=> \A i, j \in DOMAIN raws : i # j => name[i] # name[j]
  BY DEF RunbookNames
<1>4. DuplicateNames(list) <=>
        \E i, j \in DOMAIN raws : i < j /\ list[i].name = list[j].name
  BY DEF DuplicateNames
<1> HIDE DEF list, name
<1>5. RunbookNames(raws) <=> ~ DuplicateNames(list)
  BY <1>1, <1>2, <1>3, <1>4
<1>6. QED
  BY <1>5 DEF list

LEMMA NotRefused ==
  ASSUME NEW step, step.type = "check"
  PROVE  ~ TransactionRefused(step)
  BY DEF TransactionRefused

\* The runner accepts the steps of a manifest, and can run each, exactly if
\* Terraform accepts them as a runbook: two programs in two languages, and the
\* only key on which they differ is the transaction of a shell step.
THEOREM RunnerAgrees == Spec => []RunnerAgreesWithThePlan
<1>1. IInv => RunnerAgreesWithThePlan
  <2> SUFFICES ASSUME IInv, plan # NotBuilt,
                      params.mode \in {"runbook", "manifest"},
                      params.refused = "no", params.pin # "mismatch",
                      params.start_at = Absent,
                      params.timeout <= MAX_TIMEOUT,
                      \A i \in DOMAIN params.raws : ~ ShellInOne(params.raws[i])
               PROVE  (Accepted /\ \A i \in DOMAIN plan.list : ~ TransactionRefused(plan.list[i]))
                        <=> RunbookValid(params.raws)
    BY DEF RunnerAgreesWithThePlan
  <2> DEFINE raws    == params.raws
             timeout == Timeout(params)
             all     == build_steps(params)
             list    == [i \in DOMAIN raws |-> normalize_step(raws[i], i, timeout)]
             Runs(l) == \A i \in DOMAIN l : ~ TransactionRefused(l[i])
  <2>1. /\ params \in Inputs /\ plan = Plan(params)
        /\ raws \in Seq(RawStep) /\ timeout \in Nat
    BY ParamTypes DEF IInv
  <2>2. timeout \in 1 .. MAX_TIMEOUT
    BY <2>1, ParamTypes, StepListAssumption DEF Timeout
  <2>3. all = normalize_steps(raws, timeout)
    BY DEF build_steps
  <2> HIDE DEF timeout, all
  <2>4. /\ apply_start_at(all.list, Absent).code = EXIT_OK
        /\ apply_start_at(all.list, Absent).list = all.list
    BY BuiltParts DEF apply_start_at
  <2>5. Accepted <=> all.code = EXIT_OK
    <3>1. build_steps(params) = all /\ params.mode = params.mode
      BY DEF all
    <3>2. Plan(params).code = EXIT_OK <=> all.code = EXIT_OK
      BY <2>1, <2>4, <3>1, PlanParts
    <3>3. QED
      BY <2>1, <3>2 DEF Accepted
  <2>6. all.code = EXIT_OK => (Runs(plan.list) <=> Runs(all.list))
    <3> SUFFICES ASSUME all.code = EXIT_OK PROVE Runs(plan.list) <=> Runs(all.list)
      OBVIOUS
    <3>1. /\ all.list \in Seq(Step)
          /\ plan.list = IF params.dry_run /\ params.mode # "check"
                         THEN all.list \o Probes(all.list) ELSE all.list
          /\ \A i \in DOMAIN plan.list :
               \/ \E j \in DOMAIN all.list : plan.list[i] = all.list[j]
               \/ plan.list[i].type = "check"
      BY <2>1, <2>4, <2>5, PlanSteps DEF all, Accepted, Proper
    <3>2. Runs(all.list) => Runs(plan.list)
      BY <3>1, NotRefused
    <3>3. \A j \in DOMAIN all.list : j \in DOMAIN plan.list /\ plan.list[j] = all.list[j]
      <4>1. CASE plan.list = all.list
        BY <4>1
      <4>2. CASE plan.list = all.list \o Probes(all.list)
        <5> DEFINE a == all.list
                   q == Probes(a)
        <5>1. a \in Seq(Step) /\ q \in Seq(Step)
          BY <3>1, ProbeList
        <5> HIDE DEF a, q
        <5>2. /\ a \o q \in Seq(Step) /\ Len(a \o q) = Len(a) + Len(q)
              /\ \A i \in 1 .. Len(a) + Len(q) :
                   (a \o q)[i] = IF i <= Len(a) THEN a[i] ELSE q[i - Len(a)]
          BY <5>1, ConcatProperties
        <5>3. /\ DOMAIN a = 1 .. Len(a) /\ Len(a) \in Nat /\ Len(q) \in Nat
              /\ DOMAIN (a \o q) = 1 .. Len(a) + Len(q)
          BY <5>1, <5>2, LenProperties
        <5>4. \A j \in DOMAIN a : j \in DOMAIN (a \o q) /\ (a \o q)[j] = a[j]
          BY <5>2, <5>3
        <5>5. QED
          BY <4>2, <5>4 DEF a, q
      <4>3. QED
        BY <3>1, <4>1, <4>2
    <3>4. Runs(plan.list) => Runs(all.list)
      BY <3>3
    <3>5. QED
      BY <3>2, <3>4
  <2> DEFINE Good(i) == StepVerdict(raws[i], i, timeout) = EXIT_OK
  <2>7. /\ all.code = EXIT_OK <=> /\ Len(raws) \in 1 .. MaxSteps
                                  /\ \A i \in DOMAIN raws : Good(i)
                                  /\ ~ DuplicateNames(list)
        /\ all.code = EXIT_OK => all.list = list
    BY <2>1, <2>3, NormalizeSteps
  <2>8. RunbookNames(raws) <=> ~ DuplicateNames(list)
    BY <2>1, SameNames
  <2> DEFINE Valid(raw) ==
               /\ raw.spelling = "good"
               /\ raw.target \in Target
               /\ \/ AllowShell
                  \/ raw.type = "sql"
                  \/ raw.type = Absent /\ raw.script \notin ShellScripts
               /\ raw.transaction = "single" => Family[raw.target] # "mysql"
               /\ raw.timeout_seconds = Absent \/ raw.timeout_seconds \in 1 .. MAX_TIMEOUT
  <2>9. \A i \in DOMAIN raws :
          (Good(i) /\ ~ TransactionRefused(normalize_step(raws[i], i, timeout)))
            <=> Valid(raws[i])
    <3> SUFFICES ASSUME NEW i \in DOMAIN raws
                 PROVE  (Good(i) /\ ~ TransactionRefused(normalize_step(raws[i], i, timeout)))
                          <=> Valid(raws[i])
      OBVIOUS
    <3>1. raws[i] \in RawStep
      BY <2>1, LenProperties, ElementOfSeq
    <3>2. ~ ShellInOne(raws[i])
      OBVIOUS
    <3>3. QED
      BY <2>2, <3>1, <3>2, SameVerdict
  <2>10. RunbookValid(raws) <=>
           /\ Len(raws) \in 1 .. MaxSteps
           /\ RunbookNames(raws)
           /\ \A i \in DOMAIN raws : Valid(raws[i])
    BY DEF RunbookValid
  <2>11. Runs(list) <=>
           \A i \in DOMAIN raws : ~ TransactionRefused(normalize_step(raws[i], i, timeout))
    OBVIOUS
  <2> HIDE DEF Good, Valid, raws, list
  <2>12. (Accepted /\ Runs(plan.list)) <=> RunbookValid(raws)
    <3> HIDE DEF Runs
    <3>1. (Accepted /\ Runs(plan.list)) <=> all.code = EXIT_OK /\ Runs(list)
      BY <2>5, <2>6, <2>7
    <3>2. QED
      BY <2>7, <2>8, <2>9, <2>10, <2>11, <3>1
  <2>13. QED
    BY <2>12 DEF raws
<1>2. QED
  BY <1>1, Invariance, PTL

-----------------------------------------------------------------------------
(* What Runner and Migration take for granted of the lists they are given.  *)

LEMMA SuffixDistinct ==
  ASSUME NEW list, Proper(list), NEW m \in 1 .. Len(list)
  PROVE  Distinct(SubSeq(list, m, Len(list)))
<1> DEFINE rest == SubSeq(list, m, Len(list))
<1>1. list \in Seq(Step) /\ Len(list) \in Nat /\ DOMAIN list = 1 .. Len(list)
  BY LenProperties DEF Proper
<1>2. \A i \in m .. Len(list) : list[i] \in Step
  BY <1>1, ElementOfSeq
<1>3. /\ rest \in Seq(Step) /\ Len(rest) = Len(list) - m + 1
      /\ \A i \in 1 .. Len(list) - m + 1 : rest[i] = list[m + i - 1]
  BY <1>1, <1>2, SubSeqProperties
<1> HIDE DEF rest
<1>4. DOMAIN rest = 1 .. Len(list) - m + 1
  BY <1>3, LenProperties
<1>5. \A i \in DOMAIN rest : m + i - 1 \in DOMAIN list /\ rest[i] = list[m + i - 1]
  BY <1>1, <1>3, <1>4
<1>6. ASSUME NEW i \in DOMAIN rest, NEW j \in DOMAIN rest, rest[i].name = rest[j].name
      PROVE  i = j
  <2>1. m + i - 1 = m + j - 1
    BY <1>5, <1>6 DEF Proper, Distinct
  <2>2. QED
    BY <1>1, <1>4, <2>1
<1>7. Distinct(rest)
  BY <1>6 DEF Distinct
<1>8. QED
  BY <1>7 DEF rest

\* The probes of a dry run reach every target of the list they follow.
LEMMA ProbesReachAll ==
  ASSUME NEW list \in Seq(Step), list # <<>>
  PROVE  LET all == list \o Probes(list) IN
           \A i \in DOMAIN all : \E j \in DOMAIN all :
             all[j].type = "check" /\ all[j].target = all[i].target
<1> DEFINE q   == Probes(list)
           all == list \o q
<1>1. /\ q \in Seq(Step)
      /\ \A n \in DOMAIN q : q[n].type = "check"
      /\ \A i \in DOMAIN list : \E n \in DOMAIN q : q[n].target = list[i].target
  BY ProbeList
<1> HIDE DEF q
<1>2. /\ all \in Seq(Step) /\ Len(all) = Len(list) + Len(q)
      /\ \A i \in 1 .. Len(list) + Len(q) :
           all[i] = IF i <= Len(list) THEN list[i] ELSE q[i - Len(list)]
  BY <1>1, ConcatProperties
<1> HIDE DEF all
<1>3. /\ DOMAIN list = 1 .. Len(list) /\ Len(list) \in Nat
      /\ DOMAIN q = 1 .. Len(q) /\ Len(q) \in Nat
      /\ DOMAIN all = 1 .. Len(list) + Len(q)
  BY <1>1, <1>2, LenProperties
<1>4. \A n \in DOMAIN q : Len(list) + n \in DOMAIN all /\ all[Len(list) + n] = q[n]
  BY <1>2, <1>3
<1>5. ASSUME NEW i \in DOMAIN all
      PROVE  \E j \in DOMAIN all : all[j].type = "check" /\ all[j].target = all[i].target
  <2>1. CASE i <= Len(list)
    <3>1. i \in DOMAIN list /\ all[i] = list[i]
      BY <1>2, <1>3, <2>1
    <3>2. PICK n \in DOMAIN q : q[n].target = list[i].target
      BY <1>1, <3>1
    <3>3. QED
      BY <1>1, <1>4, <3>1, <3>2
  <2>2. CASE i > Len(list)
    <3>1. i - Len(list) \in DOMAIN q /\ all[i] = q[i - Len(list)]
      BY <1>2, <1>3, <2>2
    <3>2. QED
      BY <1>1, <3>1
  <2>3. QED
    BY <1>3, <2>1, <2>2
<1>6. QED
  BY <1>5 DEF all, q

\* Every accepted plan is a request of Runner: a list that is not empty, with a
\* probe for each of its targets if it is a dry run's (what DryRunProves
\* assumes), and with names that differ if it is not (MigrationAssumption).
THEOREM PlansFitTheRunner ==
  ASSUME NEW p \in Inputs, Plan(p).code = EXIT_OK
  PROVE  LET list == Plan(p).list
             dry  == p.dry_run /\ p.mode # "check"
         IN /\ list \in Seq(Step) \ {<<>>}
            /\ dry => \A i \in DOMAIN list : \E j \in DOMAIN list :
                        list[j].type = "check" /\ list[j].target = list[i].target
            /\ ~ dry => Distinct(list)
<1> DEFINE all  == build_steps(p).list
           from == apply_start_at(all, p.start_at).list
           list == Plan(p).list
           dry  == p.dry_run /\ p.mode # "check"
<1>1. /\ Proper(all) /\ from \in Seq(Step) /\ from # <<>>
      /\ list = IF dry THEN from \o Probes(from) ELSE from
      /\ list \in Seq(Step) /\ list # <<>>
  BY PlanSteps
<1>2. build_steps(p) = build_steps(p) /\ p.mode = p.mode
  OBVIOUS
<1>3. apply_start_at(all, p.start_at).code = EXIT_OK
  BY <1>2, PlanParts
<1> HIDE DEF all, list, dry
<1>4. PICK m \in 1 .. Len(all) : from = SubSeq(all, m, Len(all))
  BY <1>1, <1>3, StartAt
<1>5. Distinct(from)
  BY <1>1, <1>4, SuffixDistinct
<1> HIDE DEF from
<1>6. dry => \A i \in DOMAIN list : \E j \in DOMAIN list :
               list[j].type = "check" /\ list[j].target = list[i].target
  BY <1>1, ProbesReachAll
<1>7. QED
  BY <1>1, <1>5, <1>6 DEF list, dry
=============================================================================

------------------------------ MODULE StepList ------------------------------
(***************************************************************************)
(* How scripts/runner.py turns its parameters into the list of steps it    *)
(* will run: normalize_step(s), build_steps, apply_start_at and the probes *)
(* that run() appends for a dry run.                                       *)
(***************************************************************************)
EXTENDS Steps, FiniteSets

CONSTANTS
  Absent,           \* a key that a runbook or manifest leaves out
  TargetSeq,        \* sorted(cfg["targets"])
  StepName,         \* StepName[i] is "step-<i>"
  CheckName,        \* CheckName[t] is "check-<t>"
  RunName,          \* "run", the step of Mode=run
  ShellScripts,     \* the keys that end in .sh
  MaxSteps,         \* MAX_STEPS
  DefaultTimeout,   \* cfg["default_timeout_seconds"]
  AllowShell        \* cfg["allow_shell_steps"]

ASSUME StepListAssumption ==
  /\ Target # {} /\ TargetSeq \in Seq(Target)
  /\ {TargetSeq[i] : i \in DOMAIN TargetSeq} = Target
  /\ \A i, j \in DOMAIN TargetSeq : TargetSeq[i] = TargetSeq[j] => i = j
  /\ CheckName \in [Target -> Name]
  /\ \A t, u \in Target : CheckName[t] = CheckName[u] => t = u
  /\ MaxSteps \in Nat /\ StepName \in [1 .. MaxSteps -> Name]
  /\ \A i, j \in 1 .. MaxSteps : StepName[i] = StepName[j] => i = j
  /\ RunName \in Name
  /\ ShellScripts \subseteq Script
  /\ Absent \notin Name \cup TYPES \cup TRANSACTIONS \cup ON_ERROR
  /\ DefaultTimeout \in 1 .. MAX_TIMEOUT
  /\ AllowShell \in BOOLEAN

\* Checks that only look at the spelling of one key (unknown keys, the name,
\* key, hash and variable patterns) are one field here: "bad" if one of them
\* raises RunError, "mistyped" if a value has a JSON type on which the check
\* itself breaks, such as a number for the name.
RawStep ==
  [spelling        : {"good", "bad", "mistyped"},
   name            : Name \cup {Absent},
   target          : Target \cup {Absent},
   script          : Script,
   sha256          : Content \cup {NoSha},
   type            : TYPES \cup {Absent},
   transaction     : TRANSACTIONS \cup {Absent},
   timeout_seconds : Int \cup {Absent},
   on_error        : ON_ERROR \cup {Absent}]

Built(code, list) == [code |-> code, list |-> list]
Rejected(code)    == Built(code, <<>>)

OrDefault(value, default) == IF value = Absent THEN default ELSE value

-----------------------------------------------------------------------------
normalize_step(raw, i, timeout) ==
  [name            |-> OrDefault(raw.name, StepName[i]),
   target          |-> raw.target,
   script          |-> raw.script,
   sha256          |-> raw.sha256,
   type            |-> OrDefault(raw.type,
                         IF raw.script \in ShellScripts THEN "shell" ELSE "sql"),
   transaction     |-> OrDefault(raw.transaction, "auto"),
   timeout_seconds |-> OrDefault(raw.timeout_seconds, timeout),
   on_error        |-> OrDefault(raw.on_error, "stop")]

\* (Slip: the timeout's lower bound is off by one.)
StepVerdict_ZeroTimeout(raw, i, timeout) ==
  LET step == normalize_step(raw, i, timeout) IN
    IF raw.spelling = "mistyped" THEN EXIT_UNEXPECTED
    ELSE IF /\ raw.spelling = "good"
            /\ step.target \in Target
            /\ step.type = "shell" => AllowShell
            /\ step.timeout_seconds \in 0 .. MAX_TIMEOUT
         THEN EXIT_OK
         ELSE EXIT_CONFIG

\* The code normalize_step ends with; EXIT_OK if it returns a step.
StepVerdict(raw, i, timeout) ==
  LET step == normalize_step(raw, i, timeout) IN
    IF raw.spelling = "mistyped" THEN EXIT_UNEXPECTED
    ELSE IF /\ raw.spelling = "good"
            /\ step.target \in Target
            /\ step.type = "shell" => AllowShell
            /\ step.timeout_seconds \in 1 .. MAX_TIMEOUT
         THEN EXIT_OK
         ELSE EXIT_CONFIG

\* (Slip: only neighbours are compared.)
DuplicateNames_Neighbours(list) ==
  \E i \in DOMAIN list : i + 1 \in DOMAIN list
                      /\ list[i].name = list[i + 1].name

DuplicateNames(list) ==
  \E i, j \in DOMAIN list : i < j /\ list[i].name = list[j].name

\* The steps are normalised in order and the first bad one ends the run.
normalize_steps(raws, timeout) ==
  LET list    == [i \in DOMAIN raws |-> normalize_step(raws[i], i, timeout)]
      Code(i) == StepVerdict(raws[i], i, timeout)
      bad     == {i \in DOMAIN raws : Code(i) # EXIT_OK}
  IN
    IF Len(raws) \notin 1 .. MaxSteps THEN Rejected(EXIT_CONFIG)
    ELSE IF bad # {}
         THEN Rejected(Code(CHOOSE i \in bad : \A j \in bad : i <= j))
    ELSE IF DuplicateNames(list) THEN Rejected(EXIT_CONFIG)
    ELSE Built(EXIT_OK, list)

\* (Slip: only names that are written out are compared.)
RunbookNames_Written(raws) ==
  \A i, j \in DOMAIN raws :
    i # j => raws[i].name = Absent \/ raws[i].name # raws[j].name

\* Terraform's idea of the names of a runbook's steps: they differ.
RunbookNames(raws) ==
  LET name == [i \in DOMAIN raws |-> OrDefault(raws[i].name, StepName[i])]
  IN \A i, j \in DOMAIN raws : i # j => name[i] # name[j]

\* The validations of variable "runbooks": what a plan lets through. They
\* repeat the runner's checks in another language. A key that a runbook leaves
\* at "" or 0 is not handed to the runner at all: here it is Absent.
RunbookValid(raws) ==
  /\ Len(raws) \in 1 .. MaxSteps
  /\ RunbookNames(raws)
  /\ \A i \in DOMAIN raws :
       LET raw == raws[i] IN
         /\ raw.spelling = "good"
         /\ raw.target \in Target
         /\ \/ AllowShell
            \/ raw.type = "sql"
            \/ raw.type = Absent /\ raw.script \notin ShellScripts
         /\ raw.transaction = "single" => Family[raw.target] # "mysql"
         /\ raw.timeout_seconds = Absent \/ raw.timeout_seconds \in 1 .. MAX_TIMEOUT

-----------------------------------------------------------------------------
check_step(t) ==
  [name            |-> CheckName[t],
   target          |-> t,
   script          |-> NoScript,
   sha256          |-> NoSha,
   type            |-> "check",
   transaction     |-> "none",
   timeout_seconds |-> 120,
   on_error        |-> "continue"]

\* The parameters of the SSM document. `raws` is the runbook named, the steps
\* of the manifest or the script of Mode=run, `pin` whether the manifest
\* matches ExpectedSha256. What build_steps refuses before it has any steps is
\* one field: a "request" that names no known mode, target, runbook or key, or a
\* manifest where none is allowed or there; a "manifest" that was read and is
\* no JSON object of the known keys.
Params ==
  [mode          : {"check", "run", "runbook", "manifest"},
   refused       : {"no", "request", "manifest"},
   target        : Target \cup {Absent},
   raws          : Seq(RawStep),
   pin           : {"unset", "match", "mismatch"},
   start_at      : Name \cup {Absent},
   dry_run       : BOOLEAN,
   timeout       : Nat]

\* (Slip: StepTimeoutSeconds can only raise the default.)
Timeout_OnlyRaises(p) ==
  IF p.timeout > DefaultTimeout THEN p.timeout ELSE DefaultTimeout

\* StepTimeoutSeconds replaces the default that steps fall back on.
Timeout(p) == IF p.timeout > 0 THEN p.timeout ELSE DefaultTimeout

\* Mode=run passes its parameters off as the one raw step of a list.
RunStep(raw) ==
  [raw EXCEPT !.name = RunName, !.type = Absent,
              !.timeout_seconds = Absent, !.on_error = Absent]

\* A manifest is compared with its pin before anything in it is looked at.
build_steps(p) ==
  IF p.refused = "request" THEN Rejected(EXIT_CONFIG)
  ELSE IF p.mode = "check"
  THEN IF p.target = Absent
       THEN Built(EXIT_OK, [i \in DOMAIN TargetSeq |-> check_step(TargetSeq[i])])
       ELSE Built(EXIT_OK, <<check_step(p.target)>>)
  ELSE IF p.mode = "manifest" /\ p.pin = "mismatch" THEN Rejected(EXIT_INTEGRITY)
  ELSE IF p.mode = "manifest" /\ p.refused = "manifest" THEN Rejected(EXIT_CONFIG)
  ELSE IF p.mode = "run"
       THEN normalize_steps(<<RunStep(p.raws[1])>>, Timeout(p))
  ELSE normalize_steps(p.raws, Timeout(p))

\* The list from the first step of that name on.
apply_start_at(list, start_at) ==
  IF start_at = Absent THEN Built(EXIT_OK, list)
  ELSE LET named == {i \in DOMAIN list : list[i].name = start_at} IN
    IF named = {} THEN Rejected(EXIT_CONFIG)
    ELSE Built(EXIT_OK, SubSeq(list, CHOOSE i \in named : \A j \in named : i <= j,
                               Len(list)))

\* (Slip: a probe for each step.)
Probes_PerStep(list) == [i \in DOMAIN list |-> check_step(list[i].target)]

\* One probe for each target of the list, in the order of first use.
Probes(list) ==
  LET First(i) == \A j \in 1 .. i - 1 : list[j].target # list[i].target
      first    == {i \in DOMAIN list : First(i)}
      Nth(n)   == CHOOSE i \in first : Cardinality({j \in first : j <= i}) = n
  IN [n \in 1 .. Cardinality(first) |-> check_step(list[Nth(n)].target)]

\* run() up to its loop: the whole of what the parameters decide.
Plan(p) ==
  LET built == build_steps(p)
      from  == apply_start_at(built.list, p.start_at)
  IN
    IF built.code # EXIT_OK THEN built
    ELSE IF from.code # EXIT_OK THEN from
    ELSE IF p.dry_run /\ p.mode # "check"
         THEN Built(EXIT_OK, from.list \o Probes(from.list))
         ELSE from
=============================================================================

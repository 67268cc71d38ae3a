--------------------------- MODULE StepListCheck ---------------------------
(***************************************************************************)
(* The step list of StepList.tla as a one-step program: any parameters in, *)
(* the plan out. The properties compare the plan with what README.md says  *)
(* a StartAt, a dry run and a validated list are.                          *)
(***************************************************************************)
EXTENDS StepList

CONSTANTS
  Inputs,    \* the parameters tried: a subset of Params
  NotBuilt   \* the plan before run() has made it

\* Runbooks were accepted by a plan; only a manifest is free-form JSON.
ASSUME InputsAssumption ==
  /\ Inputs \subseteq Params
  /\ \A p \in Inputs : p.mode = "runbook" => RunbookValid(p.raws)
  /\ \A p \in Inputs : p.mode = "run" =>
       Len(p.raws) = 1 /\ p.raws[1].spelling # "mistyped"

VARIABLES params, plan

vars == <<params, plan>>

Init == params \in Inputs /\ plan = NotBuilt

Build ==
  /\ plan = NotBuilt
  /\ plan' = Plan(params)
  /\ UNCHANGED params

Next == Build

Spec == Init /\ [][Next]_vars

Accepted == plan # NotBuilt /\ plan.code = EXIT_OK

Whole(p) == Plan([p EXCEPT !.start_at = Absent, !.dry_run = FALSE])

-----------------------------------------------------------------------------
TypeOK ==
  /\ params \in Inputs
  /\ plan # NotBuilt =>
       /\ plan.code \in {EXIT_OK, EXIT_UNEXPECTED, EXIT_INTEGRITY, EXIT_CONFIG}
       /\ plan.list \in Seq(Step)
       /\ plan.code = EXIT_OK <=> plan.list # <<>>

\* A StartAt taken from the log of an earlier run resumes at the step that
\* printed it and at no other: names are unique in every accepted list, the
\* defaulted ones included. (normalize_steps, apply_start_at)
StartAtResumesThere ==
  Accepted =>
    LET all == Whole(params).list IN
      \A i \in DOMAIN all :
        LET from == Plan([params EXCEPT !.start_at = all[i].name,
                                        !.dry_run = FALSE]) IN
          from.code = EXIT_OK /\ from.list = SubSeq(all, i, Len(all))

\* A dry run looks at exactly the steps the real run with the same parameters
\* would take, and then at each of their targets once.
DryRunMatchesRun ==
  Accepted /\ params.dry_run /\ params.mode # "check" =>
    LET real   == Plan([params EXCEPT !.dry_run = FALSE]).list
        n      == Len(real)
        probes == {i \in DOMAIN plan.list : i > n}
    IN
      /\ SubSeq(plan.list, 1, n) = real
      /\ \A i \in probes : plan.list[i].type = "check"
      /\ \A t \in Target :
           (\E i \in DOMAIN real : real[i].target = t)
             <=> Cardinality({i \in probes : plan.list[i].target = t}) = 1

\* A step that states no timeout gets StepTimeoutSeconds or the configured
\* default; none is unbounded or beyond two days, however it was given.
TimeoutsAreBounded ==
  Accepted => \A i \in DOMAIN plan.list :
    LET s == plan.list[i] IN
      /\ s.timeout_seconds \in 1 .. MAX_TIMEOUT
      /\ s.type # "check" /\ params.mode = "run" /\ params.timeout > 0
           => s.timeout_seconds = params.timeout

\* Only the plan looks at the transaction of a shell step.
ShellInOne(raw) ==
  /\ raw.transaction = "single"
  /\ raw.type = "shell" \/ (raw.type = Absent /\ raw.script \in ShellScripts)

\* The runner and the Terraform plan check the same things in two languages.
\* They agree: a list the plan accepts as a runbook is accepted and runnable,
\* and any other list is refused, when the run starts or at the step. (Where
\* there is a list at all.)
RunnerAgreesWithThePlan ==
  /\ plan # NotBuilt
  /\ params.mode \in {"runbook", "manifest"}
  /\ params.refused = "no" /\ params.pin # "mismatch"
  /\ params.start_at = Absent
  /\ params.timeout <= MAX_TIMEOUT
  /\ \A i \in DOMAIN params.raws : ~ ShellInOne(params.raws[i])
  => (Accepted /\ \A i \in DOMAIN plan.list : ~ TransactionRefused(plan.list[i]))
       <=> RunbookValid(params.raws)
=============================================================================

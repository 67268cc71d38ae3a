# TLA+ models of terraform-shared-modules

The repository is a collection of some forty Terraform modules. Most of it is
declarative: Terraform evaluates it, and there is no order or state of its own
to get wrong. A few programs in it are different. They run against databases,
are interrupted, time out, are run again, and what they leave behind matters.
These models are about those programs: the runner of `dms-sql-bastion` first,
then the two functions of `agent-warden`, the function behind Aurora's IAM users,
and the check that keeps the repository's own conventions from slipping.

Paths below are relative to the repository's root; `runner.py` is
`modules/dms-sql-bastion/scripts/runner.py` and `index.py` is
`modules/aurora/lambda/iam_database_users/index.py`; `check_governance.py` is in
`scripts/`.

1. [Inventory](#1-inventory)
2. [The modules and the code](#2-the-modules-and-the-code)
3. [The runs](#3-the-runs)
4. [Fairness](#4-fairness)
5. [The proofs](#5-the-proofs)
6. [Where code and documentation disagree](#6-where-code-and-documentation-disagree)
7. [What is not modelled](#7-what-is-not-modelled)
8. [Plan](#8-plan)

## 1. Inventory

### dms-sql-bastion: the SQL runner

`scripts/launcher.sh.tftpl` is started by an SSM Run Command. It writes the
runner and its configuration to the instance and runs it. The runner takes the
document's parameters, makes a list of steps, and runs them one after another.

| Part | State | Operations | Talks to |
|---|---|---|---|
| step list | none: parameters in, list out | `read_params`, `build_steps`, `normalize_steps`, `apply_start_at`, probes of a dry run | the runbooks that Terraform validated; a manifest in S3 |
| run | the loop's index, results, `first_failure`; `Credentials._cache`; the step's file in the work directory; `_current["proc"]` | `main`, `run`, `fetch_object`, `execute`, `run_client`, `_kill_group`, `_on_signal` | AWS CLI, a client process in a session of its own, signals |
| client and database | the process group, the session, what is committed | not in the repository | the runner waits for the process, never for the session |
| operator | the log of the last run | run a list, resume it with `StartAt` | the runner, through SSM |
| output | masked words, option files | `Masker`, `log`, `describe`, `write_mysql_option_file` | the log |

What is hard: a signal may interrupt the main thread between any two of its
operations, also between the start of a client and the assignment that makes
the client known to the handler; a client may ignore SIGTERM; a client's end
races with its timeout; killing a client does not stop the statement the server
is executing; the instance may be lost at any point; a list may be resumed with
nothing but the name of a step.

What makes it correct: steps run one at a time, in order, and none beyond a
failure that may not be passed; exit 0 means that everything was carried out; a
script runs with the content it is pinned to; a run ends, and stops what it has
started; the `StartAt` of the log is neither too early nor too late.

### aurora: IAM database users

| Part | State | Operations | Talks to |
|---|---|---|---|
| function (`index.py`) | none of its own | `handler`, `ensure` and `remove` for PostgreSQL and MySQL, `Database.execute` with its retries | Data API |
| invocation (`iam-database-users.tf`) | the last input, in Terraform's state | create, update with the previous input, delete | the function |
| engine | the accounts | not in the repository | people change accounts too |

What is hard: the function may be cut off at any call; a call may report an
error and still take effect, at once or (with `continueAfterTimeout`) much
later, during the next invocation; who has to leave is computed from one earlier
input; accounts change between the lookup and the statement chosen from it.

What makes it correct: after an apply the listed users exist and have token
login; those who left are as their `on_remove` says; nobody else loses a login.

### The governance ratchet

| Part | State | Operations | Talks to |
|---|---|---|---|
| reader (`strip_hcl`, `blocks`, `has_attr`) | the place in a file | one pass over the text | the language, which reads the same file |
| rules (`check`) | none: a tree in, violations out | eleven rules about modules, one about documents | files, the CI matrix, git's remote |
| baseline (`load_baseline`, `write_baseline`, `report`) | accepted violations, a file of the tree | compare, rewrite | authors, who remove or regenerate entries |
| CI (`governance.yml`, branch protection) | main, open pull requests | check at push, merge later | git, which merges the baseline like any file |

What is hard: one quote read differently from the language, and the rest of the
file is text to the check; debt must not come back under an old entry after any
series of fixes, deletions, returns and rewrites of the file; a pull request is
checked against a main that is not the one it is merged into.

What makes it correct: the reader finds what the language would; the baseline
is the debt of main; what was fixed stays fixed.

### agent-warden

| Part | State | Operations | Talks to |
|---|---|---|---|
| containment (`lambda/killswitch`, `budget.tf`, `main.tf`) | the role's inline policies, its boundary, `kill_switch`, a planned run of Terraform | the budget's notice, the function with its retries, plan and apply, deletion by hand | Budgets, SNS, Lambda, IAM, people |
| digest (`lambda/digest`) | a run's pages and its time budget | one run a day, retried | CloudTrail, which shows events late |

What is hard: the emergency policy is attached outside Terraform, and an apply
with `exclusive_inline_policies`, which may be turned on in the middle of an
incident, removes what it does not know; plans are made from a state that has changed when they are applied, and may end halfway; the
function may fail after its call took effect. The digest must not present an
incomplete count as a complete one.

What makes it correct: a contained role stays contained until people release
it; a breach of the final threshold contains it or pages somebody; a digest is
complete or says that it is not.

### The rest

| Component | State and operations | Hard part | Correct when | Here |
|---|---|---|---|---|
| release gate, `scripts/tf-modules.sh`, `release.yml` | tags, the changelog heading, the work tree | what is checked before a tag and after it differs; tag and head may move | a published release is what was checked | not modelled |
| gitlab-runner-fargate entrypoints | `runner_pid` | a signal before `runner_pid` is set | SIGTERM drains | hazard listed |
| gitlab-runner manager boot | a boot script, one EXIT trap | none concurrent | it reports once | not modelled |
| Terraform modules | expressions | evaluated by Terraform | their own `tftest` files | not modelled |
| repository tooling, workflows, linters | none | straight-line | | not modelled |

`PROJECT.json` lists every hazard at its line, with the properties that cover
it or the reason why none does.

## 2. The modules and the code

```
Steps ──┬── StepList ── StepListCheck ──┬── MCStepList
        │                               └── StepListProofs
        ├── Runner ─────┬── MCRunner (with StepList)
        │               ├── RunnerProofs ── RunnerOutcomes
        │               └── Migration ──┬── MCMigration (with StepList)
        │                               └── MigrationProofs (with RunnerOutcomes)
        └── (vocabulary, exit codes, resolve_transaction)
OrderedSteps   the promise of a run; instantiated by Runner
IamUsers ──┬── MCIamUsers
           └── IamUsersProofs
HclScan ──┬── Governance ──┬── MCGovernance
          │                └── GovernanceProofs (with HclScanProofs)
          └── HclScanProofs
Containment ─┬─ Warden ─┬── MCWarden
Digest ──────┘          └── WardenProofs
```

**Steps** has what the other modules share: a normalised step, the exit codes,
and `resolve_transaction`.

**StepList** is the first half of the runner, as operators. A raw step is a
record in which `Absent` stands for a key that is left out; all checks that look
only at the spelling of one key are the one field `spelling`. `Plan(p)` is what
`run()` has before its loop: a list, or the code it ends with. What else makes
`build_steps` refuse a request (an unknown target, runbook or `Mode`, manifests
that are disabled, a manifest that is no JSON or has unknown keys) is the field
`refused`, which says whether that comes before or after the manifest's pin is
compared. `RunbookValid`
is the other implementation of the same checks, the validation blocks of
`variable "runbooks"`. **StepListCheck** makes a one-step machine of it.
`ShellInOne` is the one case in which the two differ, and is left out of the
comparison (section 6).

**Runner** is one process of the runner and what surrounds it.

| In the model | In runner.py |
|---|---|
| `pc` | the place of the main thread, from `main()` to the end of the process |
| `idx`, `outcome`, `results`, `firstFailure` | the loop of `run()`, 655-704 |
| `creds`, `fetched` | `Credentials._cache`, the file in the work directory |
| `current`, `handler`, `signals` | `_current["proc"]`, and how far `_on_signal` has got |
| `attempts` | a record for each `Popen`: the leader and the rest of its group, what the server has received and carried out, whether the session is open |
| `store` | the scripts bucket |
| `BuildPlan`, `Fetch`, `Execute`, `Spawn`, `Record`, `ClientReturns`, `StepTimesOut`, `TimeoutEnds`, `FinishStep`, `Exit` | the operations of the main thread, in the order of the code. `Spawn` and `Record` are apart because a signal fits between lines 310 and 315 |
| `Sigterm`, `PollClient`, `HandlerKills`, `HandlerGraceEnds`, `HandlerLeaves` | `_on_signal`; the main thread stands still meanwhile; a further signal enters it again |
| `ClientSends`, `ClientSucceeds`, `ClientFails`, `ClientTerminates`, `ChildEnds` | psql, mysql, sqlplus or bash, and a process bash may have started |
| `ServerExecutes`, `ServerCloses` | the session: a request that was received may be carried out after the client is gone |
| `Upload`, `InstanceLost` | somebody writes an object; every process of the instance ends at once |

A client sends requests one by one, each after the answer to the last. With one
transaction, COMMIT is a request of its own behind the statements, and
statements count (`Durable`) only once it is carried out. The scripts are
supposed not to commit themselves and, on Oracle, to hold no DDL.

The secret, the CA bundle, the client binary and the AWS CLI may each be
missing: `Execute` and `Fetch` may end with exit code 4 at any step. What is no
`RunError` (a MySQL script that is not text, a secret that is JSON but no
object, a full disk) ends the whole run with 1 at either place (`Uncaught`).

**OrderedSteps** is what a run promises, without any of this: each step gets a
verdict, in order, until the list ends or a step that may not fail has failed;
the status is the first failure's code. `Runner!ImplementsPromise` instantiates
it with `verdicts <- results`, `ended <- pc = "exited"`.

**Migration** puts an operator on top of Runner, who starts the runner again
with the `StartAt` of the log. `plan` is the whole list, `past` what the ended
runs were to do and how each step was filed. Clients, sessions and objects stay
as they are. Dry runs are left out: `StartAt` would shorten their list before the
probes are appended. What Runner says of the clients of a run (`Mine`) is so said
of each run in turn; what holds between the runs is Migration's.

**IamUsers** is the function and the resource that invokes it. An invocation is
a set of tasks, one for each user, which `NextUser` takes in the order of the
handler's two sorted loops (`Before`); a task is a list of Data API calls that
starts with a lookup and continues with what `ensure` or `remove` choose from
its result. `Execute` may leave the call in place, which is a retry of something
that has taken effect. `Fail` can happen at any point; `FailAndContinue` leaves
a statement behind that takes effect later, or never. `touched` is bookkeeping
for the properties: users whom somebody else changed during the invocation.

Three facts about the world outside are assumptions. A create that fails leaves
no invocation in Terraform's state; an update that fails leaves the old input or
the new one (both are tried); a statement that is sent again may already have
taken effect.

**HclScan** reads a file of tokens twice, as `strip_hcl` does and as the language
does: two pushdown automata that differ in which tokens open a frame where
(`StripOpeners`, `HclOpeners`). `described` and `bare` are what `has_attr` and
the loop of `check` make of it. A file is any sequence of tokens that
`terraform validate` would let pass (`MayFollow`); `Rare` says which of the
spellings that the two read differently may occur.

**Governance** is the ratchet. A tree is a set of facts (`<<"tests", acm>>`: acm
has tests) and the baseline. `module_dirs` wants `*.tf` files (the fact `tf`),
where `report` wants a directory (`is_dir`): a pull request may delete the one
and keep the other. Documents are in the root (`InRoot`) or in a directory
(`SubdirDoc`), which `report` tells apart by the slash. `check`, `report` and `write_baseline` are the
functions of those names, and `Debt` is `check` with G007 judged by the
language. Pull requests make one change each (`Edits`), and may remove the entries the
check calls fixed or regenerate the baseline (`Heads`). `Check` lets only those
pass that the job would, self-test and comparison of the linters included;
`Merge` is git's three-way merge into whatever main is by then, applied to files
and baseline element by element. A conflict that git would report is left out: the
merge then just does not happen. `fixed`, `amnesty` and `unchecked` are history.

**Containment** is the machine over the role's policies. `Invoke` has the three
ends of a run of the function: attached, failed, attached and failed. What the
budget passes (`Occasion`) and which notification has the function's topic
(`Subscribed`, by `budget_final_threshold`) are apart from what a breach is
(`Final`, in the property). `Flip` and `SetExclusive` change the configuration at
any time. `Plan` compares it with AWS and with Terraform's state (`manages`) as
Terraform does; `ApplyBoundary` and `ApplyExclusive` are steps of the plan, in
the order of the references between the resources, and `ApplyForget` drops the
list of policies from the state; `Discard` ends a run between them or before.
`held` says
that the role was contained and nobody has decided to release it: turning
`kill_switch` off is that decision, and so is deleting the policy before it is
codified (`Codified`: configured, applied, and no plan waiting).

**Digest** is a run of the digest function against a CloudTrail in which events
happen and become visible in any order. **Warden** composes the two: a stack has
one of the functions or both (`Stacks`). They share no state.

## 3. The runs

Every run is exhaustive within its bounds. Runs expected to fail are in
[section 6](#6-where-code-and-documentation-disagree). Deadlock is not checked
where things end: a list that was built, a run of the runner, a migration, the
bounded changes of `iam`. It is checked in `governance`, where `Done` is the end of
the bound, and in `warden`.

| Run | Module | What it shows |
|---|---|---|
| `steps` | MCStepList | For every pair of 14 shapes of a step, as a manifest and as a runbook, with and without `StartAt`, `DryRun` and `StepTimeoutSeconds`: names are unique in an accepted list, so a `StartAt` resumes where it says; a dry run looks at the steps of the real run and at each target once; no timeout is beyond two days; runner and plan accept the same lists; with requests that are refused for other reasons (24,000 states) |
| `runner` | MCRunner | A pinned PostgreSQL transaction that may fail before a MySQL script, the dry run of it, and a shell step with a child before a transaction; uploads, two signals, uncaught errors, loss of the instance, clients that need never answer. Exit 0 means applied, one client at a time, a stop is a stop, only the pinned content runs, the hint is where the run got to, a dry run starts probes only, a client that was stored in `_current` does not outlive the run, nothing starts after a signal, every run ends, a signalled one with 5; and the run implements OrderedSteps (577,000 states) |
| `migration` | MCMigration | Two runs, with a signal, over a list whose steps must all succeed or whose first may fail: steps build on each other, a resumed list is complete, nothing reported is repeated, no client of a run lives on into the next; and the inductive invariant of the proofs |
| `governance` | MCGovernance | Both readers on every file of up to five nested frames; two pull requests at a time, three merges, over a module with debt, the canonical module, a document in the root and one in a directory: the readers agree, the baseline is the debt, what was fixed stays fixed (395,000 states) |
| `warden` | MCWarden | Two notices against `kill_switch`, `exclusive_inline_policies`, plans and deletion by hand; a digest over three events: no gap in the containment, no breach without containment or page, no dishonest digest (162,000 states) |
| `iam` | MCIamUsers | Both engines: listed users have token login after an apply, whoever left has left, nobody else loses a login |

The bounds, and why they are enough:

- Two steps in a list. The loop relates a step to the one before it and to
  what stays of earlier ones (`results`, `first_failure`, the cache); two steps
  with all combinations of `on_error` have a first, a middle and a last.
  `steps` tries lists of three and four as well, with `MaxSteps` (`MAX_STEPS`,
  200 in the code) set to three.
- `Statements = 2` gives a script a beginning, a half and an end, and COMMIT
  behind it. `migration` asks nothing about halves and has 1.
- `MaxSignals` is 2 in `runner`: the second one arrives in the handler. A third
  would find the same places. `migration` has 1.
- `MaxRuns = 2`: a resumed run starts from the same state as any later one
  (1.1 million states). The theorems about Migration have no such bound.
- Two contents, one of them the pinned one; one in `migration`, where no
  question is about contents.
- `iam`: two users, so that one comes before the other and one stays while the
  other leaves; two changes of the list (a failed update, and a list that is
  different again at the next one); any number of invocations; `MaxHands` and
  `MaxLate` are 1: one surprise of each kind. One user has the settings
  `revoke` and `keep`, the other `revoke` and `drop`.

- `governance`: five frames are a block, a bracket, a string, an interpolation
  and a string in it; the proof has no such bound. Three merges: debt is fixed,
  the module is deleted, the name returns. Two open pull requests: one moves
  main while the other waits. The pull requests are interchangeable (`SYMMETRY`).
  Entries of the root document are left out of `BaselineIsTheDebt` and
  `FixedStaysFixed`; `governance_root` is about them.
- `warden`: two notices, one for each threshold or twice the same; `MaxRetries`
  and `MaxErrors` are Lambda's own 2. Three events, two of them the role's, so
  that a page may hold some and miss some. TLC takes the stack with the kill
  switch and the one with the digest one after the other (`MCStacks`), as their
  product is too large; the proofs are about a stack with both as well. Nothing
  else is bounded.

For every property of these runs `PROJECT.json` has a slip: a definition as a
plausible bug would have it (the definitions commented `Slip` in the modules),
with which the run fails.

## 4. Fairness

`runner` and `warden` use it. `LiveSpec` asks for weak fairness of the main thread
and of the handler, of nothing else. The operating system schedules the process,
and both waits of the code are bounded: `proc.wait(timeout=...)` by the step's
timeout, which StepList shows to be at most two days, and `_kill_group` by 15
seconds. Clients, servers and people get no fairness: `Terminates` holds for a
client that never answers and ignores SIGTERM.

`Spec` of Warden asks that a queued invocation is run (weak fairness of
`Invoke`, for each notice): Lambda delivers asynchronous events and retries
them. Which way a run ends is left open, so `BreachContainsOrPages` holds for a
function that fails every time. People, Terraform and the digest get no fairness.

One assumption hides in `LiveSpec`: a call of the AWS CLI returns. The runner sets no
timeout on it (`runner.py:206`).

## 5. The proofs

Seven modules prove what the runs check on small instances; `HclScanProofs` has
lemmas about the readers. Each of the seven has a theorem `Invariance`
(`OutcomesHold` in RunnerOutcomes, `MigrationInvariance` in MigrationProofs) that
its inductive invariant holds, and the rest follows from it.

### The step list

`StepListProofs` proves all properties of the run `steps` for every list of raw
steps, any number of targets, shell steps allowed or not, and every
combination of parameters:

| Theorem | Says |
|---|---|
| `TypeCorrect` | `Spec => []TypeOK` |
| `StartAtResumes` | `Spec => []StartAtResumesThere` |
| `DryRunMatches` | `Spec => []DryRunMatchesRun` |
| `TimeoutsBounded` | `Spec => []TimeoutsAreBounded` |
| `RunnerAgrees` | `Spec => []RunnerAgreesWithThePlan` |
| `PlansFitTheRunner` | every accepted plan is what Runner and Migration assume of a request |

They rest on `StepListAssumption` (there is a target, names of probes differ for
different targets, `step-1`, `step-2` and so on are different names) and on
`InputsAssumption` (a runbook was accepted by Terraform, Mode=run hands over one
step). The invariant only says that the plan is `Plan` of the parameters, and
one lemma for each function says what it returns: `AcceptedSteps` that an
accepted list is `Proper` (well-formed steps with different names), `StartAtName`
that a name leads to its own step in a proper list, `ProbeList` that there is
one probe for each target, `SameVerdict` and `SameNames` that the two
implementations of the checks agree on a step and on the names. `Ranks`, behind
`ProbeList`, is a pigeonhole argument: the ranks of the members of a set of n
numbers are n different numbers of `1 .. n`.

`PlansFitTheRunner` closes the gap between the two halves of the runner: the
list is never empty (`RunnerAssumption`), a dry run's has a probe for each of
its targets (`Probed`, which `DryRunProves` assumes), any other has names that
differ (`MigrationAssumption`).

### The runner

`RunnerProofs` proves for every set of requests, any length of list and script
and any number of signals:

| Theorem | Says |
|---|---|
| `Invariance` | `Spec => []Inv` |
| `TypeCorrect` | `Spec => []TypeOK` |
| `OneClient` | `Spec => []OneClientAtATime` |
| `StopRespected` | `Spec => []StopIsRespected` |
| `KnownClientsStopped` | `Spec => []KnownClientsAreStopped` |

from the assumptions on the constants alone (`StepsAssumption`,
`RunnerAssumption`: the requests are lists of steps, `NoSha` is no content, and
the like), which TLC evaluates in every run.

None of the properties is inductive. `OneClientAtATime` says nothing about the
main thread, so nothing keeps a new client from being started beside a live one.
`Inv` adds three parts to `TypeOK`:

- `Control`: the loop counter is within the list, `results` has one entry for
  each finished step, and `current` is set exactly while the main thread waits
  for a client or for its grace period, and is then the newest attempt.
- `Clients`: of the run's clients only the newest can be running, and only while
  the main thread is about to store it or waits for it, or after the end of the
  process if it was never stored; a handler about to leave has seen it end.
- `Order`: the run's attempts are in list order, none is beyond the loop counter, and
  every step before the counter succeeded or may fail.

Both parts speak of the clients of the current run (`Mine`) and leave open what
else is in `attempts`: this is what lets Migration use every lemma of the runner
beside the clients of earlier runs.

The argument for one client at a time: `Spawn` happens at a place of the main
thread at which, by `Clients`, nothing runs; the two ways out of the wait,
`ClientReturns` and `TimeoutEnds`, leave only a client that has ended, the
second because `GraceEnds` kills it. The handler cannot undo this: it leaves by
ending the process. `StopIsRespected` follows from `Order`: the attempt of step
i was made with the counter at i. The proof has one step for each action and,
under it, one for each part of `Inv` the action can disturb.

`RunnerOutcomes` builds on it and proves what a run achieves and reports:

| Theorem | Says |
|---|---|
| `NothingStarts` | `Spec => NothingStartsAfterASignal` |
| `PinnedContent` | `Spec => []OnlyPinnedContent` |
| `ZeroMeansApplied` | `Spec => []ExitZeroMeansApplied` |
| `HintIsFrontier` | `Spec => []HintIsTheFrontier` |
| `DryRunProves` | `Spec => []DryRunProvesTargets`, if every list of a dry run has its probes |
| `Implements` | `Spec => ImplementsPromise`: the run implements OrderedSteps |

The assumption of `DryRunProves` is `Probed`: the loop executes a list, and it
is `Plan` in StepList that appends a probe for each target. The requests of
MCRunner come from `Plan`, and `PlansFitTheRunner` above is that they satisfy it.

`Inv` is not enough for these: exit status 0 says something about clients that
ended long before, and the status alone does not remember them. `Outcomes` adds
where a signal leaves the main thread (`Signalled`), what was verified when a
client starts (`Checked`), that a client is what its step says, and has
everything in the database when it reports success (`Origin`), which client
stands behind a verdict of 0 (`Verdicts`), and what `firstFailure`, the exit
status and the hint say of the verdicts (`Report`). What carries the verdicts
through the rest of the run is `ClientsKept`: once a client has reported
success, no step of a client, a server or a handler changes that.

`Implements` maps `results` to the verdicts and the end of the process to the
end of the run. `FinishStep` is a verdict, the end of the process is the other
step, everything else stutters; `PromiseNext` needs `Report` to show that a
status given at the end is one that fits the verdicts, and `StopIsRespected`'s
reason, `Order`, that no verdict follows one that stops the list.

### A migration over several runs

`MigrationProofs` proves, for any lists with different names, any number of
runs, signals and statements:

| Theorem | Says |
|---|---|
| `ResumedWhereItStopped` | `MigrationSpec => []MigrationInv` |
| `EveryRunKeepsItsPromises` | OneClientAtATime, StopIsRespected, KnownClientsAreStopped, OnlyPinnedContent, ExitZeroMeansApplied and HintIsTheFrontier, in every run |
| `NoRunStartsAfterASignal` | `MigrationSpec => NothingStartsAfterASignal` |
| `NoOverlap` | `MigrationSpec => []RunsDoNotOverlap` |
| `BuildOnEachOther` | `MigrationSpec => []StepsBuildOnEachOther` |
| `Complete` | `MigrationSpec => []MigrationIsComplete` |
| `NotRepeated` | `MigrationSpec => ReportedStepsAreNotRepeated` |

from `MigrationAssumption` (names differ) and the runner's assumptions.

The inductive invariant is `Whole`, `Outcomes` of the current run and
`MigrationInv`. None of the three properties about the plan is inductive: each
speaks of steps that ran, and the next run may start anywhere unless something
says where. `RestOfPlan` says that the current list is the plan from `Base + 1`
on; `PastReachesTheRest` that earlier runs have filed everything up to `Base`,
as ok or as a failure that is allowed, and nothing beyond it as ok;
`Foundations` that a client stands behind each of those verdicts, and behind
each step before one that was started; `EarlierClientsEnded` that the clients of
earlier runs are gone.

A step of a run keeps `Outcomes` by `NextOutcomes` (`EveryRunKeepsItsPromises`
needs no further argument), and only `Spawn` can disturb `Foundations`: the
steps between `Base` and the new client have verdicts of this run, and by
`Verdicts` a client behind each verdict of 0. The burden is on `Resume`.
`ResumePoint`: by `Report` the hint names the step of the last verdict, names
differ, so the operator's search finds that step and no other. What was `Mine`
becomes past: its verdicts move to `past` (`FiledAfterResume`), and by
`Frontier` no client of it is running. A run that was stopped by a signal may
have left one (section 6), but it prints no hint, and a resumed run starts from
a hint.

### IAM database users

`IamUsersProofs` proves, for any users, user lists, number of invocations that
fail or are cut off, late statements and changes by hand:

| Theorem | Says |
|---|---|
| `TypeCorrect` | `Spec => []TypeOK` |
| `TokensApplied` | `Spec => AppliedUsersHaveTokens` |
| `LeaversLeft` | `Spec => LeaversHaveLeft` |
| `OnlyLeaversLose` | `Spec => OnlyLeaversLoseLogin` |

The three action properties speak of the moment of success, or of one call; the
invariant has to carry each user from the start of the invocation to it.
`TaskFits`: each task is one of the event's, and the calls it can still have to
make are one of a few sequences. `CallFits`: a leaver's setting is the one in
Terraform's state. `Ensuring`: a listed user is either still in `todo`, or in
hand with calls that will make its account what it should be (`WillEnsure`, which says
what each remaining call may rely on), or done. `Leaving` is the same for
leavers. Retries are where it could fail: a call that has taken effect is made
again on an account it has changed already (`EnsureProgress`). Late statements
and people change an account only together with `touched`, which `TouchInv`
uses; no other user's account changes, and no user is both listed and a leaver
(`EventUsers`).

### The ratchet

`GovernanceProofs` proves `TypeCorrect` for every repository, and the rest for
one without the spellings of `Rare` (`governance_escape` shows that this is
needed). Documents may be in the root or in directories; `BaselineIsTheDebt` and
`FixedStaysFixed` themselves leave out fixed entries of root documents, which
`governance_root` shows to be necessary:

| Theorem | Says |
|---|---|
| `ReaderAgrees` | `Spec => []ReadsAsWritten` |
| `BaselineExact` | `Spec => []BaselineIsTheDebt` |
| `RatchetHolds` | `Spec => []FixedStaysFixed` |

for any modules, documents, number of pull requests and merges, and any depth of
nesting. The constants satisfy `HclAssumption`, `GovernanceAssumption` and
`FilesAssumption` (pull requests do not set by hand what the reader sees).

`SameRead` is the lemma behind the first: on a token that may come next, both
readers take the same step, if templates are only ever open inside strings
(`Grounded`, which `ReadGrounded` keeps). The invariant of the others has four
parts: the readers are at the same place; in every tree, also of open pull
requests, the check sees a description exactly where there is one (a three-way
merge keeps this because it treats both facts alike); an open pull request and a
main that was checked have a baseline that is the result of `check`; and no key
that was once clean is in the baseline except by amnesty. The last part needs
the `stale` half of `report`: an entry could otherwise outlive its violation,
and cover it when it returns.

### agent-warden

`WardenProofs` proves `TypeCorrect`, `StaysContained` and `DigestIsHonest`
(`Spec => []` of the three invariants of the run) for any set of thresholds,
notices and events, any number of retries, and stacks with one function or both,
from `ContainmentAssumption`, `DigestAssumption` and `StacksAssumption`.

`ContainedUntilReleased` is not inductive: a plan that lifts the boundary may be
waiting. `HeldInv` adds that such a plan finds the emergency policy still there,
that without the policy `kill_switch` is configured, and that a plan which
leaves the boundary alone found it as it wants it. The last one is where the
order of the two steps matters. `ScanInv` ties what a run has counted to what it
has read.

### Model-checked only

Liveness (`Terminates`, `SignalEndsTheRun`, `BreachContainsOrPages`), which is
beyond the prover. Every other property of a passing run is a theorem.

## 6. Where code and documentation disagree

Each of these is a run that TLC is expected to find violated, by the property
named; `PROJECT.json` quotes the sentences.

| Run | Property | What happens |
|---|---|---|
| `runner_orphan` | `StoppedRunLeavesNoClient` | a signal between `Popen` and `_current["proc"] = proc` leaves the client running |
| `runner_group` | `WholeGroupIsTerminated` | SIGKILL is sent only if the leader is still there: another member of the group that ignores SIGTERM survives a leader that does not |
| `governance_escape` | `MissesNothing` | the check takes the `${` of an escaped `$${` for an interpolation and reads on for its end: a variable without description behind it is not reported. `modules/step-functions/checks.tf` has such a string |
| `governance_root` | `FixedEntriesFail` | a document in the root of the repository has no `/` in its path, so `report` looks for it among the modules: the entry of a link that was fixed is a notice instead of a failure, stays, and accepts the next link |
| `iam_left_behind` | `UsersLeaveAsDeclared` | after an update that failed halfway and a further change of the list, a user that is in no input any more keeps its token login |
| `iam_locked` | `AppliedUsersCanLogIn` | an account that was locked, given a password by hand and listed again is converted, reported as converted, and still locked |

Met on the way, without a run of their own. `README.md:199` of the bastion says
that a manifest goes through the same checks as a runbook, but
`transaction = single` on MySQL is refused in a runbook by the plan and in a
manifest only when the step is reached, and on a shell step it is refused in a
runbook and never looked at in a manifest (`RunnerAgreesWithThePlan` is violated
without its last condition and with `AllowShell = TRUE`). `README.md:142` says that at a timeout
the database rolls back, but a COMMIT that was sent before the client was
stopped is carried out. `README.md:147` says that the printed `StartAt` resumes
the run, but a step before it that failed with `on_error = continue` is skipped.
`check_governance.py:9-11` and `docs/GOVERNANCE.md:81` say that the baseline
file only shrinks and new modules therefore start compliant. A pull request may
run `--write-baseline` in its own branch, grow the file by whatever it adds (a new
module with debt included) and pass: `report` compares with the baseline of the
tree it checks, not with main's. The model has such pull requests (`Heads`), and
`FixedStaysFixed` leaves out what they accept (`amnesty`). A comment with a quote
inside an interpolation is a second spelling the reader loses its place in
(`ReadsAsWritten` is violated with `Rare = {"comment_in_template"}`). With an
empty list of thresholds the kill switch of agent-warden is there and nothing
pulls it (`BreachContainsOrPages` is violated with `Threshold = {}`). A manifest value of another JSON
type ends the runner with 1 (a `TypeError`) where the documentation has 4;
with `on_error = continue` the step after a timed-out one starts while the
server may still execute what the killed client had sent; a PostgreSQL role
made by hand without LOGIN is "adopted" by a GRANT alone (`iam_locked` shows it
with `Engines = {"postgres"}` and FALSE in `HandLogins`); `-replace` of the invocation, recommended as a
way to run it again, drops users whose `on_remove` is `drop` before it creates
them again.

## 7. What is not modelled

- Log output, masking, option files, the spelling of names and keys: they shape
  text, and no decision depends on them.
- How SSM stops a command. If it kills the launcher's process group, the client
  in its own session is not in it; if it sends SIGKILL, the handler never runs.
  Neither is in the repository.
- Two runs at once. The README makes the missing lock a non-goal.
- The moment between SIGKILL and the end of what it was sent to: `KillGroup`
  ends the group at once, where the code sends the signal and does not wait
  again (`runner.py:266-270`). A process in an uninterruptible system call would
  live a little longer, and the next client could start beside it.
- The signal window before `signal.signal` at the start of `main()`: the process
  just ends and has started nothing. Nor what a signal during the removal of
  the work directory leaves there.
- Rotation of a secret during a run: the client fails its login, an ordinary
  `ClientFails`.
- In IamUsers, a statement given up that takes effect after *two* further
  invocations is there only as far as `MaxLate` allows it at a time; the Data
  API's pause while a cluster resumes is a retry without effect and is not there.
- In HclScan, a block header that is indented: `BLOCK_RE` wants it at the start
  of a line, as `terraform fmt` writes it. G008 and G012 read blocks the same
  way as G007, so only G007 is judged token by token.
- In Governance, what a version constraint or a link says: each is one fact.
  Facts of a file are independent here; git merges lines. Copies of the linter
  under `templates/` are not there; to G010 they are like a copy in a directory
  without `*.tf` files.
- In Containment, what people are entitled to: deleting the emergency policy
  before it is codified, or while a plan is still waiting, is a decision to
  release the role as `held` has it, and so is an exclusive apply without
  `kill_switch = true`, which the variable's description announces. Neither is
  therefore reported as a gap.
- In Containment, cost: a notice is sent for a threshold at any time. An alarm
  that is already raised does not page again; each failing run still counts as
  covered by it.
- In Digest, the number of equal events and the wording.
- The components not marked as modelled in section 1. The release gate and the
  shell entrypoints are straight-line around programs that are not here; their
  hazards are listed.

## 8. Plan

The order in which the modules were and will be written, most important first:

1. *Done.* `Steps`, `StepList`: the list a run starts from.
2. *Done.* `Runner` with `OrderedSteps` as its abstract specification, then
   `Migration`, which composes runs of it.
3. *Done.* `StepListProofs`; `RunnerProofs`: the inductive invariant, type correctness, one client
   at a time, a stop is a stop, known clients are stopped.
4. *Done.* `IamUsers`.
5. *Done.* `HclScan` and `Governance`, with their proofs.
6. *Done.* `Containment`, `Digest` and `Warden`, with their proofs.
7. *Done.* `RunnerOutcomes`: what a run achieves and reports, and that it
   implements OrderedSteps. `IamUsersProofs`.
8. *Done.* `MigrationProofs`: the runner's promises in every run of a
   migration, and what holds between the runs. `PlansFitTheRunner`: what the
   second half of the runner assumes of the list is what the first half makes.

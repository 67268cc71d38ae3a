----------------------------- MODULE Migration -----------------------------
(***************************************************************************)
(* A migration as an operator carries it out with the runner: run a list,  *)
(* and after a failure run it again from the step the log names, until a   *)
(* run exits 0. README.md gives this recipe ("It failed at `tables'; fix   *)
(* the script, upload it, then resume there") and says that nothing        *)
(* records what already ran: the only memory between two runs is the log.  *)
(***************************************************************************)
EXTENDS Runner

CONSTANT MaxRuns    \* bound: how often the operator starts the runner

NamesDiffer(list) ==
  \A i, j \in DOMAIN list : list[i].name = list[j].name => i = j

\* normalize_steps refuses a list in which a name comes twice. (The probes of
\* a dry run may repeat one.)
ASSUME MigrationAssumption ==
  \A r \in Requests : ~ r.dry_run => NamesDiffer(r.steps)

VARIABLES
  plan,    \* the whole list: the request without a StartAt
  past     \* the runs that have ended: what they were to do and their results

migrationVars == <<vars, plan, past>>

\* Dry runs are left out: StartAt would shorten their list of probes as well.
MigrationInit ==
  /\ Init
  /\ ~ request.dry_run
  /\ plan = request.steps
  /\ past = <<>>

RunnerStep == Next /\ UNCHANGED <<plan, past>>

\* (Slip: the operator is sent to the step after the one that failed.)
ResumeFrom_After == {i \in DOMAIN plan : i > 1 /\ plan[i - 1].name = hint}

\* (Slip: the list is cut one step too early.)
ResumeFrom_Before ==
  {i \in DOMAIN plan : i + 1 \in DOMAIN plan /\ plan[i + 1].name = hint}

\* StartAt takes a name and finds it in the whole list again.
ResumeFrom == {i \in DOMAIN plan : plan[i].name = hint}

\* The operator starts the runner with the StartAt of the last log. Objects,
\* clients and sessions of earlier runs are as they were left.
Resume ==
  /\ pc = "exited" /\ exitCode # EXIT_OK /\ hint # NoName
  /\ run < MaxRuns
  /\ \E i \in ResumeFrom :
       request' = [request EXCEPT !.steps = SubSeq(plan, i, Len(plan))]
  /\ past' = Append(past, [steps |-> steps, results |-> results])
  /\ run' = run + 1
  /\ pc' = "build" /\ idx' = 1 /\ outcome' = EXIT_OK /\ results' = <<>>
  /\ firstFailure' = EXIT_OK /\ hint' = NoName /\ creds' = {}
  /\ fetched' = NoSha /\ current' = 0 /\ handler' = "none" /\ signals' = 0
  /\ exitCode' = NoCode
  /\ UNCHANGED <<attempts, store, plan>>

MigrationNext == RunnerStep \/ Resume

MigrationSpec == MigrationInit /\ [][MigrationNext]_migrationVars

-----------------------------------------------------------------------------
\* The verdicts on step j of the plan, of this run and of those before it.
FiledNow(j, code) ==
  \E n \in DOMAIN results : steps[n] = plan[j] /\ results[n] = code

FiledBefore(j, code) ==
  \E r \in DOMAIN past : \E n \in DOMAIN past[r].results :
    past[r].steps[n] = plan[j] /\ past[r].results[n] = code

Filed(j, code) == FiledNow(j, code) \/ FiledBefore(j, code)

\* The steps some run of the migration has reported ok.
Reported == {plan[j].name : j \in {i \in DOMAIN plan : Filed(i, EXIT_OK)}}

\* Resuming where the log says never repeats a step that was reported ok:
\* no client is started for it again. (The hint, apply_start_at)
ReportedStepsAreNotRepeated ==
  [][\A k \in DOMAIN attempts' \ DOMAIN attempts :
       attempts'[k].name \notin Reported]_migrationVars

\* Scripts build on one another: when statements of a step are in the
\* database, every step before it in the list has been carried through, in
\* this run or in an earlier one, unless it is one that may fail.
StepsBuildOnEachOther ==
  \A k \in DOMAIN attempts : Durable(attempts[k]) > 0 =>
    \A i, j \in DOMAIN plan :
      i < j /\ plan[j].name = attempts[k].name =>
        \/ plan[i].on_error = "continue"
        \/ \E l \in DOMAIN attempts :
             /\ l < k /\ attempts[l].name = plan[i].name
             /\ attempts[l].leader = "ok"
             /\ attempts[l].done = Items(attempts[l])

\* README.md:147: the log "prints the `StartAt`" that resumes the list. A
\* migration whose last run exits 0 has left out no step of it: each was
\* reported ok by some run, or failed where it may.
MigrationIsComplete ==
  Exited(EXIT_OK) => \A j \in DOMAIN plan :
    \E code \in ExitCode :
      Filed(j, code) /\ (code = EXIT_OK \/ plan[j].on_error = "continue")

\* No client of an earlier run is alive when a resumed one starts its own: a
\* run that prints a StartAt has left none. (A run that was stopped by a signal
\* may have, but prints no StartAt.)
RunsDoNotOverlap ==
  \A k, l \in DOMAIN attempts : k < l => ~ Running(k)

-----------------------------------------------------------------------------
(* The inductive invariant behind the theorems of MigrationProofs. *)

\* How much of the plan lies before the list of the current run.
Base == Len(plan) - Len(steps)

\* A run works on a rest of the plan.
RestOfPlan ==
  /\ plan \in Seq(Step) /\ NamesDiffer(plan) /\ ~ request.dry_run
  /\ Base \in Nat
  /\ \A i \in DOMAIN steps : Base + i \in DOMAIN plan /\ steps[i] = plan[Base + i]

\* The log's StartAt splits the plan: earlier runs have passed every step
\* before the rest, and reported none of the rest ok.
PastReachesTheRest ==
  /\ past \in Seq([steps : Seq(Step), results : Seq(ExitCode)])
  /\ \A j \in 1 .. Base : \E code \in ExitCode :
       FiledBefore(j, code) /\ (code = EXIT_OK \/ plan[j].on_error = "continue")
  /\ \A j \in DOMAIN plan : FiledBefore(j, EXIT_OK) => j <= Base

\* Client l has carried step j of the plan through, if that must succeed.
Carried(l, j) ==
  attempts[l].name = plan[j].name /\ attempts[l].leader = "ok"

Foundations ==
  /\ \A j \in 1 .. Base :
       \/ plan[j].on_error = "continue"
       \/ \E l \in DOMAIN attempts \ Mine : Carried(l, j)
  /\ \A k \in DOMAIN attempts : \A i, j \in DOMAIN plan :
       i < j /\ plan[j].name = attempts[k].name =>
         \/ plan[i].on_error = "continue"
         \/ \E l \in DOMAIN attempts : l < k /\ Carried(l, i)

EarlierClientsEnded ==
  \A k \in DOMAIN attempts \ Mine : ~ Running(k)

MigrationInv ==
  Inv /\ RestOfPlan /\ PastReachesTheRest /\ Foundations /\ EarlierClientsEnded
=============================================================================

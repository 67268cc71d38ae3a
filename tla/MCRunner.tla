------------------------------ MODULE MCRunner ------------------------------
(***************************************************************************)
(* Values of the constants of Runner for TLC. The requests are plans that  *)
(* StepList makes of parameters, so a run starts from a list the program   *)
(* can really have.                                                        *)
(***************************************************************************)
EXTENDS Runner, StepList

MCTarget    == {"aurora", "legacy"}
MCTargetSeq == <<"aurora", "legacy">>
MCFamily    == [t \in MCTarget |-> IF t = "aurora" THEN "postgres" ELSE "mysql"]
MCStepName  == <<"step-1", "step-2">>
MCCheckName == [t \in MCTarget |-> IF t = "aurora" THEN "check-aurora"
                                                  ELSE "check-legacy"]
MCName == {"step-1", "step-2", "run", "check-aurora", "check-legacy"}

Raw(target, type, sha, on_error) ==
  [spelling |-> "good", name |-> Absent, target |-> target,
   script |-> "a.sql", sha256 |-> sha, type |-> type, transaction |-> Absent,
   timeout_seconds |-> Absent, on_error |-> on_error]

Runbook(raws, dry_run) ==
  [mode |-> "runbook", refused |-> "no", target |-> Absent, raws |-> raws,
   pin |-> "unset", start_at |-> Absent, dry_run |-> dry_run, timeout |-> 0]

\* The requests that some accepted parameters lead to.
RequestsOf(inputs) ==
  {[steps     |-> Plan(p).list,
    dry_run   |-> p.dry_run /\ p.mode # "check",
    resumable |-> p.mode \in {"runbook", "manifest"}] :
     p \in {q \in inputs : Plan(q).code = EXIT_OK}}

\* A pinned transaction on PostgreSQL; MySQL, statement by statement; and a
\* shell step, whose script may be any object.
Postgres(on_error) == Raw("aurora", Absent, "good", on_error)
MySQL(on_error)    == Raw("legacy", Absent, NoSha, on_error)
Shell(on_error)    == Raw("aurora", "shell", NoSha, on_error)

\* A first step that may fail, one that may not, and a dry run.
RunnerRequests ==
  RequestsOf({Runbook(<<Postgres("continue"), MySQL("stop")>>, d) : d \in BOOLEAN}
             \cup {Runbook(<<Shell("stop"), Postgres("stop")>>, FALSE)})

\* The smallest lists that show a disagreement with the documentation.
OneStep  == RequestsOf({Runbook(<<Postgres("stop")>>, FALSE)})
OneShell == RequestsOf({Runbook(<<Shell("stop")>>, FALSE)})
=============================================================================

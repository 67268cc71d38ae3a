---------------------------- MODULE MCMigration ----------------------------
(* Values of the constants of Migration for TLC. *)
EXTENDS Migration, StepList

MCTarget    == {"aurora"}
MCTargetSeq == <<"aurora">>
MCFamily    == [t \in MCTarget |-> "postgres"]
MCStepName  == <<"step-1", "step-2", "step-3">>
MCCheckName == [t \in MCTarget |-> "check-aurora"]
MCName      == {"step-1", "step-2", "step-3", "run", "check-aurora"}

Raw(tx, on_error) ==
  [spelling |-> "good", name |-> Absent, target |-> "aurora",
   script |-> "a.sql", sha256 |-> NoSha, type |-> Absent,
   transaction |-> tx, timeout_seconds |-> Absent, on_error |-> on_error]

RequestFor(raws) ==
  LET p == [mode |-> "runbook", refused |-> "no", target |-> Absent, raws |-> raws,
            pin |-> "unset", start_at |-> Absent, dry_run |-> FALSE,
            timeout |-> 0]
  IN [steps |-> Plan(p).list, dry_run |-> FALSE, resumable |-> TRUE]

\* Every step must succeed: one is a transaction, one statement by statement.
StopRequests ==
  {RequestFor(<<Raw(Absent, "stop"), Raw("none", "stop")>>),
   RequestFor(<<Raw("none", "stop"), Raw(Absent, "stop")>>)}

\* The first step may fail.
ContinueRequests ==
  {RequestFor(<<Raw(Absent, "continue"), Raw(Absent, "stop")>>)}

MigrationRequests == StopRequests \cup ContinueRequests
=============================================================================

------------------------------- MODULE Steps -------------------------------
(***************************************************************************)
(* The vocabulary of the dms-sql-bastion runner (scripts/runner.py): what  *)
(* a normalised step is, the exit codes, and how a step's `transaction` is *)
(* resolved for the engine of its target.                                  *)
(***************************************************************************)
EXTENDS Integers, Sequences

CONSTANTS
  Name,         \* step names
  Target,       \* the configured database targets, cfg["targets"]
  Family,       \* Family[t]: the engine family of target t
  Script,       \* object keys under the scripts prefix
  Content,      \* what an object can hold; a content stands for its SHA-256
  NoSha,        \* a step without a sha256 pin
  NoScript      \* the script of a check step

ASSUME StepsAssumption ==
  /\ Family \in [Target -> {"postgres", "mysql", "oracle"}]
  /\ NoSha \notin Content
  /\ NoScript \notin Script

-----------------------------------------------------------------------------
EXIT_OK          == 0
EXIT_UNEXPECTED  == 1
EXIT_SCRIPT      == 2
EXIT_INTEGRITY   == 3
EXIT_CONFIG      == 4
EXIT_INTERRUPTED == 5
EXIT_TIMEOUT     == 6

ExitCode == EXIT_OK .. EXIT_TIMEOUT

TYPES        == {"sql", "shell"}
TRANSACTIONS == {"auto", "single", "none"}
MAX_TIMEOUT  == 172800
ON_ERROR     == {"stop", "continue"}

\* A step as normalize_step or check_step leaves it: only the latter has no
\* script.
StepRecord ==
  [name            : Name,
   target          : Target,
   script          : Script \cup {NoScript},
   sha256          : Content \cup {NoSha},
   type            : TYPES \cup {"check"},
   transaction     : TRANSACTIONS,
   timeout_seconds : 1 .. MAX_TIMEOUT,
   on_error        : ON_ERROR]

Step == {s \in StepRecord : s.type = "check" <=> s.script = NoScript}

-----------------------------------------------------------------------------
\* resolve_transaction refuses single on MySQL: its DDL commits implicitly.
TransactionRefused(step) ==
  /\ step.type = "sql"
  /\ step.transaction = "single"
  /\ Family[step.target] = "mysql"

\* What the client runs under: one transaction, or statement by statement.
\* A shell script opens its own sessions, so nothing holds it together, and
\* a check step is execute()d as an sql step whose transaction is "none".
resolve_transaction(step) ==
  IF step.type = "shell" THEN "none"
  ELSE IF step.transaction = "auto"
       THEN IF Family[step.target] = "mysql" THEN "none" ELSE "single"
       ELSE step.transaction
=============================================================================

SPECIFICATION MigrationSpec
CHECK_DEADLOCK FALSE
CONSTANTS
  Name <- MCName
  Target <- MCTarget
  Family <- MCFamily
  Script = {"a.sql"}
  Content = {"c"}
  NoSha = NoSha
  NoScript = NoScript
  Absent = Absent
  TargetSeq <- MCTargetSeq
  StepName <- MCStepName
  CheckName <- MCCheckName
  RunName = "run"
  ShellScripts = {}
  MaxSteps = 3
  DefaultTimeout = 3600
  AllowShell = FALSE
  Requests <- MigrationRequests
  Statements = 1
  MaxSignals = 1
  NoName = NoName
  NoCode = NoCode
  MaxRuns = 2
INVARIANTS
  MigrationInv
  RunsDoNotOverlap
  StepsBuildOnEachOther
  MigrationIsComplete
PROPERTIES
  ReportedStepsAreNotRepeated

SPECIFICATION Spec
CHECK_DEADLOCK FALSE
CONSTANTS
  Name <- MCName
  Target <- MCTarget
  Family <- MCFamily
  Script = {"a.sql"}
  Content = {"good", "other"}
  NoSha = NoSha
  NoScript = NoScript
  Absent = Absent
  TargetSeq <- MCTargetSeq
  StepName <- MCStepName
  CheckName <- MCCheckName
  RunName = "run"
  ShellScripts = {}
  MaxSteps = 2
  DefaultTimeout = 3600
  AllowShell = TRUE
  Requests <- OneShell
  Statements = 1
  MaxSignals = 1
  NoName = NoName
  NoCode = NoCode
INVARIANTS
  WholeGroupIsTerminated

SPECIFICATION Spec
CHECK_DEADLOCK FALSE
CONSTANTS
  Name <- MCName
  Target <- MCTarget
  Family <- MCFamily
  Script = {"a.sql", "a.sh"}
  Content = {"c1"}
  NoSha = NoSha
  NoScript = NoScript
  Absent = Absent
  TargetSeq <- MCTargetSeq
  StepName <- MCStepName
  CheckName <- MCCheckName
  RunName = "run"
  ShellScripts = {"a.sh"}
  MaxSteps = 3
  DefaultTimeout = 3600
  AllowShell = FALSE
  Inputs <- MCInputs
  NotBuilt = NotBuilt
INVARIANTS
  TypeOK
  StartAtResumesThere
  DryRunMatchesRun
  TimeoutsAreBounded
  RunnerAgreesWithThePlan

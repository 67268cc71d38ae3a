SPECIFICATION LiveSpec
CHECK_DEADLOCK FALSE
CONSTANTS
  Name <- MCName
  Target <- MCTarget
  Family <- MCFamily
  Script = {"a.sql"}
  Content = {"good", "other"}
  NoSha = NoSha
  NoScript = NoScript
  Absent = Absent
  TargetSeq <- MCTargetSeq
  StepName <- MCStepName
  CheckName <- MCCheckName
  RunName = "run"
  ShellScripts = {}
  MaxSteps = 2
  DefaultTimeout = 3600
  AllowShell = TRUE
  Requests <- RunnerRequests
  Statements = 2
  MaxSignals = 2
  NoName = NoName
  NoCode = NoCode
INVARIANTS
  TypeOK
  ExitZeroMeansApplied
  OneClientAtATime
  StopIsRespected
  OnlyPinnedContent
  HintIsTheFrontier
  DryRunProvesTargets
  KnownClientsAreStopped
PROPERTIES
  ImplementsPromise
  NothingStartsAfterASignal
  Terminates
  SignalEndsTheRun

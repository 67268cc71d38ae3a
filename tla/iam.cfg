SPECIFICATION Spec
CHECK_DEADLOCK FALSE
CONSTANTS
  User = {"etl", "orders"}
  Names <- MCNames
  Engines = {"postgres", "mysql"}
  Inputs <- MixedInputs
  HandLogins = {TRUE, FALSE}
  NoInput = NoInput
  NoCall = NoCall
  NoTask = NoTask
  MaxChanges = 2
  MaxHands = 1
  MaxLate = 1
INVARIANTS
  TypeOK
PROPERTIES
  AppliedUsersHaveTokens
  LeaversHaveLeft
  OnlyLeaversLoseLogin

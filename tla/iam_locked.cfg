SPECIFICATION Spec
CHECK_DEADLOCK FALSE
CONSTANTS
  User = {"etl", "orders"}
  Names <- MCNames
  Engines = {"mysql"}
  Inputs <- RevokeInputs
  HandLogins = {TRUE}
  NoInput = NoInput
  NoCall = NoCall
  NoTask = NoTask
  MaxChanges = 2
  MaxHands = 1
  MaxLate = 0
PROPERTIES
  AppliedUsersCanLogIn

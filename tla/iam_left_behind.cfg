SPECIFICATION Spec
CHECK_DEADLOCK FALSE
CONSTANTS
  User = {"etl", "orders"}
  Names <- MCNames
  Engines = {"postgres"}
  Inputs <- RevokeInputs
  HandLogins = {TRUE, FALSE}
  NoInput = NoInput
  NoCall = NoCall
  NoTask = NoTask
  MaxChanges = 2
  MaxHands = 0
  MaxLate = 0
PROPERTIES
  UsersLeaveAsDeclared

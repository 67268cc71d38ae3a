SPECIFICATION Spec
CONSTANTS
  Stacks <- MCStacks
  e1 = e1
  e2 = e2
  e3 = e3
  Threshold <- MCThreshold
  Notice <- MCNotice
  MaxRetries = 2
  Event <- MCEvent
  RoleEvents <- MCRoleEvents
  MaxErrors = 2
INVARIANTS
  TypeOK
  ContainedUntilReleased
  HonestDigest
PROPERTIES
  BreachContainsOrPages

CONSTANTS
  i1 = i1
  i2 = i2
  NoControl = NoControl
  Control = {i1, i2}
  MaxScopes = 2
  MaxSessions = 2
  MaxInputs = 2
  MaxChanges = 3
SPECIFICATION Spec
INVARIANTS FailedReleaseCanBeRetried
CHECK_DEADLOCK FALSE

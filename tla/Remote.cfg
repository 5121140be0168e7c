CONSTANTS
  i1 = i1
  i2 = i2
  NoControl = NoControl
  Control = {i1, i2}
  MaxScopes = 2
  MaxSessions = 2
  MaxInputs = 2
  MaxChanges = 3
SPECIFICATION FairSpec
INVARIANTS TypeOK LiveHostIsConnected OnlyTheHostActs HostsDoNotMix HoldsAreOwed LossIsReported
PROPERTIES HoldsAreReleased ShutdownCompletes
CHECK_DEADLOCK FALSE

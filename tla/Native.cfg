CONSTANTS
  a1 = a1
  a2 = a2
  NoClient = NoClient
  NoSdp = NoSdp
  MaxCaptures = 3
  MaxFrames = 3
  MaxReads = 3
  Client = {a1, a2}
  MaxTotal = 3
  SdpClient = {a1, a2}
  MaxQueries = 3
  MaxPlaces = 3
  MaxCloses = 3
  MaxPopups = 3
  MaxForwards = 3
SPECIFICATION Spec
INVARIANTS NativeTypeOK ThreadsAreOwned ThreadHasItsDevice IdleHoldsNothing
  ReferencesBalance DeviceFollowsPhase OneClient StatusIsFresh OnePopup
PROPERTIES ImplementsFeed StopsReturn LateAnswersAreDropped UnplugCompletes
  RestoredPlacementIsWhole CloseQuits
CHECK_DEADLOCK FALSE

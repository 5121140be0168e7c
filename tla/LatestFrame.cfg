CONSTANTS
  MaxCaptures = 1
  MaxFrames = 2
SPECIFICATION WSpec
PROPERTIES LatestFrameIsShown
CHECK_DEADLOCK FALSE

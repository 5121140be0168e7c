CONSTANTS
  c1 = c1
  c2 = c2
  Polled = {c1, c2}
  MaxTurns = 2
  MaxStarts = 2
SPECIFICATION pollSpec
PROPERTIES OldLoopsEnd
CHECK_DEADLOCK FALSE

CONSTANTS
  c1 = c1
  c2 = c2
  s1 = s1
  NoSlot = NoSlot
  NoCell = NoCell
  Cell = {c1, c2}
  Slot = {s1}
  Textual = {c1}
  MaxEdits = 3
  MaxAnswers = 2
  SlotOf <- MCSlotOf
  Polled = {c1}
  MaxTurns = 2
  MaxStarts = 3
SPECIFICATION BothSpec
INVARIANTS BothTypeOK FlushedIsSent FlushedTextIsCurrent TasksArePolled
PROPERTIES EditsLandInOrder FlushReturns StopEndsLoops PolledValuesConverge
CHECK_DEADLOCK FALSE

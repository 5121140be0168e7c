CONSTANTS
  c1 = c1
  c2 = c2
  s1 = s1
  NoSlot = NoSlot
  NoCell = NoCell
  Cell = {c1, c2}
  Slot = {s1}
  Textual = {c1}
  MaxEdits = 2
  MaxAnswers = 2
  SlotOf <- MCSlotOf
SPECIFICATION TimedSpec
INVARIANTS SettledInSync
CHECK_DEADLOCK FALSE

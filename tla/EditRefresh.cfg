CONSTANTS
  c1 = c1
  c2 = c2
  s1 = s1
  NoSlot = NoSlot
  NoCell = NoCell
  Cell = {c1, c2}
  Slot = {s1}
  Textual = {c1}
  MaxEdits = 3
  MaxAnswers = 2
  SlotOf <- MCSlotOf
SPECIFICATION TimedSpec
INVARIANTS OneRefresh
CHECK_DEADLOCK FALSE

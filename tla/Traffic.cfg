CONSTANTS
  r1 = r1
  r2 = r2
  r3 = r3
  null = null
  NoReq = NoReq
  NoFrame = NoFrame
  Absent = null
  Req = {r1, r2, r3}
  Slots <- MCSlots
  Params <- MCParams
  Ops <- MCOps
  Kind <- MCKind
  Recovery = 3
SYMMETRY Symmetry
SPECIFICATION TrafficSpec
INVARIANTS TypeOK StrictAttribution DebtCoversTransit NeverStranded NothingOutlivesItsRequest
INVARIANTS SendBudget
PROPERTIES ImplementsLine
CHECK_DEADLOCK FALSE

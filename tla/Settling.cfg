CONSTANTS
  r1 = r1
  r2 = r2
  null = null
  NoReq = NoReq
  NoFrame = NoFrame
  Absent = null
  Req = {r1, r2}
  Slots <- MCSlots
  Params <- MCParams
  Ops <- MCOps
  Kind <- MCKind
  Recovery = 3
SPECIFICATION FairSpec
PROPERTIES EveryRequestSettles
CHECK_DEADLOCK FALSE

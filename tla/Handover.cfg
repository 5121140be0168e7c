CONSTANTS
  r1 = r1
  null = null
  NoReq = NoReq
  NoFrame = NoFrame
  Absent = null
  Req = {r1}
  Slots <- MCSlots
  Params <- MCNothing
  Ops <- MCNothing
  Kind <- MCKind
  Recovery = 3
  OldKey <- MCOldKey
  OldRetries = 2
SPECIFICATION HandoverSpec
INVARIANT StrictAttribution
CHECK_DEADLOCK FALSE

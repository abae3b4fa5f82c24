SPECIFICATION LiveSpec
CONSTANTS
  Pay = {p1, p2}
  Slot = {s1}
  NoTx = NoTx
  NoSlot = NoSlot
  Overlap <- PayWithSettle
  Faults = FALSE
  LagReads = FALSE
  Unreadable = {p1}
CHECK_DEADLOCK FALSE
PROPERTY SignedOnCurrentNonce

PROPERTY QueueDrains

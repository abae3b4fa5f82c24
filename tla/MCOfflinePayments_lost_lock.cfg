SPECIFICATION Spec
CONSTANTS
  Pay = {p1, p2}
  Slot = {s1}
  NoTx = NoTx
  NoSlot = NoSlot
  Overlap <- PayWithSync
  Faults = FALSE
  LagReads = FALSE
  Unreadable = {}
CHECK_DEADLOCK FALSE
SYMMETRY Symmetry
PROPERTY PendingSlotsPinned

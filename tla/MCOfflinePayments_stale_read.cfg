SPECIFICATION Spec
CONSTANTS
  Pay = {p1, p2}
  Slot = {s1}
  NoTx = NoTx
  NoSlot = NoSlot
  Overlap <- Serial
  Faults = FALSE
  LagReads = TRUE
  Unreadable = {}
CHECK_DEADLOCK FALSE
SYMMETRY Symmetry
PROPERTY SignedOnCurrentNonce

SPECIFICATION Spec
CONSTANTS
  Pay = {p1, p2}
  Slot = {s1}
  NoTx = NoTx
  NoSlot = NoSlot
  Overlap <- SettleWithAny
  Faults = FALSE
  LagReads = TRUE
  Unreadable = {}
CHECK_DEADLOCK FALSE
SYMMETRY Symmetry
INVARIANT NoncesExclusive
INVARIANT OpenPaymentHoldsItsSlot
PROPERTY PendingSlotsPinned

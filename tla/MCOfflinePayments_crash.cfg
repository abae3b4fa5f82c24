SPECIFICATION Spec
CONSTANTS
  Pay = {p1, p2}
  Slot = {s1}
  NoTx = NoTx
  NoSlot = NoSlot
  Overlap <- Serial
  Faults = TRUE
  LagReads = FALSE
  Unreadable = {}
CHECK_DEADLOCK FALSE
SYMMETRY Symmetry
INVARIANT TypeOK
INVARIANT NoPaymentForgotten
INVARIANT SettledIsOnChain
INVARIANT BackupOnlyWhileQueued
PROPERTY LedgerSpec

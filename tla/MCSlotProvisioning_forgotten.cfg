SPECIFICATION Spec
CONSTANTS
  Account = {a1, a2, a3}
  NoAccount = NoAccount
  MinSlots = 1
  MaxSlots = 2
  Target = 2
  Overlap <- Serial
  Interrupted = {}
  EarlyReads = TRUE
CHECK_DEADLOCK FALSE
SYMMETRY Symmetry
INVARIANT RentKnown

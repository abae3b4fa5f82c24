SPECIFICATION Spec
CONSTANTS
  Account = {a1, a2, a3}
  NoAccount = NoAccount
  MinSlots = 1
  MaxSlots = 2
  Target = 2
  Overlap <- Serial
  Interrupted = {"poll", "prepare"}
  EarlyReads = FALSE
CHECK_DEADLOCK FALSE
SYMMETRY Symmetry
INVARIANT OfferedIsUsable
INVARIANT OwedIsOpen

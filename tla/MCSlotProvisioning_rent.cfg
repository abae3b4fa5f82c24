SPECIFICATION Spec
CONSTANTS
  Account = {a1, a2}
  NoAccount = NoAccount
  MinSlots = 1
  MaxSlots = 1
  Target = 1
  Overlap <- PollWithPrepare
  Interrupted = {"poll", "prepare", "reclaim"}
  EarlyReads = FALSE
CHECK_DEADLOCK FALSE
SYMMETRY Symmetry
INVARIANT TypeOK
INVARIANT RentListed
INVARIANT RentBounded

SPECIFICATION Spec
CONSTANTS
  Quote = {q1, q2}
  Metis = {q2}
  NoQuote = NoQuote
  Req = {r1, r2}
  NoReq = NoReq
  Outlives = FALSE
SYMMETRY Symmetry
INVARIANT SwappedWasReviewed
INVARIANT DoneIsSwapped
INVARIANT LapsedIsUnsent
PROPERTY SubmittedOnce
CHECK_DEADLOCK FALSE

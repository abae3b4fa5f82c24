SPECIFICATION Spec
CONSTANTS
  Quote = {q1, q2}
  Metis = {}
  NoQuote = NoQuote
  Req = {r1, r2}
  NoReq = NoReq
  Outlives = FALSE
SYMMETRY Symmetry
PROPERTY AttemptIsAwaited
CHECK_DEADLOCK FALSE

SPECIFICATION Spec
CONSTANTS
  Session = {screen, chat}
  Screen = {screen}
  Key = {k1}
  NoKey = NoKey
  Draft = {d1, d2}
  NoDraft = NoDraft
  Req = {r1, r2, r3}
  NoReq = NoReq
  Outlives = FALSE
SYMMETRY Symmetry
INVARIANT OneOrderPerKey
PROPERTY SubmittedOnce
INVARIANT DoneIsPlaced
INVARIANT ExpiredIsNeverSent
CHECK_DEADLOCK FALSE

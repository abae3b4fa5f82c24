SPECIFICATION Spec
CONSTANTS
  Session = {screen}
  Screen = {screen}
  Key = {k1}
  NoKey = NoKey
  Draft = {d1}
  NoDraft = NoDraft
  Req = {r1, r2}
  NoReq = NoReq
  Outlives = FALSE
PROPERTY CancelledIsNotSubmitted
CHECK_DEADLOCK FALSE

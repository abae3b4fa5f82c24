SPECIFICATION Spec
CONSTANTS
  a1 = a1
  a2 = a2
  a3 = a3
  k1 = k1
  k2 = k2
  Account = {a1, a2, a3}
  Key = {k1, k2}
  Asks <- MCAsks
  Req = {r1, r2}
  NoReq = NoReq
  NoKey = NoKey
  Min = 1
  Max = 2
  Outlives = FALSE
SYMMETRY Symmetry
INVARIANT OnePreparer
INVARIANT PoolWithinMax
INVARIANT AnswersAgree
PROPERTY KeepsThePool

SPECIFICATION Spec
CONSTANTS
  d1 = d1
  d2 = d2
  p1 = p1
  p2 = p2
  p3 = p3
  w1 = w1
  w2 = w2
  Device = {d1, d2}
  Payment = {p1, p2, p3}
  Wallet = {w1, w2}
  Named = {d1, d2}
  From <- MCFrom
  To <- MCTo
  Frames = 2
  MaxPending = 3
  MaxStarts = 1
  InOrder = TRUE
  NoName = NoName
  NoWallet = NoWallet
INVARIANT SharedIsHanded
CHECK_DEADLOCK FALSE

SPECIFICATION FairSpec
CONSTANTS
  Count = 2
  Content = {c1}
  Malformed = Malformed
  Pass = {p1, p2}
  NoPass = NoPass
  Routing = {q1}
  NoRouting = NoRouting
  Outcomes = {"submitted", "deposited_unclaimed"}
INVARIANT TypeOK
INVARIANT SentOnce
INVARIANT SentIsMarked
INVARIANT CompletedIsPaid
PROPERTY PaidAsABatch
PROPERTY RunningEnds

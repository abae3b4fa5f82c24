SPECIFICATION Spec
CONSTANTS
  Count = 2
  Content = {c1}
  Malformed = Malformed
  Pass = {p1}
  NoPass = NoPass
  Routing = {q1}
  NoRouting = NoRouting
  Outcomes = {"submitted"}
INVARIANT SkippedIsNotSent

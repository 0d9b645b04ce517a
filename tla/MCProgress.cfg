SPECIFICATION FairSpec
CONSTANTS
  None = None NoId = NoId Never = Never
  e1 = e1 e2 = e2 r1 = r1 r2 = r2
  u1 = u1 u2 = u2 q1 = q1 i1 = i1 i2 = i2 w1 = w1 w2 = w2
PROPERTIES
  WorkEnds
  ServicesKeepUp
  RunsEnd
  ClientsAreServed
CHECK_DEADLOCK FALSE

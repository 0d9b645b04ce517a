SPECIFICATION FairSpec
CONSTANTS
  w1 = w1 w2 = w2 t1 = t1 t2 = t2 t3 = t3 t4 = t4
  a1 = a1 a2 = a2
  Unbound = Unbound NoSession = NoSession NoToken = NoToken
  Agents = {a1, a2}
  Sessions <- MCSessions
  SessionOf <- MCSessionOf
  LockKeys = {"k1"}
  LocksOf <- MCLocksOf
  Workers = {w1, w2}
  RetryDelay <- MCRetryDelay
  Tokens = {t1, t2, t3}
  Lease = 1
  MaxEvents = 2
  RoutePlans <- SettlingPlans
  MessageTargets <- NoInput
  CancelTargets <- SettlingCancels
  Failures <- SettlingFailures
  MaxAttempts = 2
  MaxStarts = 3
  MaxLosses = 1
INVARIANTS
  TypeOK
  LockExclusion
  LocksFollowClaims
PROPERTIES
  WorkSettles

SPECIFICATION MCSpec
CONSTANTS
  a1 = a1 a2 = a2 w1 = w1 w2 = w2 t1 = t1 t2 = t2 t3 = t3 t4 = t4
  Unbound = Unbound NoSession = NoSession NoToken = NoToken
  Agents = {a1, a2}
  Sessions <- MCSessions
  SessionOf <- MCSessionOf
  LockKeys = {"k1"}
  LocksOf <- MCLocksOf
  Workers = {w1, w2}
  Tokens = {t1, t2, t3, t4}
  RetryDelay <- MCRetryDelay
  RoutePlans <- MCRoutePlans
  MessageTargets <- MCNone
  CancelTargets <- QueueItemIds
  Failures = {"network_error", "agent_spec_invalid"}
  MaxEvents = 2
  Lease = 1
  MaxAttempts = 2
  MaxStarts = 4
  MaxLosses = 2
SYMMETRY Symmetry
INVARIANTS
  SessionOrder
  OutcomeFollowsHistory
  ReplayAgrees
PROPERTIES
  FencedCommit

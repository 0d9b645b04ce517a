SPECIFICATION Spec
CONSTANTS
  Never = Never
  MaxEffects = 2
  Unsafe = {1}
  Unplannable = {}
  EgressLease = 2
  Heartbeat = 1
  MaxTokens = 4
  EgressCapacity = 2
  Timers = {"schedule"}
  Interval <- MCInterval
  MaxAttempts = 2
  RetryDelay = 1
  MaxCrashes = 1
  MaxLosses = 1
  MaxSlips = 3
INVARIANTS
  UnsafeAtMostOnce
  OneOwnerPerDelivery
PROPERTIES
  SettledIsFinal

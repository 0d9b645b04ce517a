SPECIFICATION BusySpec
CONSTANTS
  Never = Never
  MaxEffects = 1
  Unsafe = {1}
  Unplannable = {}
  EgressLease = 2
  Heartbeat = 1
  MaxTokens = 4
  EgressCapacity = 2
  Timers = {"schedule"}
  Interval <- MCInterval
  MaxAttempts = 2
  RetryDelay = 1
  MaxCrashes = 1
  MaxLosses = 0
  MaxSlips = 1
PROPERTIES
  UncertainBecomesAmbiguous

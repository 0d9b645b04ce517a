SPECIFICATION BusySpec
CONSTANTS
  Never = Never
  MaxEffects = 1
  Unsafe = {}
  Unplannable = {}
  EgressLease = 2
  Heartbeat = 1
  MaxTokens = 4
  EgressCapacity = 2
  Timers = {"schedule", "subscription"}
  Interval <- MCInterval
  MaxAttempts = 2
  RetryDelay = 1
  MaxCrashes = 0
  MaxLosses = 0
  MaxSlips = 1
PROPERTIES
  DueTicksAreServed

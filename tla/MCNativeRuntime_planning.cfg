SPECIFICATION BusySpec
CONSTANTS
  Never = Never
  MaxEffects = 2
  Unsafe = {}
  Unplannable = {1}
  EgressLease = 2
  Heartbeat = 1
  MaxTokens = 4
  EgressCapacity = 2
  Timers = {"schedule"}
  Interval <- MCInterval
  MaxAttempts = 2
  RetryDelay = 1
  MaxCrashes = 0
  MaxLosses = 0
  MaxSlips = 1
PROPERTIES
  PublishedIsPlanned

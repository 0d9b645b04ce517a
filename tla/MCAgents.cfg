SPECIFICATION AgentsSpec
CONSTANTS
  None = None NoId = NoId
  w1 = w1 w2 = w2 i1 = i1 i2 = i2
  u1 = u1 u2 = u2 d1 = d1 q1 = q1
  Ups = {u1, u2}
  Downs = {d1}
  Statuses = {q1}
  Reloads = {}
  Detached = {u1}
  MaxCrashes = 1
INVARIANTS
  RecordedBeforeSeen
  CallsAreAnswered
  HostIsShared
  AnswersAreFaithful
  CallsAreAssembled
  PatchesAreAllOrNothing
  EditsMeanWhatWasSeen
  TerminalLosesNothing
  EndsAgree
  FramesAreLines
  RequestsAreAnswered
  OwnerIsReachable
  CommandsTellTheTruth
PROPERTIES
  RunningMeansServing
CHECK_DEADLOCK FALSE

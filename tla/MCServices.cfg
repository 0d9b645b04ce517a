SPECIFICATION ServicesSpec
CONSTANTS
  None = None k1 = k1 k2 = k2
  e1 = e1 e2 = e2 r1 = r1 r2 = r2
  Events = {e1, e2}
  Revisions = {r1, r2}
  First = r1
  Unroutable = {}
  Unadoptable = {}
  Capacity = 2
  MaxAttempts = 2
  MaxClaims = 2
  MaxCrashes = 0
  MaxReloads = 0
SYMMETRY Symmetry
INVARIANTS
  ResourcesEndOnce
  ControlsTakeEffectOnce
  OccurrencesAreExact
  ClaimsAreServed
  RevisionsAreKept
  PollsLoseNothing
  RoutesMeanTheirPatterns
CHECK_DEADLOCK FALSE

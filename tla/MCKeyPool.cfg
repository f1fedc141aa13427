SPECIFICATION Spec
CONSTANTS
  MaxInFlightPerKey = 2
  NKeys = 2
  Requests = {r1, r2}
  RetryAfters = {2}
  RateLimitBenchCap = 1
  AuthFailureCooldown = 2
  MaxTime = 1
  MaxNotes = 1
SYMMETRY RequestSymmetry
INVARIANTS
  TypeOK
  NoFalseRefusal
PROPERTIES
  BenchedKeyNeverLeased
  ExcludedKeyIsLastResort

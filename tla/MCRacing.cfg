SPECIFICATION Spec
CONSTANTS
  Models = {m1, m2, m3}
  Keys = {k1, k2}
  NoKey = NoKey
  KeySlots = 2
  MaxUpstream = 2
  Adaptive = TRUE
  MaxParallel = 2
  MinParallel = 1
  PressureParallel = 2
  DegradedParallel = 2
  PromptParallel = 1
  MaxRetries = 2
  LegTimeout = 1
  TotalTimeout = 2
  AdmissionWait = 1
CHECK_DEADLOCK FALSE
INVARIANTS
  SlotsAccounted
  AnsweredByDeadlineAndWait
PROPERTIES
  AnsweredAndReleased

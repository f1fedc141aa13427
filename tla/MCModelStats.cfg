SPECIFICATION Spec
CONSTANTS
  m1 = m1
  m2 = m2
  Models <- TwoModels
  Upstream = {m1, m2}
  FastModels <- FastOnly
  KeyLabels = {k1}
  Legs = {1, 2}
  Latencies = {1, 3}
  SpikeThreshold = 2
  RingSize = 1
  SampleFloor = 1
  TriedAfter = 1
  FailureLimit = 2
  HardErrorFailures = 2
  TimeoutLimit = 1
  Quarantine = 1
  TurnLimit = 1
  MaxTime = 1
  MaxReports = 2
  MaxFailures = 1
CHECK_DEADLOCK FALSE
INVARIANTS
  TypeOK
  TimeoutStateCoherent
  KeyFailuresAccounted
  RaceListSound

SPECIFICATION HedgeFairSpec
CONSTANTS
  Attempts = 2
  Rings <- SomeRings
  AdmissionWait = 1
  Slack = 0
  FixedRail <- Unset
  MaxTimeout = 3
  MinTimeout = 2
  SampleFloor = 2
  BufferFloor = 1
  HedgeMargin = 1
  HedgeFixedDelay = 2
  RailHeadroom = 1
 
PROPERTIES
  HedgeStartsInSilence
  EveryCallEnds

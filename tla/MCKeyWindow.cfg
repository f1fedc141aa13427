SPECIFICATION WindowSpec
CONSTANTS
  MaxInFlightPerKey = 8
  AimdMaxSuccessBar = 8
INVARIANTS
  WindowTypeOK
  AdaptiveNeverBehindFixed
  RecoveredAfterStreak

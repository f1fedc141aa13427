SPECIFICATION Spec
CONSTANTS
  MaxLines = 3
  MaxPartialLine = 3
CHECK_DEADLOCK FALSE
INVARIANTS
  TypeOK
  TapCountsWhatWasForwarded
  NoTruncationLoggedAsSuccess
  RecordAgreesWithClient
PROPERTIES
  RecordWritten

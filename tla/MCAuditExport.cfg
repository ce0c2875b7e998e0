SPECIFICATION Spec
CONSTANTS
  MaxRecords = 4
  Tears = TRUE
  Sinks <- MCFileAndHttp
INVARIANT FileChainIntact
INVARIANT ExportedOnce
PROPERTY DrainedOnStop
CHECK_DEADLOCK FALSE

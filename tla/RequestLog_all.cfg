SPECIFICATION FairSpec
CONSTANTS
  Requests = {r1}
  MaxTries = 3
  MaxFailures = 2
  Streaming = TRUE
CHECK_DEADLOCK FALSE
INVARIANTS ShowsLastAttempt ShowsEnd
PROPERTIES RowsClose

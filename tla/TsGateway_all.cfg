SPECIFICATION FairGatewaySpec
CONSTANTS
  a = a
  b = b
  c = c
  d = d
  Routes = {a, b, c, d}
  Initial = a
  Mode <- MCMode
  Candidates <- MCCandidates
  Policies <- MCPolicies
  MaxElsewhere = 2
  MaxChunks = 2
  MaxLogged = 1
CHECK_DEADLOCK FALSE
INVARIANTS ExhaustedOnlyByRace RowTellsTheEnd CompleteMeansWhole
PROPERTIES AnsweredAndRecorded

SPECIFICATION FairSpec
CONSTANTS
  a = a
  b = b
  c = c
  d = d
  Channels <- MCChannels
  Mode <- MCMode
  Policies <- MCPolicies
CHECK_DEADLOCK FALSE
INVARIANTS AnswerAccounted EndsOnce PermitCoversSend
PROPERTIES Answered

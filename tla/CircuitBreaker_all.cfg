SPECIFICATION FairBreakerSpec
CONSTANTS
  Keys = {k1, k2}
  Attempts = {a1, a2}
  Policies <- MCPolicies
  Horizon = 3
  StreakCap = 2
INVARIANTS StreakDecides
PROPERTIES ProbeSpacing Recovers

SPECIFICATION Spec
CONSTANTS
  Requests = {r1, r2, r3}
  c1 = c1
  c2 = c2
  m1 = m1
  g1 = g1
  Channels <- MCChannels
  Models <- MCModels
  Rules <- MCRules
  Routes <- MCRoutes
  Limits <- MCLimits
  NoLimit = NoLimit
  NoRule = NoRule
  NoPermit = NoPermit
SYMMETRY MCSymmetry
INVARIANTS CountersMatch NeverOverPeak
PROPERTIES ImplementsPool

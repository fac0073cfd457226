SPECIFICATION CooldownSpec
CONSTANTS
  ChannelNames = {c1}
  Models = {m1, m2}
  Attempts = {a1, a2}
  BaseCooldown = 2
  MinCooldown = 1
  MaxCooldown = 4
  RetryAfters = {0, 9}
  NoHeader = NoHeader
  Jitter <- MCJitter
  CountCap = 2
INVARIANTS CooldownWindow
PROPERTIES DocumentedBackoff

SPECIFICATION Spec
CONSTANTS
  Admins = {a1, a2}
  Syncs = {s1, s2}
  TTL = 1
  MaxWrites = 2
  MaxClock = 1
  MaxDrops = 1
CHECK_DEADLOCK FALSE
INVARIANTS SyncedWhenQuiet StaleAtMostTTL NoLostWakeup

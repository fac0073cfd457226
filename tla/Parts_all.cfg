SPECIFICATION PartsSpec
CONSTANTS
  Names = {n1, n2}
  Rules = {r1}
  Handlers = {h1, h2}
  NoRow = NoRow
  NoRule = NoRule
  NoName = NoName
  MaxOps = 3
  MaxFaults = 1
  Rows = {w1, w2}
  Absent = Absent
  NoOne = NoOne
  MaxEdits = 3
  MaxFailed = 1
  MaxFlying = 2
  Filters = {f1, f2}
  Requests = {q1, q2}
  None = None
  MaxVisits = 1
  MaxBreaks = 1
  MaxNet = 2
  c1 = c1
  c2 = c2
  c3 = c3
  Collated <- ByName
  Bytewise <- ByBytes
  ModelNames = {m1, m2}
  AliasName = m1
  NoEntry = NoEntry
  MaxTargets = 2
  MaxText = 5
  MaxPiece = 3
  MaxCalls = 2
  MaxOdd = 3
  Unset = Unset
  NoAuth = NoAuth
  NoChannel = NoChannel
  NoForm = NoForm
  MaxWrites = 2
  Uuids <- Channels2
  NameOf <- Named
  NewName = "c9"
  NoAlias = NoAlias
  NotGiven = NotGiven
  AliasModels = {"m"}
  MaxDrafts = 2
  MaxAliasOps = 2
  NotSet = NotSet
  Unavailable = Unavailable
  Low <- Lows
  High <- Highs
  CodeDefault <- Codes
  Times = {0, 2, 9}
  MaxTimeoutOps = 2
  NotTold = NotTold
  MostRetries = 1
  MostRules = 2
  MostFallbacks = 3
  Logged = {g1, g2}
  LogRoutes <- Channels2
  TypeOf <- LogTypes
  KeyNames = {"k"}
  NotLogged = NotLogged
  All = All
  MaxHour = 1
  Untold = Untold
  MaxLength = 3
  LeftOut = LeftOut
  MaxItems = 4
  Field = 2
  SafeTail = 3
  MaxPolicyOps = 2
  CatalogModels = {"a", "b"}
  Dropped = "a"
  CatalogTTL = 2
  FetchCooldown = 1
  NotLoaded = NotLoaded
  LastTick = 3
  NoPrice = NoPrice
  HalfPrice = HalfPrice
  NoDialog = NoDialog
  MaxListed = 3
  KeySyncs = {k1, k2}
  NoQuota = NoQuota
  NotMade = NotMade
  Deleted = Deleted
  NoSync = NoSync
  MaxKeyOps = 3
  MaxKeyFaults = 2
CHECK_DEADLOCK FALSE
INVARIANTS RegistryKept DashboardTrue RoutesAgree FormsShown LogsAgree UsageSettled KeysAgree RequestMeaningKept AnswerKept
PROPERTY FormsKeep

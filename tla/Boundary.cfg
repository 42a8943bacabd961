SPECIFICATION MCSpec
CONSTANTS
  NULL = NULL
  Bytes = {48, 49}
  MaxTenant = 2
  MaxSource = 2
  MaxEventId = 2
  MaxRows = 1
  MaxInstant = 5
  MaxAttempts = 2
  Durations = {0, 1, 2, 4, 6}
  MAX_LEASE = 2
  MAX_BACKOFF_OR_DELAY = 4
  c2 = c2
  Connections = {c1, c2}
  Servers <- MCServers
  Tenants = {"a", "b"}
  Ids = {1, 2}
  Conns = {"app", "worker"}
  AdminConns = {"worker"}
  Admin = "admin"
  Times = {0, 2, 3, 4, 8}
  Epoch = 2
  MaxTime = 6
  IdLengths = {1, 3}
  MAX_IDENTITY_BYTES = 2
  DEFAULT_LIMIT = 21
  MAX_LIMIT = 99
  Base = 3
  Seconds = 3
  ReleaseDelays = {0, 1, 5, 27}
INVARIANTS
  RowsUsable
  SessionsSafe
  TenantsApart
  EncodingFaithful
  TimestampsFaithful
PROPERTIES
  RowsKept
  DuplicateExactly
CHECK_DEADLOCK FALSE

SPECIFICATION MCSpec
CONSTANTS
  Rows = {1, 2}
  Tokens = {a, b}
  NoToken = NoToken
  T1 = T1
  T2 = T2
  Tenants = {T1, T2}
  Admin = Admin
  TenantOf <- MCTenantOf
  Scopes = {T1, Admin}
  Kinds = {"ack"}
  Leases = {1, 2}
  Delays = {1}
  ImportSkew = 1
  MaxAttempts = 2
  MaxTime = 1
  s1 = s1
  s2 = s2
  Sessions = {s1, s2}
  Free = Free
  Readers = {p}
  Limits = {1, 2}
  Timeout = 1
  Retries = 1
INVARIANTS
  IInv
  WaitBound
PROPERTIES
  LifecycleRefined
  ScopedWrites
  OldestFirst
  CallsEnd

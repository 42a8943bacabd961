SPECIFICATION MCSpec
CONSTANTS
  Rows = {1}
  Tokens = {a}
  NoToken = NoToken
  T1 = T1
  T2 = T2
  Tenants = {T1}
  Admin = Admin
  TenantOf <- MCTenantOf
  Scopes = {Admin}
  Kinds = {"ack"}
  Leases = {1}
  Delays = {1}
  ImportSkew = 0
  MaxAttempts = 1
  MaxTime = 1
  s1 = s1
  s2 = s2
  Sessions = {s1, s2}
  Free = Free
  Readers = {p}
  Limits = {2}
  Timeout = 1
  Retries = 0
INVARIANTS
  BusyBudget

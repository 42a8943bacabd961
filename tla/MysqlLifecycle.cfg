SPECIFICATION MCSpec
CONSTANTS
  Rows = {1, 2}
  Tokens = {a, b}
  NoToken = NoToken
  T1 = T1
  T2 = T2
  Tenants = {T1, T2}
  Admin = Admin
  TenantOf <- MCTenantOf
  Scopes = {T1, Admin}
  Kinds = {"renew", "ack"}
  Leases = {2}
  Delays = {1}
  ImportSkew = 0
  MaxAttempts = 2
  MaxTime = 2
  s1 = s1
  s2 = s2
  Sessions = {s1, s2}
  Free = Free
  Limits = {1, 2}
INVARIANTS
  IInv
PROPERTIES
  FencingRefined
  ScopedWrites
  WholeSearch
  CallsEnd

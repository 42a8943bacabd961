SPECIFICATION Spec
CONSTANTS
  Rows = {1, 2}
  Tokens = {a, b}
  NoToken = NoToken
  T1 = T1
  T2 = T2
  Tenants = {T1, T2}
  Admin = Admin
  TenantOf <- MCTenantOf
  Scopes = {T1, Admin}
  Kinds = {"renew", "ack", "retry", "release", "quarantine"}
  Leases = {1, 2}
  Delays = {0, 1}
  ImportSkew = 1
  MaxAttempts = 2
  MaxTime = 2
SYMMETRY TokenSymmetry
INVARIANTS
  IInv
PROPERTIES
  PromisesKept
  FencingRefined
CHECK_DEADLOCK FALSE

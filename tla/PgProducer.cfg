SPECIFICATION MCSpec
CONSTANTS
  Ids = {i1, i2}
  Contents = {c1, c2}
  Stamps = {d1}
  Sessions = {s1, s2}
  MaxCalls = 2
  T1 = T1
  T2 = T2
  i1 = i1
  i2 = i2
  c1 = c1
  Tenants = {T1, T2}
  TenantOf <- MCTenantOf
INVARIANTS
  IInv
PROPERTIES
  LedgerRefined
  CallsEnd

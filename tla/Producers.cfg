SPECIFICATION MCSpec
CONSTANTS
  Ids = {i1, i2}
  Contents = {c1, c2}
  Stamps = {d1}
  Sessions = {s1, s2}
  MaxCalls = 2
  i1 = i1
  c1 = c1
  s2 = s2
  Free = Free
  NoView = NoView
  MAX_RECORD_CHANGED_RETRIES = 1

  
  
PROPERTIES
  LedgerRefined
  CallsEnd

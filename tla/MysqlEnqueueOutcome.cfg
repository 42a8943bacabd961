SPECIFICATION Spec
CONSTANTS
  Ids = {i1, i2}
  Contents = {c1}
  Stamps = {}
  Sessions = {s1, s2}
  MaxCalls = 2
  Free = Free
  NoView = NoView
  MAX_RECORD_CHANGED_RETRIES = 1
INVARIANTS
  OutcomeResolved

SPECIFICATION MCSpec
CONSTANTS
  T1 = T1
  T2 = T2
  Owners = {T1, T2}
  AllOwners = AllOwners
  Readers = {T1, AllOwners}
  Limits = {1, 2}
  MaxRow = 4
  BadRows = {4}
INVARIANTS
  SnapshotExact
  LivePagesComplete

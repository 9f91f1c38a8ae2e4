SPECIFICATION Spec
CONSTANTS
  k1 = k1
  k2 = k2
  k3 = k3
  k4 = k4
  k5 = k5
  v1 = v1
  v2 = v2
  Keys = {k1, k2, k3, k4, k5}
  Vals = {v1, v2}
  Inserts <- MCInserts
  Absent = Absent
  Free = Free
  Tombstone = Tombstone
  HASH_BITS = 3
  HASH <- MCHash
  MIN_CAP_ORDER = 1
  MAX_CAP_ORDER = 3
INVARIANTS
  TypeOK
  Findable
  RoomFound
PROPERTIES
  ImplementsMap

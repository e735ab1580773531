SPECIFICATION Spec
CONSTANTS
  Ids = {k1, k2, k3, k4}
  NullKey = NullKey
  NullBlk = NullBlk
  htable_size = 4
  BLOB_TTL_S = 0
  UINT32_MAX = 5
  MAX_NOW = 1
SYMMETRY Symmetry
INVARIANTS
  AllReachable
  LoopKeepsPaths
  EmptySlots
  ReaperFinds
PROPERTIES
  ImplementsMap
  CallsAdvance

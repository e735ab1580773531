SPECIFICATION Spec
CONSTANTS
  i1 = i1  i2 = i2  s1 = s1  s2 = s2
  b1 = b1  b2 = b2  c1 = c1  c2 = c2  c3 = c3
  Ids = {i1, i2}
  NoId = NoId
  Secrets = {s1, s2}
  NoSecret = NoSecret
  IdOf <- MCIdOfApart
  Blocks = {b1, b2}
  NoBlock = NoBlock
  BucketOf <- MCBucketsSame
  BLOB_ALLOC_LOG_OF_SIZE_MIN = 2
  BLOB_SIZE_MIN = 2
  BLOB_SIZE_MAX = 3
  HTABLE_SIZE = 2
  UINT32_MAX = 9
  Conns = {c1, c2}
  REQUESTS_MAX = 2
  BLOB_TTL_S = 1
  ContentLengths = {2}
  MAX_CHUNK = 2
  MAX_NOW = 2
SYMMETRY Symmetry
INVARIANT SlotsCounted

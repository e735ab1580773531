CONSTANTS
  BLOB_ALLOC_LOG_OF_SIZE_MIN = 2
  BLOB_LOG_OF_SIZE_MAX = 3
  BUCKET_T_SIZE = 3
  WIDTH = 8
  Sizes = {2, 4, 5}
  HELD_MAX <- MCHeldMax
  REQUESTS_MAX = 4
SPECIFICATION MCSpec
INVARIANTS ListsIntact HeldApart
PROPERTIES ImplementsPool ImplementsContexts

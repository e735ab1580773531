SPECIFICATION Spec
CONSTANTS
  Calls = {d1}
  SlowFrames = TRUE
INVARIANT SecretKept

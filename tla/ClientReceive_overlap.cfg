SPECIFICATION Spec
CONSTANTS
  Calls = {d1, d2}
  SlowFrames = FALSE
SYMMETRY Symmetry
INVARIANT TryAgain

SPECIFICATION Spec
CONSTANTS
  Keys = {a1, a2}
  NoKey = NoKey
  DEB_CAP = 2
  DEB_WINDOW_MS = 3
  CLOCK = 16
  MAX_TIME = 20
SYMMETRY Symmetry
INVARIANT RefusedOnlyInWindow

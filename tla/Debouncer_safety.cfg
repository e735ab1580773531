SPECIFICATION Spec
CONSTANTS
  Keys = {a1, a2, a3}
  NoKey = NoKey
  DEB_CAP = 2
  DEB_WINDOW_MS = 3
  CLOCK = 8
  MAX_TIME = 10
SYMMETRY Symmetry
INVARIANTS
  OncePerWindow
  OneEntryPerKey

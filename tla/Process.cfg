SPECIFICATION ProcessSpec
CONSTANTS
  MAX_PATH = 5
  MaxNameLength = 6
  Chars = {a, s}
  Spaces = {s}
  Nul = nul
  Capacity = 5
  Fonts <- MCFonts
  Keys = {k1, k2, k3}
  Data = {d1, d2}
  NULL = NULL
  HashSize = 2
  Lengths <- MCLengths
  Rounds <- MCRounds
CHECK_DEADLOCK FALSE
INVARIANTS LoaderRight TrimRight LifecycleRight DerivesRight
PROPERTIES HandlesRight EveryCallEnds

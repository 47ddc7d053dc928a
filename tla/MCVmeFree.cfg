SPECIFICATION Spec
CONSTANTS
  Addr = {a1, a2}
  Slot = {r1, r2}
  NULL = NULL
SYMMETRY Symmetric
INVARIANT FreeReleases

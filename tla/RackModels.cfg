CONSTANTS
  Urls = {u1, u2}
  Loads = {1, 2, 3}
  None = None
  Racks = {r1, r2}
  MaxRefs = 2
SPECIFICATION Spec
INVARIANTS CacheUsable ShownIsCurrent
PROPERTY Settles
CHECK_DEADLOCK FALSE

SPECIFICATION Spec
CONSTANTS
  c1 = c1
  c2 = c2
  c3 = c3
  c4 = c4
  Containers = {c1, c2, c3}
  Earlier = {}
  Label <- SameLabel
  MaxStops = 0
CHECK_DEADLOCK FALSE
INVARIANT
  CacheUsable

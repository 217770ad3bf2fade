SPECIFICATION FairSpec
CONSTANTS
  c1 = c1
  c2 = c2
  c3 = c3
  c4 = c4
  Containers = {c1}
  Earlier = {}
  Label <- SameLabel
  MaxStops = 1
CHECK_DEADLOCK FALSE
PROPERTY
  WaitEnds

SPECIFICATION FairSpec
CONSTANTS
  c1 = c1
  c2 = c2
  c3 = c3
  c4 = c4
  Containers = {c1, c2, c3, c4}
  Earlier = {c3, c4}
  Label <- SameLabel
  MaxStops = 1
CHECK_DEADLOCK FALSE
INVARIANTS
  TypeOK
  OnlyCompleteImages
  OnlyCompleteCached
  HandedOverAtTheEnd
  SuccessMeansImage
PROPERTIES
  ConvertsOnce
  PrepareReturns
  ConversionHeard

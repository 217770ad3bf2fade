SPECIFICATION Spec
CONSTANTS
  Inputs <- MCInputs
  Blank = "space"
  Places <- MCPlaces
  NamePlaces <- MCNamePlaces
  MergeChild <- Merge
CHECK_DEADLOCK FALSE
INVARIANTS
  TypeOK
  AllOrNothing
  OverlaysWin
  BaseKept
  OnlySaidChanges
  OnceIsEnough

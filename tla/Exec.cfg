SPECIFICATION FairSpec
CONSTANTS
  Execs = {e1, e2}
  MaxLimit = 2
  Unset = Unset
  Invalid = Invalid
INVARIANTS
  TypeOK
  TimedOutNotRun
  ReachedBefore
PROPERTIES
  BootIsWaitedFor
  LimitEndsRetries

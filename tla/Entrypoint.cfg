SPECIFICATION FairSpec
CONSTANT MaxReboots = 1
INVARIANTS
  TypeOK
  GracefulShutdown
  Restartable
PROPERTIES
  ImplementsVmRun
  StopHonoured
  VmEndEndsContainer

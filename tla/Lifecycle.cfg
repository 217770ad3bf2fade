SPECIFICATION FairSpec
CONSTANTS
  GenKey = GenKey
  NoKey = NoKey
  HostKeys = {k1, k2}
  MaxMounts = 2
  OptionSet <- AllOptions
INVARIANTS
  TypeOK
  BootsFullyProvisioned
  RandomKeyAuthorised
  CleanAfterDelete
  MountsMatchContainer
  RestartRepeatable
  UserImageUntouched
PROPERTIES
  DiskSurvivesRestart
  ImplementsVmInstance
  CallsReturn
  StartedBoots

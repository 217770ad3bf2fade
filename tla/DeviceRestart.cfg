SPECIFICATION Spec
CONSTANTS
  GenKey = GenKey
  NoKey = NoKey
  HostKeys = {k1, k2}
  MaxMounts = 2
  OptionSet <- DeviceOnly
INVARIANT
  RestartWorks

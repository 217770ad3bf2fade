SPECIFICATION Spec
CONSTANTS
  Configs <- MCConfigs
  HostPaths <- MCHostPaths
  Letters = 4
  Cpus = 4
  MaxWord = 7
  MaxChanges = 2
INVARIANTS
  TypeOK
  GuestSeesConfig
  DiskNamesDistinct
  VcpusFitQuota

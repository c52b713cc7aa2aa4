CONSTANTS
  Cpus = {0}
  CoreOf <- MCCoreOf
  PackageOf <- MCPackageOf
  Disks = {"sda"}
  PartitionOf <- MCPartitionOf
  KernelThreads = {5}
  LineInfos <- MCLineInfos
  NoName = ""
  Idle = "<idle>"
  Unknown <- MCUnknown
  FirstChild = 1
  NewTasks = {2, 3}
  Others = {5}
  OldName = "sh"
  NewName = "app"
  Fds = {1}
  Configs <- MCConfigs
  MaxRenamed = 2
  MonitorIds <- MCMonitorIds
SPECIFICATION Spec
CHECK_DEADLOCK FALSE
INVARIANTS
  NoLookupFails
  AtHome
  TreeRooted

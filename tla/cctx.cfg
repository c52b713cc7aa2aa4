\* All kinds of location, two OpenMP threads, records in any order, switches lost.
SPECIFICATION Spec
CONSTANTS
  CpuLocs = {"cpu0"}
  SyscallLocs = {"sys0"}
  GpuLocs = {"gpu"}
  OmpLocs = {"omp", "omp2"}
  Threads = {"t1", "t2", "u1"}
  ProcessOf <- MCProcessOf
  Chains <- MCChains
  Markers <- MCMarkers
  Syscalls = {"read", "write"}
  Kernels = {"k1"}
  OmpRegions = {"loop"}
  Lossy = TRUE
  MaxEvents = 4
INVARIANTS
  WellNested
  SampleAttributed
  EventsResolve
  OneDefinition
CHECK_DEADLOCK FALSE

CONSTANTS
  p1 = p1
  p2 = p2
  p3 = p3
  CPUs = {c1, c2}
  MAX_DEPTH = 8
  NoCpu = NoCpu
  Locks <- KernelMutexes
  Rank <- KernelRank
  Stacks <- KernelStacks
  Tried <- TriedStacks
  Uses = {}
  MAX_CPUS = 2
  MAX_TASKS = 3
  JobKinds = {"pinned", "job", "user"}
  Procs = {1, 2}
  PIPE_BUFFER = 2
  MAX_WAITERS = 1
  MaxEpoch = 2
  MaxCall = 3
  MaxSent = 4
SPECIFICATION ObjectsSpec
INVARIANTS ObjectsTyped NoSleeperLeft PipeExact LocksSafe PathsOrdered HotplugSafe VolumeKept
  RequestsExact
SYMMETRY Symmetry
CHECK_DEADLOCK FALSE

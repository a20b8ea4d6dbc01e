CONSTANTS
  MAX_CPUS = 2
  MAX_TASKS = 4
  Kinds <- SafeKinds
  Domain <- OneDomain
  Tasks = {t1, t2}
  Workers = {"worker"}
  OpSlots = {1}
  Ports = {1}
  MaxGeneration = 2
  PORT_CAPACITY = 1
  BATCH = 1
  PER_PROCESS = 1
  None = None
  Ranges <- TwoRanges
  MAX_RECLAIMED_FRAMES = 2
  Counts = {2, 3}
  Preferences <- AnyDomain
  MAX_SWAP_SLOTS = 2
  DiskSlots = 1
  PageHolders = {"h", "i"}
  PageData = {"a", "b"}
  SwapGenerations = 3
  Lbas = {1, 2, 3}
  Values = {"a", "b"}
  N = 2
  MaxAge = 2
  t1 = t1
  t2 = t2
SPECIFICATION CoreSpec
INVARIANTS StackExclusive HandoffTracked TasksPlaced ReplacementReady NoStackRecycled
  ExitTruthful RecordsExact NoLostWakeup NoFrameLost SwapExact MemoryExact
PROPERTIES ImplementsLifecycle ImplementsPool ImplementsStore
SYMMETRY Symmetry
CHECK_DEADLOCK FALSE

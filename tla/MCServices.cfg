CONSTANTS
  Operations = {op1, op2, op3, op4}
  Cookies = {v1, v2}
  Outcomes = {"done", "cancelled"}
  CAPACITY = 3
  MaxSequence = 5
  Nothing = Nothing
  MaxLineages = 3
  GenerationModulus = 100
  TaskIds = {0, 1, 2}
  KernelTask = 0
  Caps = {"control", "io"}
  TaskControl = "control"
  Domains = {"kernel", "service", "user", "restricted"}
  Kernel = "kernel"
  SystemService = "service"
  User = "user"
  Restricted = "restricted"
  Ceiling <- Ceilings
  Owners = {v1, v2}
  Values = {1}
  MAX_THREADS = 2
  MaxGeneration = 2
  AccessPoints = {v1, v2, "c"}
  Supported = {v1, v2}
  MAX_SCAN_RESULTS = 2
  Machines = {1, 2, 3}
  NoMachine = NoMachine
  NoStation = NoStation
  IrqOwners = {v1, v2}
  Handlers = {0, 1}
  RxCauses = {"rx"}
  FatalCauses = {"error"}
  MaxEpochs = 2
  Unbound = Unbound
  Nonces = {"n", "m"}
  GroupKeys <- TwoGroupKeys
  Replays = {0, 1, 2}
  PacketNumbers = {1, 2}
  MAX_ATTEMPTS = 1
  QUEUE_DEPTH = 1
  PN_MAX = 2
  EpochModulus = 100
  Unset = Unset
  None = None
  v1 = v1
  v2 = v2
SPECIFICATION ServicesSpec
INVARIANTS SequencesFresh AuthorityBounded IdsNameOneThread AssociationEarned InterruptsKept
  WifiKeys DeliveredExact ObjectsExact DevicesExact FilesServed
PROPERTIES FifoOrder ImplementsFifo OnlyDelegation KeysOnlyForward StepsAllowed
SYMMETRY Symmetry
CHECK_DEADLOCK FALSE

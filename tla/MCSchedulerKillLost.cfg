CONSTANTS
    MAX_CPUS = 2
    MAX_TASKS = 3
    Kinds <- ProcessKinds
    Domain <- OneDomain
SPECIFICATION ReturningSpec
PROPERTY KillAcknowledged

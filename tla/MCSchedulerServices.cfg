CONSTANTS
    MAX_CPUS = 2
    MAX_TASKS = 3
    Kinds <- ServiceKinds
    Domain <- OneDomain
SPECIFICATION Spec
INVARIANT StackExclusive

SPECIFICATION LockSpec
CONSTANTS
    CPUs = {c1, c2}
    NoCpu = NoCpu
    MAX_DEPTH = 8
    Locks <- KernelMutexes
    Rank <- KernelRank
    Stacks <- KernelStacks
    Tried <- TriedStacks
    Uses = {"pressure"}
INVARIANT NoPanic

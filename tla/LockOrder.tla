------------------------------ MODULE LockOrder ------------------------------
(***************************************************************************)
(* irq_lock.rs: spin locks with a rank, and the tracker that records which *)
(* of them a CPU holds and panics on an acquisition out of order.          *)
(*                                                                         *)
(* What the kernel does with its locks is the constant Stacks: the stacks  *)
(* of locks, outermost first, that a CPU holds at some point of some       *)
(* kernel path (KernelLocks derives them from the code).  A CPU moves from *)
(* one of these stacks to another by acquiring one more lock or releasing  *)
(* the innermost one.  Tried are the stacks whose last lock the path takes *)
(* with try_lock.  A CPU holding a guard has its interrupts off, so        *)
(* nothing else runs on it; a path that keeps interrupts on has its        *)
(* handlers' locks in its own stacks.                                      *)
(***************************************************************************)
EXTENDS Naturals, Sequences

CONSTANTS
    CPUs,
    Locks,
    Rank,         \* with_rank: a lock's rank
    MAX_DEPTH,    \* locks one CPU may hold
    Stacks,       \* the lock stacks of the kernel's paths
    Tried,        \* the ones whose last lock is taken with try_lock
    NoCpu         \* a value outside CPUs: a mutex that is free

VARIABLES
    held,        \* HELD and DEPTH: the locks a CPU has entered, outermost first
    tokens,      \* Token.previous_rank of each of them
    highest,     \* HIGHEST_RANK
    waiting,     \* the CPU spins on the last lock it entered
    owner,       \* the spin mutexes inside the locks
    panicked

lockVars == <<held, tokens, highest, waiting, owner, panicked>>

Front(s) == SubSeq(s, 1, Len(s) - 1)
Last(s) == s[Len(s)]
Elements(s) == {s[i] : i \in 1..Len(s)}

LockInit ==
    /\ held = [c \in CPUs |-> <<>>]
    /\ tokens = [c \in CPUs |-> <<>>]
    /\ highest = [c \in CPUs |-> 0]
    /\ waiting = [c \in CPUs |-> FALSE]
    /\ owner = [l \in Locks |-> NoCpu]
    /\ panicked = [c \in CPUs |-> FALSE]

(* enter: what the tracker rejects.                                        *)
Inversion(c, l) == Rank[l] # 0 /\ highest[c] # 0 /\ Rank[l] < highest[c]
TooDeep(c) == Len(held[c]) >= MAX_DEPTH
Recursive(c, l) == l \in Elements(held[c])
Rejects(c, l) == Inversion(c, l) \/ TooDeep(c) \/ Recursive(c, l)

(* enter: record the lock before spinning on it.                           *)
Push(c, l) ==
    /\ held' = [held EXCEPT ![c] = Append(@, l)]
    /\ tokens' = [tokens EXCEPT ![c] = Append(@, highest[c])]
    /\ highest' = [highest EXCEPT ![c] = IF Rank[l] > @ THEN Rank[l] ELSE @]

(* exit: forget the lock and restore the rank its token holds.             *)
Pop(c) ==
    /\ held' = [held EXCEPT ![c] = Front(@)]
    /\ tokens' = [tokens EXCEPT ![c] = Front(@)]
    /\ highest' = [highest EXCEPT ![c] = Last(tokens[c])]

Runs(c) == ~panicked[c] /\ ~waiting[c]

(* IrqMutex::lock up to the spin: a rejected acquisition panics.           *)
Lock(c, l) ==
    /\ Runs(c)
    /\ Append(held[c], l) \in Stacks \ Tried
    /\ IF Rejects(c, l)
       THEN /\ panicked' = [panicked EXCEPT ![c] = TRUE]
            /\ UNCHANGED <<held, tokens, highest, waiting>>
       ELSE /\ Push(c, l)
            /\ waiting' = [waiting EXCEPT ![c] = TRUE]
            /\ UNCHANGED panicked
    /\ UNCHANGED owner

(* The spin mutex lets the CPU in.                                         *)
Acquire(c) ==
    /\ waiting[c] /\ owner[Last(held[c])] = NoCpu
    /\ owner' = [owner EXCEPT ![Last(held[c])] = c]
    /\ waiting' = [waiting EXCEPT ![c] = FALSE]
    /\ UNCHANGED <<held, tokens, highest, panicked>>

(* IrqMutex::try_lock: a failed probe rolls the tracker back.              *)
TryLock(c, l) ==
    /\ Runs(c)
    /\ Append(held[c], l) \in Tried
    /\ IF Rejects(c, l)
       THEN /\ panicked' = [panicked EXCEPT ![c] = TRUE]
            /\ UNCHANGED <<held, tokens, highest, owner>>
       ELSE /\ UNCHANGED panicked
            /\ IF owner[l] = NoCpu
               THEN Push(c, l) /\ owner' = [owner EXCEPT ![l] = c]
               ELSE UNCHANGED <<held, tokens, highest, owner>>
    /\ UNCHANGED waiting

(* IrqMutexGuard::drop: unlock, then exit the tracker.                     *)
Release(c) ==
    /\ Runs(c) /\ held[c] # <<>>
    /\ owner' = [owner EXCEPT ![Last(held[c])] = NoCpu]
    /\ Pop(c)
    /\ UNCHANGED <<waiting, panicked>>

LockNext == \E c \in CPUs :
    \/ Acquire(c) \/ Release(c)
    \/ \E l \in Locks : Lock(c, l) \/ TryLock(c, l)

LockSpec == LockInit /\ [][LockNext]_lockVars

----------------------------------------------------------------------------
LockTypeOK ==
    /\ held \in [CPUs -> {<<>>} \cup Stacks]
    /\ \A c \in CPUs : tokens[c] \in [1..Len(held[c]) -> Nat]
    /\ highest \in [CPUs -> Nat]
    /\ waiting \in [CPUs -> BOOLEAN]
    /\ owner \in [Locks -> CPUs \cup {NoCpu}]
    /\ panicked \in [CPUs -> BOOLEAN]

(* enter: no path of the kernel is stopped by the tracker.                 *)
NoPanic == \A c \in CPUs : ~panicked[c]

(* lock: no set of CPUs spins on locks that only members of the set own.   *)
NoDeadlock == \A S \in (SUBSET CPUs) \ {{}} :
    \E c \in S : ~(waiting[c] /\ owner[Last(held[c])] \in S)

(* IrqMutex: no path of the kernel is stopped by the lock tracker, and no  *)
(* set of CPUs spins on locks that only its members own.                   *)
LocksSafe == NoPanic /\ NoDeadlock

(* enter and exit: HIGHEST_RANK bounds the ranks held and is the rank of   *)
(* one of them, so the one comparison of enter compares with them all.     *)
RankTracked == \A c \in CPUs :
    /\ \A l \in Elements(held[c]) : Rank[l] <= highest[c]
    /\ highest[c] \in {0} \cup {Rank[l] : l \in Elements(held[c])}

(* enter and drop: a lock's mutex is owned by the CPU whose stack records  *)
(* it, and by no other.                                                    *)
OwnersRecorded == \A l \in Locks, c \in CPUs :
    owner[l] = c <=>
        \E i \in 1..Len(held[c]) :
            held[c][i] = l /\ ~(waiting[c] /\ i = Len(held[c]))

----------------------------------------------------------------------------
(* What is assumed of the locks and paths: their types.                    *)
Sound ==
    /\ Rank \in [Locks -> Nat] /\ MAX_DEPTH \in Nat /\ NoCpu \notin CPUs
    /\ Stacks \subseteq Seq(Locks) /\ Tried \subseteq Stacks

(* The discipline the ranks stand for: a path nests few locks, none twice, *)
(* and never one of a lower rank under one of a higher rank.               *)
Disciplined == \A s \in Stacks :
    /\ Len(s) <= MAX_DEPTH
    /\ \A i, j \in 1..Len(s) : i < j => s[i] # s[j] /\ Rank[s[i]] <= Rank[s[j]]

(* An order of the locks that every path climbs.  Ranks repeat, so the     *)
(* discipline of the ranks does not give one.                              *)
Climbs(level) == \A s \in Stacks : \A i, j \in 1..Len(s) :
    i < j => level[s[i]] < level[s[j]]
=============================================================================

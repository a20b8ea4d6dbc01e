------------------------------ MODULE MCCore --------------------------------
(***************************************************************************)
(* Processors and memory for TLC: the scheduler, the asynchronous runtime  *)
(* of two processes that share one operation slot and one port slot        *)
(* through their reuse, the allocators, shared and swapped pages and the   *)
(* sector cache.  A behaviour exercises one of them, its subject.  The     *)
(* scheduler, the runtime, the frame allocator, the swap table and the     *)
(* sector cache have variables of their own, which the theorems about them *)
(* speak of; every other subject keeps its variables, in the order its     *)
(* module declares them, in x1, x2, ...                                    *)
(***************************************************************************)
EXTENDS Scheduler, BlockCache, AsyncRuntime, FrameAllocator, Swap, TLC

CONSTANTS t1, t2

VARIABLES subject, fuel, x1, x2, x3, x4, x5, x6, x7, x8, x9, x10, x11

xs == <<x1, x2, x3, x4, x5, x6, x7, x8, x9, x10, x11>>
ownVars == <<vars, asyncVars, allocatorVars, swapVars, cacheVars>>

(* Bounds on the calls of a behaviour, for the modules that set none.      *)
Bound == [pages |-> 8, heap |-> 11, swap |-> 12]

(* Two ranges of two NUMA domains, and a caller with or without a          *)
(* preference.                                                             *)
TwoRanges == <<[start |-> 0, end |-> 3, domain |-> 0], [start |-> 4, end |-> 7, domain |-> 1]>>
AnyDomain == {{}, {0}, {1}}

(* Two address spaces that fork, map a file and share an object, with      *)
(* three frames; two tasks write file pages back and unmap them.           *)
Pages == INSTANCE SharedFrames WITH
    Frames <- {1, 2, 3}, Spaces <- {1, 2}, Callers <- {1, 2}, AnonPages <- {"a"}, FilePage <- "f",
    SharedPage <- "s", ObjectPage <- "o", MAX_COW_FRAMES <- 2, CAPACITY <- 2, MaxValue <- 1,
    used <- x1, refs <- x2, table <- x3, data <- x4, cache <- x5, object <- x6,
    file <- x7, loader <- x8, view <- x9, truth <- x10, sync <- x11

(* Two CPUs in a heap that grows twice.                                    *)
KernelHeap == INSTANCE Heap WITH
    CPUs <- {0, 1}, HEADER_SIZE <- 1, FREE_NODE_SIZE <- 2, BOOT_SIZE <- 8, GROW_CHUNK <- 4,
    MAX_SIZE <- 16, LOW_WATER <- 4, Sizes <- {1, 4}, Alignments <- {1, 4},
    heap <- x1, live <- x2, mapped <- x3, owner <- x4, pressure <- x5, run <- x6,
    refused <- x7

Symmetry == Permutations({t1, t2})

(* The variables a subject does not use, from the given one on.            *)
Zero11 == x11 = 0
Zero10 == x10 = 0 /\ Zero11
Zero9 == x9 = 0 /\ Zero10
Zero8 == x8 = 0 /\ Zero9
Zero7 == x7 = 0 /\ Zero8
Zero6 == x6 = 0 /\ Zero7
Zero1 == x1 = 0 /\ x2 = 0 /\ x3 = 0 /\ x4 = 0 /\ x5 = 0 /\ Zero6

Same11 == UNCHANGED x11
Same10 == UNCHANGED x10 /\ Same11
Same9 == UNCHANGED x9 /\ Same10
Same8 == UNCHANGED x8 /\ Same9

CoreInit ==
    /\ Init /\ AsyncInit /\ AllocatorInit /\ SwapInit /\ CacheInit
    /\ fuel = 0
    /\ \/ subject \in {"scheduler", "runtime", "frames", "swap", "cache"} /\ Zero1
       \/ subject = "pages" /\ Pages!FramesInit
       \/ subject = "heap" /\ KernelHeap!HeapInit /\ Zero8
    /\ subject # "cache" => disk = [l \in Lbas |-> "a"] /\ entries[1].lba = 1 /\ entries[1].data = "a"

(* A call of a behaviour with that many.                                   *)
Counted(bound) == fuel < bound /\ fuel' = fuel + 1

CoreNext ==
    /\ UNCHANGED subject
    /\ \/ /\ subject = "scheduler" /\ Next
          /\ UNCHANGED <<fuel, asyncVars, allocatorVars, swapVars, cacheVars, xs>>
       \/ /\ subject = "runtime" /\ AsyncNext
          /\ UNCHANGED <<fuel, vars, allocatorVars, swapVars, cacheVars, xs>>
       \/ /\ subject = "frames" /\ AllocatorNext
          /\ UNCHANGED <<fuel, vars, asyncVars, swapVars, cacheVars, xs>>
       \/ /\ subject = "swap" /\ Counted(Bound.swap) /\ SwapNext
          /\ UNCHANGED <<vars, asyncVars, allocatorVars, cacheVars, xs>>
       \/ /\ subject = "cache" /\ CacheNext
          /\ UNCHANGED <<fuel, vars, asyncVars, allocatorVars, swapVars, xs>>
       \/ /\ UNCHANGED ownVars
          /\ \/ subject = "pages" /\ Counted(Bound.pages) /\ Pages!FramesNext
             \/ subject = "heap" /\ Counted(Bound.heap) /\ KernelHeap!HeapNext /\ Same8

CoreSpec == CoreInit /\ [][CoreNext]_<<subject, fuel, ownVars, xs>>

----------------------------------------------------------------------------
(* Memory is accounted for exactly and keeps what was put there.           *)
(* CowTable: a frame's count is the number of its mappings, cache slots    *)
(* and objects.  share_user_range_in, try_break_cow and the file-frame     *)
(* cache: a private page keeps what its process wrote, a shared one shows  *)
(* the last write of anyone unless a load or a write-back was overtaken.   *)
(* HeapState: blocks and free spans tile the heap, one CPU grows it, and a *)
(* request to grow is not lost.                                            *)
MemoryExact ==
    /\ subject = "pages" => Pages!FrameRefsExact /\ Pages!PagesIsolated
    /\ subject = "heap" => KernelHeap!HeapTiled /\ KernelHeap!GrowthOwned /\ KernelHeap!PressureKept
=============================================================================

--------------------------- MODULE FrameAllocator ---------------------------
(***************************************************************************)
(* The physical frame allocator (kernel/src/memory.rs): usable ranges that *)
(* are first handed out in address order, a bounded stack of returned      *)
(* frames, and, for the returns beyond the stack's capacity, a bitmap scan *)
(* that starts at a per-range hint.                                        *)
(*                                                                         *)
(* Every operation is one critical section of ALLOCATOR.  Frames are       *)
(* numbered; range r holds the frames Ranges[r].start .. Ranges[r].end-1   *)
(* and belongs to the memory domain Ranges[r].domain.                      *)
(***************************************************************************)
EXTENDS Naturals, Sequences, FiniteSets, FiniteSetsExt, Functions

CONSTANTS
    Ranges,                \* usable ranges, in table order
    MAX_RECLAIMED_FRAMES,
    Counts,                \* frames of a contiguous allocation
    Preferences            \* domains a caller prefers: sets of at most one domain

\* initialize: ranges that hold a frame, at least one of them, taken from the bootloader's map
\* of disjoint regions; contiguous allocations are of at least one frame.
ASSUME AllocatorAssumption ==
    /\ Ranges \in Seq([start : Nat, end : Nat, domain : Nat]) /\ Ranges # <<>>
    /\ \A r \in DOMAIN Ranges : Ranges[r].start < Ranges[r].end
    /\ \A r, s \in DOMAIN Ranges : r # s =>
          (Ranges[r].start .. Ranges[r].end - 1) \cap (Ranges[s].start .. Ranges[s].end - 1) = {}
    /\ Counts \subseteq Nat \ {0}

VARIABLES
    next,        \* FrameRange::next of each range
    hint,        \* FrameRange::overflow_hint of each range
    bitmap,      \* frames whose allocation bit is set
    reclaimed,   \* the stack of returned frames
    untracked,   \* reclaimed_untracked
    allocated,   \* allocated_frames
    current      \* current_range

allocatorVars == <<next, hint, bitmap, reclaimed, untracked, allocated, current>>

RangeIds == DOMAIN Ranges
AllFrames == UNION {Ranges[r].start .. Ranges[r].end - 1 : r \in RangeIds}
Infinity == Max(AllFrames) + 2      \* u64::MAX, beyond every frame

AllocatorInit ==
    /\ next = [r \in RangeIds |-> Ranges[r].start]
    /\ hint = [r \in RangeIds |-> Infinity]
    /\ bitmap = {} /\ reclaimed = <<>>
    /\ untracked = 0 /\ allocated = 0 /\ current = 1

RangeOf(frame) == CHOOSE r \in RangeIds : frame \in Ranges[r].start .. Ranges[r].end - 1
DomainOf(frame) == Ranges[RangeOf(frame)].domain

(* The ranges in the order of the two passes: those of the preferred       *)
(* domain, then all, each pass from current_range on.                      *)
RoundRobin == [k \in RangeIds |-> 1 + ((current + k - 2) % Len(Ranges))]
Passes(preferred) ==
    SelectSeq(RoundRobin, LAMBDA r : preferred = {} \/ Ranges[r].domain \in preferred)
      \o RoundRobin

(* The first of the given ranges in the order of the passes, as a set.     *)
FirstRange(preferred, ranges) ==
    LET order == Passes(preferred)
        hits == {k \in DOMAIN order : order[k] \in ranges}
    IN {order[k] : k \in {k \in hits : \A j \in hits : k <= j}}

Advance(r) == IF next'[r] >= Ranges[r].end THEN 1 + (r % Len(Ranges)) ELSE r

----------------------------------------------------------------------------
(***************************************************************************)
(* allocate_frame_for_domain: the stack first, then the untracked returns, *)
(* then a frame that was never handed out.                                 *)
(***************************************************************************)
SwapRemove(stack, index) ==
    [i \in 1 .. Len(stack) - 1 |-> stack[IF i = index THEN Len(stack) ELSE i]]

FromStack(preferred) ==
    LET last == Len(reclaimed)
        near == {i \in 1..last : DomainOf(reclaimed[i]) \in preferred}
        index == IF near = {} THEN last ELSE Max(near)
    IN /\ reclaimed # <<>>
       /\ bitmap' = bitmap \cup {reclaimed[index]}
       /\ reclaimed' = SwapRemove(reclaimed, index)
       /\ allocated' = allocated + 1
       /\ UNCHANGED <<next, hint, untracked, current>>

(* Frames with a clear bit from the hint of range r on.                    *)
Scan(r) == {f \in hint[r] .. next[r] - 1 : f \notin bitmap}

(* The ranges the scan reaches and passes over: their hint is reset.       *)
Skipped(preferred) ==
    LET order == Passes(preferred) IN
      {r \in RangeIds : /\ Scan(r) = {}
                        /\ \E k \in DOMAIN order : order[k] = r /\ \A j \in 1 .. k - 1 : Scan(order[j]) = {}}

StaleHintMutant(preferred) ==
    /\ reclaimed = <<>> /\ untracked # 0
    /\ \E r \in FirstRange(preferred, {s \in RangeIds : Scan(s) # {}}) :
         LET frame == Max(Scan(r)) IN
           /\ bitmap' = bitmap \cup {frame}
           /\ hint' = [s \in RangeIds |-> IF s = r THEN frame + 1
                                       ELSE IF s \in Skipped(preferred) THEN Infinity
                                       ELSE hint[s]]
           /\ untracked' = untracked - 1
           /\ allocated' = allocated + 1
    /\ UNCHANGED <<next, reclaimed, current>>

FromBitmap(preferred) ==
    /\ reclaimed = <<>> /\ untracked # 0
    /\ \E r \in FirstRange(preferred, {s \in RangeIds : Scan(s) # {}}) :
         LET frame == Min(Scan(r)) IN
           /\ bitmap' = bitmap \cup {frame}
           /\ hint' = [s \in RangeIds |-> IF s = r THEN frame + 1
                                       ELSE IF s \in Skipped(preferred) THEN Infinity
                                       ELSE hint[s]]
           /\ untracked' = untracked - 1
           /\ allocated' = allocated + 1
    /\ UNCHANGED <<next, reclaimed, current>>

(* allocate_contiguous_frames(count), and the last resort of a single      *)
(* allocation.                                                             *)
Carve(preferred, count) ==
    \E r \in FirstRange(preferred, {s \in RangeIds : Ranges[s].end - next[s] >= count}) :
      /\ next' = [next EXCEPT ![r] = @ + count]
      /\ bitmap' = bitmap \cup (next[r] .. next[r] + count - 1)
      /\ current' = Advance(r)
      /\ allocated' = allocated + count
      /\ UNCHANGED <<reclaimed, untracked>>

(* A scan that found nothing has reset every hint.                         *)
FromRange(preferred) ==
    /\ reclaimed = <<>>
    /\ untracked # 0 => \A r \in RangeIds : Scan(r) = {}
    /\ Carve(preferred, 1)
    /\ hint' = IF untracked = 0 THEN hint ELSE [r \in RangeIds |-> Infinity]

AllocateFrame(preferred) ==
    FromStack(preferred) \/ FromBitmap(preferred) \/ FromRange(preferred)

AllocateContiguous(preferred, count) ==
    Carve(preferred, count) /\ UNCHANGED hint

----------------------------------------------------------------------------
(***************************************************************************)
(* deallocate_frame.  It refuses a frame that was never handed out or is   *)
(* not in use, and then changes nothing.                                   *)
(***************************************************************************)
\* Mutant: the allocation bit is not looked at.
UncheckedReturnMutant(frame) ==
    frame < next[RangeOf(frame)] /\ allocated # 0

Returnable(frame) ==
    /\ frame < next[RangeOf(frame)]
    /\ frame \in bitmap /\ allocated # 0

DeallocateFrame(frame) ==
    /\ Returnable(frame)
    /\ bitmap' = bitmap \ {frame}
    /\ allocated' = allocated - 1
    /\ \/ /\ Len(reclaimed) < MAX_RECLAIMED_FRAMES
          /\ reclaimed' = Append(reclaimed, frame)
          /\ UNCHANGED <<hint, untracked>>
       \/ /\ Len(reclaimed) >= MAX_RECLAIMED_FRAMES
          /\ untracked' = untracked + 1
          /\ hint' = [hint EXCEPT ![RangeOf(frame)] = Min({@, frame})]
          /\ UNCHANGED reclaimed
    /\ UNCHANGED <<next, current>>

AllocatorNext ==
    \/ \E preferred \in Preferences :
         \/ AllocateFrame(preferred)
         \/ \E count \in Counts : AllocateContiguous(preferred, count)
    \/ \E frame \in AllFrames : DeallocateFrame(frame)

AllocatorSpec == AllocatorInit /\ [][AllocatorNext]_allocatorVars

----------------------------------------------------------------------------
(* The frames below next that are not in use.                              *)
ReturnedFrames == UNION {{f \in Ranges[r].start .. next[r] - 1 : f \notin bitmap} : r \in RangeIds}

(* PhysicalFrameAllocator: every returned frame can be found again.  The   *)
(* stack holds distinct returned frames, the others are counted by         *)
(* reclaimed_untracked and lie at or above their range's hint, and         *)
(* allocated_frames counts the set bits.                                   *)
NoFrameLost ==
    /\ IsInjective(reclaimed)
    /\ Range(reclaimed) \subseteq ReturnedFrames
    /\ LET rest == ReturnedFrames \ Range(reclaimed) IN
         /\ untracked = Cardinality(rest)
         /\ \A f \in rest : hint[RangeOf(f)] <= f
    /\ allocated = Cardinality(bitmap)

(* "The allocator returns each fully usable 4 KiB frame at most once":     *)
(* with the allocation bits as the frames in use, every allocation takes   *)
(* frames nobody uses and every release gives back a frame in use.         *)
Pool == INSTANCE FramePool WITH Frames <- AllFrames, used <- bitmap, count <- allocated
ImplementsPool == Pool!Spec

=============================================================================

-------------------------------- MODULE Heap --------------------------------
(***************************************************************************)
(* The kernel heap (kernel/src/heap.rs): a first-fit free list below a     *)
(* bump pointer, both under HEAP, and the growth of the mapped region,     *)
(* which runs outside that lock under a claim (GROW_OWNER), on demand by   *)
(* an allocating CPU or ahead of demand by the idle bootstrap CPU.         *)
(*                                                                         *)
(* Addresses are counted from the start of the heap in units of            *)
(* METADATA_ALIGN.  The free list is kept in address order, so it is       *)
(* modelled as the set of its spans.                                       *)
(***************************************************************************)
EXTENDS Naturals, FiniteSets, FiniteSetsExt

CONSTANTS
    CPUs,               \* CPU 0 is the bootstrap CPU
    HEADER_SIZE,
    FREE_NODE_SIZE,
    BOOT_SIZE,
    GROW_CHUNK,
    MAX_SIZE,
    LOW_WATER,
    Sizes, Alignments   \* layouts that are requested

VARIABLES
    heap,       \* HeapState
    live,       \* the blocks that are allocated, with what their header says
    mapped,     \* end of the region that paging has mapped
    owner,      \* GROW_OWNER: the claiming CPU, or NoOwner
    pressure,   \* GROW_PRESSURE
    run,        \* where each CPU is in the allocator
    refused     \* ghost: maintenance gave up because no page could be mapped

heapVars == <<heap, live, mapped, owner, pressure, run, refused>>

NoOwner == Max(CPUs) + 1
Layouts == [size : Sizes, align : Alignments]
Idle == [pc |-> "idle", size |-> 1, align |-> 1, left |-> 0, end |-> 0, may |-> TRUE]

HeapInit ==
    /\ heap = [next |-> 0, end |-> BOOT_SIZE, free |-> {}, free_bytes |-> BOOT_SIZE]
    /\ live = {} /\ mapped = BOOT_SIZE
    /\ owner = NoOwner /\ pressure = FALSE
    /\ run = [c \in CPUs |-> Idle]
    /\ refused = FALSE

At(c, pc) == run[c].pc = pc
Goto(c, pc) == run' = [run EXCEPT ![c].pc = pc]
Finish(c) == run' = [run EXCEPT ![c] = Idle]

Low(h) == h.free_bytes < LOW_WATER \/ h.end - h.next < LOW_WATER

----------------------------------------------------------------------------
(***************************************************************************)
(* HeapState: the functions that run under HEAP.                           *)
(***************************************************************************)
AlignUp(n, align) == ((n + align - 1) \div align) * align

Payload(start, layout) == AlignUp(start + HEADER_SIZE, layout.align)
PlacedEnd(start, layout) == Payload(start, layout) + layout.size

Fits(span, layout) == PlacedEnd(span.start, layout) <= span.start + span.size

Block(start, end, layout) ==
    [start |-> start, end |-> end, payload |-> Payload(start, layout), size |-> layout.size]

(* alloc_from_free: the first span that fits; a remainder too small for a  *)
(* free node goes with the block.                                          *)
DropRemainderMutant(span, layout) ==
    [block |-> Block(span.start, PlacedEnd(span.start, layout), layout), left |-> {}]

Split(span, layout) ==
    LET end == span.start + span.size
        placed == PlacedEnd(span.start, layout)
    IN IF end - placed < FREE_NODE_SIZE
       THEN [block |-> Block(span.start, end, layout), left |-> {}]
       ELSE [block |-> Block(span.start, placed, layout),
             left |-> {[start |-> placed, size |-> end - placed]}]

(* alloc: the heap and the block, if any.                                  *)
Alloc(h, layout) ==
    LET fits == {s \in h.free : Fits(s, layout)}
        first == CHOOSE s \in fits : \A t \in fits : s.start <= t.start
        split == Split(first, layout)
        end == PlacedEnd(h.next, layout)
        Taken(block) == h.free_bytes - (block.end - block.start)
    IN IF fits # {}
       THEN [blocks |-> {split.block},
             heap |-> [h EXCEPT !.free = (@ \ {first}) \cup split.left,
                                !.free_bytes = Taken(split.block)]]
       ELSE IF end <= h.end
       THEN [blocks |-> {Block(h.next, end, layout)},
             heap |-> [h EXCEPT !.next = end,
                                !.free_bytes = Taken(Block(h.next, end, layout))]]
       ELSE [blocks |-> {}, heap |-> h]

(* insert_free: the span is merged with its neighbours, and a span that    *)
(* reaches the bump pointer is given back to it.                           *)
KeepTailMutant(h, start, size) ==
    [h EXCEPT !.free = @ \cup {[start |-> start, size |-> size]}]

InsertFree(h, start, size) ==
    LET after == {s \in h.free : s.start = start + size}
        before == {s \in h.free : s.start + s.size = start}
        joined == after \cup before
        first == Min({start} \cup {s.start : s \in before})
        last == Max({start + size} \cup {s.start + s.size : s \in after})
    IN IF last = h.next
       THEN [h EXCEPT !.next = first, !.free = @ \ joined]
       ELSE [h EXCEPT !.free = (@ \ joined) \cup {[start |-> first, size |-> last - first]}]

(* dealloc of a pointer that alloc returned: the header is found before it *)
(* and its tag cleared.                                                    *)
Dealloc(block) ==
    /\ heap' = InsertFree([heap EXCEPT !.free_bytes = @ + (block.end - block.start)],
                          block.start, block.end - block.start)
    /\ live' = live \ {block}
    /\ UNCHANGED <<mapped, owner, pressure, run, refused>>

----------------------------------------------------------------------------
(***************************************************************************)
(* GlobalAlloc::alloc.  "may": whether the CPU holds no lock that forbids  *)
(* entering the pager (pager_entry_allowed).                               *)
(***************************************************************************)
StartAlloc(c, layout, may) ==
    /\ At(c, "idle")
    /\ LET result == Alloc(heap, layout) IN
         /\ heap' = result.heap
         /\ live' = live \cup result.blocks
         /\ run' = [run EXCEPT ![c] =
              [Idle EXCEPT !.pc = IF Low(result.heap) THEN "low"
                                  ELSE IF result.blocks # {} THEN "idle" ELSE "empty",
                           !.size = layout.size, !.align = layout.align, !.may = may,
                           !.left = IF result.blocks # {} THEN 0 ELSE 1]]
    /\ UNCHANGED <<mapped, owner, pressure, refused>>

(* The pressure flag is set after the lock is released.                    *)
Request(c) ==
    /\ At(c, "low")
    /\ pressure' = TRUE
    /\ run' = [run EXCEPT ![c] = IF @.left = 0 THEN Idle ELSE [@ EXCEPT !.pc = "empty"]]
    /\ UNCHANGED <<heap, live, mapped, owner, refused>>

LayoutOf(c) == [size |-> run[c].size, align |-> run[c].align]

(* No block: return null under a lock, or try to grow.                     *)
NoBlock(c) ==
    /\ At(c, "empty")
    /\ \/ ~run[c].may /\ pressure' = TRUE /\ Finish(c)
       \/ /\ run[c].may /\ UNCHANGED pressure
          /\ IF PlacedEnd(heap.next, LayoutOf(c)) <= MAX_SIZE
             THEN run' = [run EXCEPT ![c].pc = "attempt", ![c].left = MAX_SIZE \div GROW_CHUNK]
             ELSE Finish(c)
    /\ UNCHANGED <<heap, live, mapped, owner, refused>>

(* The loop of alloc_with_growth.                                          *)
Retry(c) ==
    /\ At(c, "attempt")
    /\ IF run[c].left = 0
       THEN Finish(c) /\ UNCHANGED <<heap, live>>
       ELSE LET result == Alloc(heap, LayoutOf(c)) IN
              /\ heap' = result.heap
              /\ live' = live \cup result.blocks
              /\ run' = IF result.blocks = {}
                        THEN [run EXCEPT ![c].pc = "claim", ![c].left = @ - 1]
                        ELSE IF Low(result.heap)
                        THEN [run EXCEPT ![c].pc = "low", ![c].left = 0]
                        ELSE [run EXCEPT ![c] = Idle]
    /\ UNCHANGED <<mapped, owner, pressure, refused>>

(* A CPU that waits for another's growth tries again, or gives up after    *)
(* its time is over.                                                       *)
Wait(c) ==
    /\ At(c, "wait")
    /\ \/ owner = NoOwner /\ Goto(c, "attempt")
       \/ Finish(c)
    /\ UNCHANGED <<heap, live, mapped, owner, pressure, refused>>

----------------------------------------------------------------------------
(***************************************************************************)
(* grow_one_chunk, for an allocating CPU ("claim") or for maintenance      *)
(* ("mclaim"): claim, read end, map outside HEAP, extend under HEAP.       *)
(***************************************************************************)
Failed(c) ==
    IF At(c, "claim") \/ At(c, "map")
    THEN Finish(c) /\ UNCHANGED <<pressure, refused>>
    ELSE Finish(c) /\ pressure' = FALSE /\ refused' = TRUE

UnclaimedMutant(c) ==
    /\ At(c, "claim") \/ At(c, "mclaim")
    /\ Min({MAX_SIZE - heap.end, GROW_CHUNK}) # 0
    /\ run' = [run EXCEPT ![c].pc = IF @ = "claim" THEN "map" ELSE "mmap", ![c].end = heap.end]
    /\ owner' = c
    /\ UNCHANGED <<heap, live, mapped, pressure, refused>>

Claim(c) ==
    /\ At(c, "claim") \/ At(c, "mclaim")
    /\ \/ /\ owner # NoOwner
          /\ run' = [run EXCEPT ![c] = IF @.pc = "claim" THEN [@ EXCEPT !.pc = "wait"] ELSE Idle]
          /\ UNCHANGED <<owner, pressure, refused>>
       \/ /\ owner = NoOwner /\ heap.end < MAX_SIZE
          /\ owner' = c
          /\ run' = [run EXCEPT ![c].pc = IF @ = "claim" THEN "map" ELSE "mmap",
                                ![c].end = heap.end]
          /\ UNCHANGED <<pressure, refused>>
       \/ /\ owner = NoOwner /\ heap.end >= MAX_SIZE
          /\ Failed(c) /\ UNCHANGED owner
    /\ UNCHANGED <<heap, live, mapped>>

Chunk(c) == Min({MAX_SIZE - run[c].end, GROW_CHUNK})

MapChunk(c) ==
    /\ At(c, "map") \/ At(c, "mmap")
    /\ \/ /\ mapped' = run[c].end + Chunk(c)
          /\ run' = [run EXCEPT ![c].pc = IF @ = "map" THEN "extend" ELSE "mextend"]
          /\ UNCHANGED <<owner, pressure, refused>>
       \/ /\ Failed(c) /\ owner' = NoOwner
          /\ UNCHANGED mapped
    /\ UNCHANGED <<heap, live>>

Extend(c) ==
    /\ At(c, "extend") \/ At(c, "mextend")
    /\ heap' = [heap EXCEPT !.end = run[c].end + Chunk(c), !.free_bytes = @ + Chunk(c)]
    /\ owner' = NoOwner
    /\ run' = [run EXCEPT ![c].pc = IF @ = "extend" THEN "attempt" ELSE "maintain",
                          ![c].end = 0]
    /\ UNCHANGED <<live, mapped, pressure, refused>>

----------------------------------------------------------------------------
(***************************************************************************)
(* maintain_capacity, on the idle bootstrap CPU: at most four chunks.      *)
(***************************************************************************)
Maintain ==
    /\ At(0, "idle") /\ pressure
    /\ run' = [run EXCEPT ![0].pc = "maintain", ![0].left = 4]
    /\ UNCHANGED <<heap, live, mapped, owner, pressure, refused>>

Enough == ~Low(heap) \/ heap.end >= MAX_SIZE

Inspect ==
    /\ At(0, "maintain")
    /\ IF run[0].left = 0 THEN Finish(0)
       ELSE IF Enough THEN Goto(0, "clear")
       ELSE run' = [run EXCEPT ![0].pc = "mclaim", ![0].left = @ - 1]
    /\ UNCHANGED <<heap, live, mapped, owner, pressure, refused>>

Clear ==
    /\ At(0, "clear")
    /\ pressure' = FALSE
    /\ Goto(0, "recheck")
    /\ UNCHANGED <<heap, live, mapped, owner, refused>>

NoRecheckMutant ==
    /\ At(0, "recheck")
    /\ Finish(0)
    /\ UNCHANGED <<heap, live, mapped, owner, pressure, refused>>

(* The heap is inspected again, so that the request of an allocation that  *)
(* raced the clear survives.                                               *)
Recheck ==
    /\ At(0, "recheck")
    /\ pressure' = (pressure \/ ~Enough)
    /\ Finish(0)
    /\ UNCHANGED <<heap, live, mapped, owner, refused>>

HeapNext ==
    \/ \E c \in CPUs :
         \/ \E layout \in Layouts, may \in BOOLEAN : StartAlloc(c, layout, may)
         \/ Request(c) \/ NoBlock(c) \/ Retry(c) \/ Wait(c)
         \/ Claim(c) \/ MapChunk(c) \/ Extend(c)
    \/ \E block \in live : Dealloc(block)
    \/ Maintain \/ Inspect \/ Clear \/ Recheck

HeapSpec == HeapInit /\ [][HeapNext]_heapVars

----------------------------------------------------------------------------
Spans == {[from |-> b.start, to |-> b.end] : b \in live}
           \cup {[from |-> s.start, to |-> s.start + s.size] : s \in heap.free}

(* HeapState: allocated blocks and free spans tile the heap below the bump *)
(* pointer without gap or overlap, neighbouring free spans are merged and  *)
(* none touches the bump pointer, every payload is aligned inside its      *)
(* block after a header, and free_bytes counts what is free.               *)
HeapTiled ==
    /\ \A n \in 0 .. heap.next - 1 :
         Cardinality({s \in Spans : n >= s.from /\ n < s.to}) = 1
    /\ \A s \in Spans : s.to <= heap.next
    /\ \A s \in heap.free :
         /\ s.size >= FREE_NODE_SIZE /\ s.start + s.size # heap.next
         /\ \A t \in heap.free : s.start + s.size # t.start
    /\ \A b \in live : b.payload >= b.start + HEADER_SIZE /\ b.payload + b.size <= b.end
    /\ heap.free_bytes = (heap.end - heap.next)
         + MapThenSumSet(LAMBDA s : s.size, heap.free)

(* grow_one_chunk: only the growth owner moves the end of the heap ("heap  *)
(* growth owner changed" never fires), every byte the heap hands out is    *)
(* mapped, and no chunk is mapped twice.                                   *)
GrowthOwned ==
    /\ heap.end <= mapped /\ mapped <= MAX_SIZE
    /\ \A c \in CPUs :
         run[c].pc \in {"map", "mmap", "extend", "mextend"} => owner = c /\ run[c].end = heap.end
    /\ \A c \in CPUs : run[c].pc \in {"map", "mmap"} => mapped = heap.end

(* maintain_capacity: "Recheck under HEAP so its request survives".  When  *)
(* the heap is low and may still grow, the pressure flag is set, unless a  *)
(* CPU is about to set it or to look again, or mapping was refused.        *)
PressureKept ==
    \/ Enough \/ pressure \/ refused
    \/ \E c \in CPUs : run[c].pc \in {"low", "clear", "recheck"}

=============================================================================

-------------------------------- MODULE Swap --------------------------------
(***************************************************************************)
(* The swap table (kernel/src/swap.rs) and the mappings that use it        *)
(* (kernel/src/userspace.rs).  A dirty private page is copied into a slot  *)
(* before it is unmapped; the slot lives on the disk area behind the       *)
(* volume when one is configured and the write succeeds, in kernel memory  *)
(* otherwise.  Disk transfers run without the table's lock, so a slot is   *)
(* reserved before its write and published after it.                       *)
(*                                                                         *)
(* A page is one value.  A holder stands for one page of one process's     *)
(* mapping; its operations run one after another, those of different       *)
(* holders interleave at every lock acquisition and every disk transfer.   *)
(***************************************************************************)
EXTENDS Naturals, FiniteSets, FiniteSetsExt

CONSTANTS
    MAX_SWAP_SLOTS,
    DiskSlots,      \* pages that fit behind the volume
    PageHolders,
    PageData,
    SwapGenerations     \* a handle's generation wraps within 1 .. SwapGenerations - 1

ASSUME SwapAssumption ==
    /\ MAX_SWAP_SLOTS \in Nat /\ DiskSlots \in Nat /\ SwapGenerations \in Nat \ {0}
    /\ IsFiniteSet(PageHolders)

VARIABLES
    slots,      \* State::slots
    configured, \* State::disk: has the area been configured?
    area,       \* the pages on the disk
    page,       \* each holder's page: resident with a value, swapped, or unmapped
    job,        \* where each holder's operation is
    stored      \* ghost: the value each holder's swapped page had

swapVars == <<slots, configured, area, page, job, stored>>

Indices == 0 .. MAX_SWAP_SLOTS - 1
Torn == "torn"
NoHandle == [index |-> MAX_SWAP_SLOTS, generation |-> 0]
EmptySlot(generation) ==
    [occupied |-> FALSE, refcount |-> 0, generation |-> generation,
     backing |-> "ram", data |-> Torn]
IdleJob == [pc |-> "idle", at |-> NoHandle]
Unmapped == [state |-> "unmapped", data |-> Torn, slot |-> NoHandle]

SwapInit ==
    /\ slots = [i \in Indices |-> EmptySlot(0)]
    /\ configured = FALSE
    /\ area = [i \in 0 .. DiskSlots - 1 |-> Torn]
    /\ page = [h \in PageHolders |-> Unmapped]
    /\ job = [h \in PageHolders |-> IdleJob]
    /\ stored = [h \in PageHolders |-> Torn]

----------------------------------------------------------------------------
(* State's functions, each under the lock of SWAP.                         *)
UsedSlots == {i \in Indices : slots[i].occupied /\ slots[i].refcount > 0}
FreeSlots == {i \in Indices : ~slots[i].occupied}
FreeSlot == Min(FreeSlots)

NextGeneration(i) ==
    LET g == (slots[i].generation + 1) % SwapGenerations IN IF g = 0 THEN 1 ELSE g

ValidSlot(handle) ==
    /\ handle.index \in Indices
    /\ slots[handle.index].occupied
    /\ slots[handle.index].refcount > 0
    /\ slots[handle.index].generation = handle.generation

SlotHandle(i, generation) == [index |-> i, generation |-> generation]

Occupied(i, backing, refcount, data) ==
    [occupied |-> TRUE, refcount |-> refcount, generation |-> NextGeneration(i),
     backing |-> backing, data |-> data]

UnmarkedReservationMutant(i) == [Occupied(i, "disk", 0, Torn) EXCEPT !.occupied = FALSE]
Reservation(i) == Occupied(i, "disk", 0, Torn)

CanReserve == FreeSlots # {} /\ configured /\ FreeSlot < DiskSlots

IsReserved(handle) ==
    /\ slots[handle.index].occupied
    /\ slots[handle.index].refcount = 0
    /\ slots[handle.index].generation = handle.generation

UncountedShareMutant(handle) == slots
Shared(handle) == [slots EXCEPT ![handle.index].refcount = @ + 1]

Released(handle) ==
    LET s == slots[handle.index] IN
    IF ~ValidSlot(handle) THEN slots
    ELSE [slots EXCEPT ![handle.index] =
            IF s.refcount = 1 THEN EmptySlot(s.generation)
            ELSE [s EXCEPT !.refcount = @ - 1]]

(* configure_disk: only while no slot is in use.                           *)
Configure ==
    /\ ~configured /\ UsedSlots = {} /\ DiskSlots > 0
    /\ configured' = TRUE
    /\ UNCHANGED <<slots, area, page, job, stored>>

----------------------------------------------------------------------------
At(h, pc) == job[h].pc = pc
Continue(h, pc, at) == job' = [job EXCEPT ![h] = [pc |-> pc, at |-> at]]
EndJob(h) == job' = [job EXCEPT ![h] = IdleJob]

(* populate_file_page and the store that marks the page dirty.             *)
Touch(h) ==
    /\ At(h, "idle") /\ page[h].state # "swapped"
    /\ \E v \in PageData :
         page' = [page EXCEPT ![h] = [state |-> "resident", data |-> v, slot |-> NoHandle]]
    /\ UNCHANGED <<slots, configured, area, job, stored>>

(* evict_file_page, dirty private page: allocate_page tries the disk.      *)
StartEvict(h) ==
    /\ At(h, "idle") /\ page[h].state = "resident"
    /\ IF CanReserve
       THEN /\ Continue(h, "write", SlotHandle(FreeSlot, NextGeneration(FreeSlot)))
            /\ slots' = [slots EXCEPT ![FreeSlot] = Reservation(FreeSlot)]
       ELSE Continue(h, "ram", NoHandle) /\ UNCHANGED slots
    /\ UNCHANGED <<configured, area, page, stored>>

(* write_page_to_device and flush, the table's lock released.              *)
WritePage(h) ==
    /\ At(h, "write")
    /\ \/ /\ area' = [area EXCEPT ![job[h].at.index] = page[h].data]
          /\ Continue(h, "publish", job[h].at)
       \/ /\ area' = [area EXCEPT ![job[h].at.index] = Torn]
          /\ Continue(h, "cancel", job[h].at)
    /\ UNCHANGED <<slots, configured, page, stored>>

(* publish_reserved_disk.                                                  *)
UnpublishedMutant(h) == UNCHANGED slots
MarkPublished(h) == slots' = [slots EXCEPT ![job[h].at.index].refcount = 1]

PublishReserved(h) ==
    /\ At(h, "publish")
    /\ IF IsReserved(job[h].at)
       THEN MarkPublished(h) /\ Continue(h, "unmap", job[h].at)
       ELSE UNCHANGED slots /\ Continue(h, "cancel", job[h].at)
    /\ UNCHANGED <<configured, area, page, stored>>

(* cancel_reserved, then the fall back to kernel memory.                   *)
CancelReserved(h) ==
    /\ At(h, "cancel")
    /\ slots' = IF IsReserved(job[h].at)
                THEN [slots EXCEPT ![job[h].at.index] = EmptySlot(@.generation)]
                ELSE slots
    /\ Continue(h, "ram", NoHandle)
    /\ UNCHANGED <<configured, area, page, stored>>

AllocateRam(h) ==
    /\ At(h, "ram")
    /\ IF FreeSlots = {}
       THEN EndJob(h) /\ UNCHANGED slots
       ELSE /\ slots' = [slots EXCEPT ![FreeSlot] = Occupied(FreeSlot, "ram", 1, page[h].data)]
            /\ Continue(h, "unmap", SlotHandle(FreeSlot, NextGeneration(FreeSlot)))
    /\ UNCHANGED <<configured, area, page, stored>>

(* The page is unmapped and the mapping takes the slot; when it cannot be  *)
(* unmapped the slot is given back.                                        *)
Unmap(h) ==
    /\ At(h, "unmap") /\ EndJob(h)
    /\ \/ /\ page' = [page EXCEPT ![h] = [state |-> "swapped", data |-> Torn, slot |-> job[h].at]]
          /\ stored' = [stored EXCEPT ![h] = page[h].data]
          /\ UNCHANGED slots
       \/ slots' = Released(job[h].at) /\ UNCHANGED <<page, stored>>
    /\ UNCHANGED <<configured, area>>

----------------------------------------------------------------------------
(* populate_file_page of a swapped page: read_page finds the slot under    *)
(* the lock, then reads the disk without it.                               *)
Backing(handle) == slots[handle.index].backing

StartPopulate(h) ==
    /\ At(h, "idle") /\ page[h].state = "swapped" /\ ValidSlot(page[h].slot)
    /\ IF Backing(page[h].slot) = "ram"
       THEN job' = [job EXCEPT ![h] = [pc |-> "map", at |-> page[h].slot,
                                       data |-> slots[page[h].slot.index].data]]
       ELSE Continue(h, "read", page[h].slot)
    /\ UNCHANGED <<slots, configured, area, page, stored>>

ReadPage(h) ==
    /\ At(h, "read")
    /\ \/ job' = [job EXCEPT ![h] = [pc |-> "map", at |-> @.at, data |-> area[@.at.index]]]
       \/ EndJob(h)
    /\ UNCHANGED <<slots, configured, area, page, stored>>

(* map_private_frame_from_bytes, then release_page.                        *)
Map(h) ==
    /\ At(h, "map") /\ EndJob(h)
    /\ \/ /\ page' = [page EXCEPT ![h] =
                        [state |-> "resident", data |-> job[h].data, slot |-> NoHandle]]
          /\ slots' = Released(job[h].at)
       \/ UNCHANGED <<page, slots>>
    /\ UNCHANGED <<configured, area, stored>>

(* clone_address_space: share_mapping_swap_slots for the child.            *)
Fork(h, child) ==
    /\ At(h, "idle") /\ At(child, "idle")
    /\ page[h].state = "swapped" /\ page[child].state = "unmapped"
    /\ ValidSlot(page[h].slot)
    /\ slots' = Shared(page[h].slot)
    /\ page' = [page EXCEPT ![child] = page[h]]
    /\ stored' = [stored EXCEPT ![child] = stored[h]]
    /\ UNCHANGED <<configured, area, job>>

(* unmap_anonymous: release_mapping_swap_slots.                            *)
Drop(h) ==
    /\ At(h, "idle") /\ page[h].state # "unmapped"
    /\ slots' = Released(page[h].slot)
    /\ page' = [page EXCEPT ![h] = Unmapped]
    /\ UNCHANGED <<configured, area, job, stored>>

SwapNext ==
    \/ Configure
    \/ \E h \in PageHolders :
         \/ Touch(h) \/ StartEvict(h) \/ WritePage(h) \/ PublishReserved(h) \/ CancelReserved(h)
         \/ AllocateRam(h) \/ Unmap(h) \/ StartPopulate(h) \/ ReadPage(h) \/ Map(h) \/ Drop(h)
         \/ \E child \in PageHolders \ {h} : Fork(h, child)

SwapSpec == SwapInit /\ [][SwapNext]_swapVars

----------------------------------------------------------------------------
Owns(h, i) ==
    \/ page[h].state = "swapped" /\ page[h].slot.index = i
    \/ At(h, "unmap") /\ job[h].at.index = i
Reserves(h, i) == job[h].pc \in {"write", "publish", "cancel"} /\ job[h].at.index = i

(* reserve_disk, publish_reserved_disk, cancel_reserved, allocate_ram,     *)
(* share and release: a slot's count is the number of mappings whose page  *)
(* is in it, a slot between its reservation and its publication belongs    *)
(* to exactly one eviction, and no slot stays occupied for nobody.         *)
SwapRefsExact ==
    \A i \in Indices :
        LET owners == {h \in PageHolders : Owns(h, i)}
            reservers == {h \in PageHolders : Reserves(h, i)}
        IN /\ slots[i].refcount = Cardinality(owners)
           /\ Cardinality(reservers) <= 1
           /\ slots[i].occupied <=> owners \cup reservers # {}

(* allocate_page and read_page: the bytes in a swapped page's slot, in     *)
(* memory or on the disk, are the bytes the page had when it was evicted,  *)
(* through disk errors, the fall back to memory, sharing by fork and the   *)
(* reuse of the slot by other mappings.                                    *)
SwapKeepsPages ==
    \A h \in PageHolders : page[h].state = "swapped" =>
        /\ ValidSlot(page[h].slot)
        /\ stored[h] = IF Backing(page[h].slot) = "ram" THEN slots[page[h].slot.index].data
                       ELSE area[page[h].slot.index]

(* The swap table as a whole: counts and contents.                         *)
SwapExact == SwapRefsExact /\ SwapKeepsPages
=============================================================================

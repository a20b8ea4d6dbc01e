---------------------------- MODULE MemoryProofs -----------------------------
(***************************************************************************)
(* Proofs about the swap table and about the physical frames, for every    *)
(* size of each.                                                           *)
(***************************************************************************)
EXTENDS Swap, FrameAllocator, FiniteSetTheorems, WellFoundedInduction, TLAPS

(***************************************************************************)
(* The swap table, for any number of slots, disk pages and mappings.       *)
(*                                                                         *)
(* SwapExact alone is not inductive: it says nothing of an operation that  *)
(* is between two of its steps.  HolderPlaced says what each step of an    *)
(* eviction and of a population may rely on (a reservation is still there  *)
(* when its write returns, the bytes on the disk are the page's when it is *)
(* published, the slot being read is still the mapping's), SlotPlaced      *)
(* counts the owners of a slot, the eviction about to unmap its page       *)
(* included.                                                               *)
(***************************************************************************)
SlotData == PageData \cup {Torn}
SlotHandles == [index : 0 .. MAX_SWAP_SLOTS, generation : Nat]
SwapSlot == [occupied : BOOLEAN, refcount : Nat, generation : Nat,
             backing : {"ram", "disk"}, data : SlotData]
SwapPage == [state : {"resident", "swapped", "unmapped"}, data : SlotData, slot : SlotHandles]
SwapJob == [pc : {"idle", "write", "publish", "cancel", "ram", "unmap", "read"}, at : SlotHandles]
             \cup [pc : {"map"}, at : SlotHandles, data : SlotData]

SwapTyped ==
    /\ slots \in [Indices -> SwapSlot]
    /\ area \in [0 .. DiskSlots - 1 -> SlotData]
    /\ page \in [PageHolders -> SwapPage]
    /\ job \in [PageHolders -> SwapJob]
    /\ stored \in [PageHolders -> SlotData]

Bytes(handle) == IF Backing(handle) = "ram" THEN slots[handle.index].data ELSE area[handle.index]
Evicting == {"write", "publish", "cancel"}

HolderPlaced(h) ==
    /\ job[h].pc \in Evicting \cup {"ram", "unmap"} => page[h].state = "resident"
    /\ job[h].pc \in Evicting =>
          job[h].at.index \in Indices /\ IsReserved(job[h].at) /\ Backing(job[h].at) = "disk"
    /\ job[h].pc = "publish" => area[job[h].at.index] = page[h].data
    /\ job[h].pc = "unmap" => ValidSlot(job[h].at) /\ Bytes(job[h].at) = page[h].data
    /\ job[h].pc \in {"read", "map"} => page[h].state = "swapped" /\ job[h].at = page[h].slot
    /\ job[h].pc = "read" => Backing(job[h].at) = "disk"
    /\ job[h].pc = "map" => job[h].data = stored[h]
    /\ page[h].state = "swapped" => ValidSlot(page[h].slot) /\ stored[h] = Bytes(page[h].slot)
    /\ page[h].state # "swapped" => page[h].slot = NoHandle

SlotOwners(i) == {h \in PageHolders : Owns(h, i)}

SlotPlaced(i) ==
    /\ slots[i].refcount = Cardinality(SlotOwners(i))
    /\ \A g, h \in PageHolders : Reserves(g, i) /\ Reserves(h, i) => g = h
    /\ slots[i].occupied <=> \E h \in PageHolders : Owns(h, i) \/ Reserves(h, i)
    /\ slots[i].backing = "disk" => i < DiskSlots

SwapInv ==
    /\ SwapTyped
    /\ \A h \in PageHolders : HolderPlaced(h)
    /\ \A i \in Indices : SlotPlaced(i)

\* Steps of one holder leave the others alone.
OnlyHolder(h) ==
    \A g \in PageHolders \ {h} : page'[g] = page[g] /\ job'[g] = job[g] /\ stored'[g] = stored[g]

\* A slot whose bytes and generation do not change.
SlotStays(i) ==
    /\ (slots'[i].occupied <=> slots[i].occupied) /\ slots'[i].generation = slots[i].generation
    /\ slots'[i].backing = slots[i].backing /\ slots'[i].data = slots[i].data
    /\ slots[i].backing = "disk" => area'[i] = area[i]

\* A slot that a step of holder h has nothing to do with.
SlotAside(h, i) ==
    /\ slots'[i] = slots[i] /\ (slots[i].backing = "disk" => area'[i] = area[i])
    /\ Owns(h, i)' <=> Owns(h, i)
    /\ Reserves(h, i)' <=> Reserves(h, i)

\* The free slot that is found is a free slot.
LEMMA FirstFreeSlot ==
    ASSUME FreeSlots # {}
    PROVE  FreeSlot \in Indices /\ ~slots[FreeSlot].occupied
<1>1. FreeSlots \in SUBSET Nat
  BY SwapAssumption DEF FreeSlots, Indices
<1>2. \E x \in FreeSlots : \A y \in FreeSlots : ~(<<y, x>> \in OpToRel(<, Nat))
  BY <1>1, NatLessThanWellFounded, WFMin
<1>3. \A x, y \in Nat : y < x => <<y, x>> \in OpToRel(<, Nat)
  BY Zenon DEF OpToRel
<1>4. PICK x \in FreeSlots : \A y \in FreeSlots : ~(y < x)
  BY <1>1, <1>2, <1>3, Zenon
<1>5. \A y \in FreeSlots : x <= y
  BY <1>1, <1>4
<1>6. Min(FreeSlots) \in FreeSlots
  BY <1>5, Zenon DEF Min
<1> QED BY <1>6 DEF FreeSlot, FreeSlots

\* The next generation of a slot is a number, wrap-around included.
LEMMA GenerationTyped ==
    ASSUME SwapTyped, NEW i \in Indices
    PROVE  NextGeneration(i) \in Nat
<1> DEFINE n == slots[i].generation + 1
           g == n % SwapGenerations
<1>1. n \in Nat
  BY DEF SwapTyped, SwapSlot
<1> HIDE DEF n
<1>2. g \in Nat
  BY <1>1, SwapAssumption, Z3
<1> HIDE DEF g
<1> QED BY <1>2 DEF NextGeneration, g, n

\* Who has anything to do with a slot, by its state.
LEMMA FreeIsNobodys ==
    ASSUME SwapInv, NEW i \in Indices, ~slots[i].occupied
    PROVE  /\ slots[i].refcount = 0
           /\ \A h \in PageHolders : ~Owns(h, i) /\ ~Reserves(h, i)
<1>1. \A h \in PageHolders : ~Owns(h, i) /\ ~Reserves(h, i)
  BY DEF SwapInv, SlotPlaced
<1>2. SlotOwners(i) = {}
  BY <1>1 DEF SlotOwners
<1> QED BY <1>1, <1>2, FS_EmptySet DEF SwapInv, SlotPlaced

\* A slot with an owner is occupied, counted, and nobody's reservation.
LEMMA OwnedIsValid ==
    ASSUME SwapInv, NEW h \in PageHolders, NEW i, Owns(h, i)
    PROVE  /\ i \in Indices /\ slots[i].occupied /\ slots[i].refcount > 0
           /\ \A g \in PageHolders : ~Reserves(g, i)
<1>1. HolderPlaced(h) /\ \A g \in PageHolders : HolderPlaced(g)
  BY DEF SwapInv
<1>2. i \in Indices /\ slots[i].occupied /\ slots[i].refcount > 0
  BY <1>1 DEF HolderPlaced, Owns, At, ValidSlot
<1>3. ASSUME NEW g \in PageHolders, Reserves(g, i) PROVE FALSE
  <2>1. slots[i].refcount = 0
    BY <1>1, <1>3 DEF HolderPlaced, Reserves, IsReserved, Evicting
  <2> QED BY <1>2, <2>1
<1> QED BY <1>2, <1>3

\* A reserved slot is on the disk, uncounted, and one eviction's alone.
LEMMA ReservedIsAlone ==
    ASSUME SwapInv, NEW h \in PageHolders, NEW i, Reserves(h, i)
    PROVE  /\ i \in Indices /\ slots[i].occupied /\ slots[i].refcount = 0
           /\ slots[i].backing = "disk" /\ i \in 0 .. DiskSlots - 1
           /\ slots[i].generation = job[h].at.generation
           /\ \A g \in PageHolders : ~Owns(g, i) /\ (Reserves(g, i) => g = h)
<1>1. HolderPlaced(h)
  BY DEF SwapInv
<1>2. /\ i \in Indices /\ slots[i].occupied /\ slots[i].refcount = 0 /\ slots[i].backing = "disk"
      /\ slots[i].generation = job[h].at.generation
  BY <1>1 DEF HolderPlaced, Reserves, IsReserved, Evicting, Backing
<1>3. i < DiskSlots /\ \A g \in PageHolders : Reserves(g, i) => g = h
  BY <1>2 DEF SwapInv, SlotPlaced
<1>4. i \in 0 .. DiskSlots - 1
  BY <1>2, <1>3, SwapAssumption DEF Indices
<1>5. \A g \in PageHolders : ~Owns(g, i)
  BY OwnedIsValid
<1> QED BY <1>2, <1>3, <1>4, <1>5

\* A step of one holder changes no claim of another.
LEMMA OthersClaims ==
    ASSUME NEW h \in PageHolders, OnlyHolder(h), NEW g \in PageHolders \ {h}, NEW i
    PROVE  (Owns(g, i)' <=> Owns(g, i)) /\ (Reserves(g, i)' <=> Reserves(g, i))
  BY DEF OnlyHolder, Owns, Reserves, At

\* Another holder's bytes stay where they are if its slots stay.
LEMMA OtherPlaced ==
    ASSUME SwapInv, NEW h \in PageHolders, OnlyHolder(h), NEW g \in PageHolders \ {h},
           \A i \in Indices : Owns(g, i) => SlotStays(i) /\ slots'[i].refcount > 0,
           \A i \in Indices : Reserves(g, i) =>
              SlotStays(i) /\ slots'[i].refcount = slots[i].refcount
    PROVE  HolderPlaced(g)'
<1>1. HolderPlaced(g) /\ page'[g] = page[g] /\ job'[g] = job[g] /\ stored'[g] = stored[g]
  BY Zenon DEF SwapInv, OnlyHolder
<1>2. ASSUME job[g].pc \in Evicting
      PROVE  /\ IsReserved(job[g].at)' /\ Backing(job[g].at)' = "disk"
             /\ area'[job[g].at.index] = area[job[g].at.index]
  <2> DEFINE i == job[g].at.index
  <2>1. Reserves(g, i) /\ i \in Indices /\ IsReserved(job[g].at) /\ slots[i].backing = "disk"
    BY <1>1, <1>2 DEF Reserves, Evicting, HolderPlaced, Backing
  <2>2. SlotStays(i) /\ slots'[i].refcount = slots[i].refcount
    BY Zenon, <2>1
  <2> QED BY Zenon, <1>1, <2>1, <2>2 DEF SlotStays, IsReserved, Backing
<1>3. ASSUME job[g].pc = "unmap"
      PROVE  ValidSlot(job[g].at)' /\ Bytes(job[g].at)' = Bytes(job[g].at)
  <2> DEFINE i == job[g].at.index
  <2>1. Owns(g, i) /\ i \in Indices /\ ValidSlot(job[g].at)
    BY Zenon, <1>1, <1>3 DEF Owns, At, HolderPlaced, ValidSlot
  <2>2. SlotStays(i) /\ slots'[i].refcount > 0
    BY <2>1
  <2>3. slots[i].backing \in {"ram", "disk"}
    BY Zenon, <2>1 DEF SwapInv, SwapTyped, SwapSlot
  <2> QED BY <1>1, <2>1, <2>2, <2>3 DEF SlotStays, ValidSlot, Backing, Bytes
<1>4. ASSUME page[g].state = "swapped"
      PROVE  /\ ValidSlot(page[g].slot)' /\ Bytes(page[g].slot)' = Bytes(page[g].slot)
             /\ Backing(page[g].slot)' = Backing(page[g].slot)
  <2> DEFINE i == page[g].slot.index
  <2>1. Owns(g, i) /\ i \in Indices /\ ValidSlot(page[g].slot)
    BY Zenon, <1>1, <1>4 DEF Owns, At, HolderPlaced, ValidSlot
  <2>2. SlotStays(i) /\ slots'[i].refcount > 0
    BY <2>1
  <2>3. slots[i].backing \in {"ram", "disk"}
    BY Zenon, <2>1 DEF SwapInv, SwapTyped, SwapSlot
  <2> QED BY Zenon, <1>1, <2>1, <2>2, <2>3 DEF SlotStays, ValidSlot, Backing, Bytes
<1>5. (page[g].slot = NoHandle)' <=> page[g].slot = NoHandle
  BY <1>1
<1>6. job[g].pc \in {"read", "map"} => page[g].state = "swapped"
  BY <1>1 DEF HolderPlaced
<1> QED BY Zenon, <1>1, <1>2, <1>3, <1>4, <1>5, <1>6 DEF HolderPlaced, Evicting

\* A slot that the step has nothing to do with.
LEMMA AsideKept ==
    ASSUME SwapInv, NEW h \in PageHolders, OnlyHolder(h), NEW i \in Indices, SlotAside(h, i)
    PROVE  SlotPlaced(i)'
<1>1. \A g \in PageHolders : (Owns(g, i)' <=> Owns(g, i)) /\ (Reserves(g, i)' <=> Reserves(g, i))
  BY OthersClaims DEF SlotAside
<1>2. SlotOwners(i)' = SlotOwners(i)
  BY <1>1 DEF SlotOwners
<1>3. SlotPlaced(i) /\ slots'[i] = slots[i]
  BY DEF SwapInv, SlotAside
<1> QED BY <1>1, <1>2, <1>3 DEF SlotPlaced

\* A step of one holder on at most one slot.
LEMMA HolderStep ==
    ASSUME SwapInv, SwapTyped', NEW h \in PageHolders, OnlyHolder(h), HolderPlaced(h)', NEW k,
           \A i \in Indices \ {k} : SlotAside(h, i),
           k \in Indices => SlotPlaced(k)',
           k \in Indices => \A g \in PageHolders \ {h} :
              /\ Owns(g, k) => SlotStays(k) /\ slots'[k].refcount > 0
              /\ Reserves(g, k) => SlotStays(k) /\ slots'[k].refcount = slots[k].refcount
    PROVE  SwapInv'
<1>1. ASSUME NEW i \in Indices \ {k} PROVE SlotStays(i) /\ slots'[i].refcount = slots[i].refcount
  BY <1>1 DEF SlotAside, SlotStays
<1>2. ASSUME NEW g \in PageHolders PROVE HolderPlaced(g)'
  <2>1. \A i \in Indices : Owns(g, i) => slots[i].refcount > 0
    BY OwnedIsValid
  <2>2. ASSUME g # h, NEW i \in Indices, Owns(g, i) PROVE SlotStays(i) /\ slots'[i].refcount > 0
    BY <1>1, <2>1, <2>2
  <2>3. ASSUME g # h, NEW i \in Indices, Reserves(g, i)
        PROVE SlotStays(i) /\ slots'[i].refcount = slots[i].refcount
    BY <1>1, <2>3
  <2> QED BY <2>2, <2>3, OtherPlaced
<1>3. ASSUME NEW i \in Indices PROVE SlotPlaced(i)'
  BY AsideKept
<1>4. Indices' = Indices
  BY DEF Indices
<1> QED BY <1>2, <1>3, <1>4 DEF SwapInv
\* A step of one holder that touches no slot and takes or gives up none.
LEMMA SlotlessStep ==
    ASSUME SwapInv, SwapTyped', NEW h \in PageHolders, OnlyHolder(h), HolderPlaced(h)',
           slots' = slots, area' = area,
           \A i \in Indices : (Owns(h, i)' <=> Owns(h, i)) /\ (Reserves(h, i)' <=> Reserves(h, i))
    PROVE  SwapInv'
<1>1. \A i \in Indices : SlotAside(h, i)
  BY DEF SlotAside
<1>2. NoHandle.index \notin Indices
  BY SwapAssumption DEF NoHandle, Indices
<1> QED BY <1>1, <1>2, HolderStep

\* The handle of no slot.
LEMMA NowhereTyped == NoHandle \in SlotHandles /\ NoHandle.index \notin Indices /\ IdleJob \in SwapJob
  BY SwapAssumption DEF NoHandle, SlotHandles, Indices, IdleJob, SwapJob

\* The types of a holder's page and job.
LEMMA PlacedAt ==
    ASSUME SwapInv, NEW h \in PageHolders
    PROVE  /\ HolderPlaced(h) /\ page[h] \in SwapPage /\ job[h] \in SwapJob /\ stored[h] \in SlotData
           /\ job[h].at \in SlotHandles /\ page[h].slot \in SlotHandles /\ page[h].data \in SlotData
  BY DEF SwapInv, SwapTyped, SwapPage, SwapJob

\* populate_file_page of a page without a slot.
LEMMA TouchKept ==
    ASSUME SwapInv, NEW h \in PageHolders, Touch(h)
    PROVE  SwapInv'
<1>1. PICK v \in PageData :
        /\ page' = [page EXCEPT ![h] = [state |-> "resident", data |-> v, slot |-> NoHandle]]
        /\ UNCHANGED <<slots, area, job, stored>> /\ job[h].pc = "idle" /\ page[h].state # "swapped"
  BY Zenon DEF Touch, At
<1> DEFINE p == [state |-> "resident", data |-> v, slot |-> NoHandle]
<1>2. p \in SwapPage /\ p.state = "resident" /\ p.slot = NoHandle
  BY NowhereTyped DEF SwapPage, SlotData
<1> HIDE DEF p
<1>3. page' = [page EXCEPT ![h] = p]
  BY <1>1 DEF p
<1>4. SwapTyped' /\ page'[h] = p
  BY <1>1, <1>2, <1>3 DEF SwapInv, SwapTyped, Indices
<1>5. OnlyHolder(h)
  BY <1>1, <1>3 DEF OnlyHolder, SwapInv, SwapTyped
<1>6. HolderPlaced(h)'
  BY <1>1, <1>2, <1>4 DEF HolderPlaced, Evicting
<1>7. \A i \in Indices : (Owns(h, i)' <=> Owns(h, i)) /\ (Reserves(h, i)' <=> Reserves(h, i))
  BY <1>1, <1>2, <1>4 DEF Owns, Reserves, At
<1> QED BY <1>1, <1>4, <1>5, <1>6, <1>7, SlotlessStep

\* A step that only moves a holder's operation along.
LEMMA JobMoved ==
    ASSUME SwapInv, NEW h \in PageHolders, NEW j \in SwapJob, job' = [job EXCEPT ![h] = j],
           UNCHANGED <<slots, area, page, stored>>
    PROVE  /\ SwapTyped' /\ OnlyHolder(h) /\ job'[h] = j /\ page'[h] = page[h] /\ stored'[h] = stored[h]
<1>1. SwapTyped
  BY DEF SwapInv
<1> QED BY <1>1 DEF SwapTyped, OnlyHolder, Indices

\* read_page and the failures that end an operation without a slot.
LEMMA PopulateKept ==
    ASSUME SwapInv, NEW h \in PageHolders,
           \/ StartPopulate(h) \/ ReadPage(h)
           \/ Map(h) /\ UNCHANGED <<page, slots>>
           \/ AllocateRam(h) /\ FreeSlots = {}
           \/ StartEvict(h) /\ ~CanReserve
    PROVE  SwapInv'
<1>1. /\ HolderPlaced(h) /\ page[h] \in SwapPage /\ job[h] \in SwapJob /\ stored[h] \in SlotData
      /\ job[h].at \in SlotHandles /\ page[h].slot \in SlotHandles
  BY PlacedAt
<1>2. UNCHANGED <<slots, area, page, stored>>
  BY DEF StartPopulate, ReadPage, Map, AllocateRam, StartEvict
<1>3. job[h].pc \in {"idle", "read", "map", "ram"}
  BY DEF StartPopulate, ReadPage, Map, AllocateRam, StartEvict, At
<1>4. ASSUME NEW j \in SwapJob, job' = [job EXCEPT ![h] = j], HolderPlaced(h)',
             j.pc \in {"idle", "read", "map", "ram"}
      PROVE  SwapInv'
  <2>1. SwapTyped' /\ OnlyHolder(h) /\ job'[h] = j /\ page'[h] = page[h]
    BY Zenon, <1>2, <1>4, JobMoved
  <2>2. \A i \in Indices : (Owns(h, i)' <=> Owns(h, i)) /\ (Reserves(h, i)' <=> Reserves(h, i))
    BY <1>3, <1>4, <2>1 DEF Owns, Reserves, At
  <2> QED BY <1>2, <1>4, <2>1, <2>2, SlotlessStep
<1>5. /\ (page[h].state = "swapped" => ValidSlot(page[h].slot)' /\ (stored[h] = Bytes(page[h].slot))')
      /\ (page[h].state # "swapped" => page'[h].slot = NoHandle) /\ page'[h].state = page[h].state
      /\ page'[h].slot = page[h].slot
  BY Zenon, <1>1, <1>2 DEF HolderPlaced, ValidSlot, Bytes, Backing
<1>6. ASSUME NEW j \in SwapJob, job' = [job EXCEPT ![h] = j], j.pc \in {"idle", "read", "map", "ram"},
             j.pc = "ram" => page[h].state = "resident",
             j.pc \in {"read", "map"} => page[h].state = "swapped" /\ j.at = page[h].slot,
             j.pc = "read" => Backing(j.at) = "disk",
             j.pc = "map" => j.data = stored[h]
      PROVE  HolderPlaced(h)'
  <2>1. job'[h] = j /\ stored' = stored /\ slots' = slots
    BY Zenon, <1>2, <1>6, JobMoved
  <2> QED BY Zenon, <1>5, <1>6, <2>1 DEF HolderPlaced, Evicting, Backing
<1>7. CASE StartPopulate(h)
  <2>1. page[h].state = "swapped" /\ ValidSlot(page[h].slot) /\ stored[h] = Bytes(page[h].slot)
    BY Zenon, <1>1, <1>7 DEF StartPopulate, HolderPlaced
  <2>2. CASE Backing(page[h].slot) = "ram"
    <3> DEFINE j == [pc |-> "map", at |-> page[h].slot, data |-> slots[page[h].slot.index].data]
    <3>1. job' = [job EXCEPT ![h] = j]
      BY <1>7, <2>2 DEF StartPopulate
    <3>2. j \in SwapJob /\ j.pc = "map" /\ j.at = page[h].slot /\ j.data = stored[h]
      BY Zenon, <1>1, <2>1, <2>2 DEF SwapJob, Bytes
    <3> HIDE DEF j
    <3> QED BY Zenon, <1>4, <1>6, <2>1, <3>1, <3>2
  <2>3. CASE Backing(page[h].slot) # "ram"
    <3> DEFINE j == [pc |-> "read", at |-> page[h].slot]
    <3>1. job' = [job EXCEPT ![h] = j]
      BY <1>7, <2>3 DEF StartPopulate, Continue
    <3>2. j \in SwapJob /\ j.pc = "read" /\ j.at = page[h].slot
      BY <1>1 DEF SwapJob
    <3>3. Backing(page[h].slot) = "disk"
      BY <2>1, <2>3 DEF SwapInv, SwapTyped, SwapSlot, Backing, ValidSlot
    <3> HIDE DEF j
    <3> QED BY Zenon, <1>4, <1>6, <2>1, <3>1, <3>2, <3>3
  <2> QED BY <2>2, <2>3
<1>8. ASSUME EndJob(h) PROVE SwapInv'
  <2>1. IdleJob \in SwapJob /\ IdleJob.pc = "idle" /\ job' = [job EXCEPT ![h] = IdleJob]
    BY <1>8, NowhereTyped DEF IdleJob, EndJob
  <2> HIDE DEF IdleJob
  <2> QED BY Zenon, <1>4, <1>6, <2>1
<1>9. CASE ReadPage(h)
  <2>1. /\ page[h].state = "swapped" /\ job[h].at = page[h].slot /\ Backing(job[h].at) = "disk"
        /\ stored[h] = Bytes(page[h].slot)
    BY <1>1, <1>9 DEF ReadPage, HolderPlaced, At
  <2>2. CASE job' = [job EXCEPT ![h] = [pc |-> "map", at |-> @.at, data |-> area[@.at.index]]]
    <3> DEFINE j == [pc |-> "map", at |-> job[h].at, data |-> area[job[h].at.index]]
    <3>1. job' = [job EXCEPT ![h] = j]
      BY <2>2 DEF SwapInv, SwapTyped
    <3>2. j \in SwapJob /\ j.pc = "map" /\ j.at = page[h].slot /\ j.data = stored[h]
      BY Zenon, <1>1, <2>1 DEF SwapJob, Bytes
    <3> HIDE DEF j
    <3> QED BY Zenon, <1>4, <1>6, <2>1, <3>1, <3>2
  <2> QED BY <1>8, <1>9, <2>2 DEF ReadPage
<1>10. CASE StartEvict(h) /\ ~CanReserve
  <2> DEFINE j == [pc |-> "ram", at |-> NoHandle]
  <2>1. job' = [job EXCEPT ![h] = j] /\ page[h].state = "resident"
    BY <1>10 DEF StartEvict, Continue
  <2>2. j \in SwapJob /\ j.pc = "ram"
    BY NowhereTyped DEF SwapJob
  <2> HIDE DEF j
  <2> QED BY Zenon, <1>4, <1>6, <2>1, <2>2
<1>11. CASE Map(h) \/ (AllocateRam(h) /\ FreeSlots = {})
  BY <1>8, <1>11 DEF Map, AllocateRam
<1> QED BY <1>7, <1>9, <1>10, <1>11
\* reserve_disk and allocate_ram: a free slot is taken.
LEMMA SlotTaken ==
    ASSUME SwapInv, NEW h \in PageHolders, NEW k \in Indices, ~slots[k].occupied,
           NEW r \in SwapSlot, slots' = [slots EXCEPT ![k] = r], r.occupied,
           NEW j \in SwapJob, job' = [job EXCEPT ![h] = j],
           j.at.index = k, j.at.generation = r.generation,
           \/ j.pc = "write" /\ r.refcount = 0 /\ r.backing = "disk" /\ k < DiskSlots
           \/ j.pc = "unmap" /\ r.refcount = 1 /\ r.backing = "ram" /\ r.data = page[h].data,
           page[h].state = "resident", job[h].pc \in {"idle", "ram"},
           UNCHANGED <<area, page, stored>>
    PROVE  SwapInv'
<1>1. SwapTyped /\ HolderPlaced(h)
  BY DEF SwapInv
<1>2. SwapTyped' /\ OnlyHolder(h) /\ job'[h] = j /\ page'[h] = page[h] /\ slots'[k] = r
      /\ \A i \in Indices \ {k} : slots'[i] = slots[i]
  BY <1>1 DEF SwapTyped, OnlyHolder, Indices
<1>3. \A g \in PageHolders : ~Owns(g, k) /\ ~Reserves(g, k)
  BY FreeIsNobodys
<1>4. ASSUME NEW i \in Indices \ {k} PROVE SlotAside(h, i)
  BY <1>2 DEF SlotAside, Owns, Reserves, At
<1>5. \A g \in PageHolders \ {h} : ~Owns(g, k)' /\ ~Reserves(g, k)'
  BY <1>2, <1>3, OthersClaims
<1>6. SlotPlaced(k)'
  <2>1. CASE j.pc = "write"
    <3>1. Reserves(h, k)' /\ ~Owns(h, k)'
      BY <1>2, <2>1 DEF Owns, Reserves, At
    <3>2. SlotOwners(k)' = {}
      BY <1>5, <3>1 DEF SlotOwners
    <3>3. Cardinality(SlotOwners(k)') = 0
      BY <3>2, FS_EmptySet
    <3>4. r.refcount = 0 /\ k < DiskSlots
      BY <2>1
    <3> QED BY <1>2, <1>5, <3>1, <3>3, <3>4 DEF SlotPlaced
  <2>2. CASE j.pc = "unmap"
    <3>1. Owns(h, k)' /\ ~Reserves(h, k)'
      BY <1>2, <2>2 DEF Owns, Reserves, At
    <3>2. SlotOwners(k)' = {h}
      BY <1>5, <3>1 DEF SlotOwners
    <3>3. Cardinality(SlotOwners(k)') = 1
      BY Zenon, <3>2, FS_Singleton
    <3>4. r.refcount = 1 /\ r.backing = "ram"
      BY <2>2
    <3> QED BY <1>2, <1>5, <3>1, <3>3, <3>4 DEF SlotPlaced
  <2> QED BY <2>1, <2>2
<1>7. HolderPlaced(h)'
  <2>1. page'[h].slot = NoHandle /\ page'[h].state = "resident" /\ page'[h].data = page[h].data
    BY <1>1, <1>2 DEF HolderPlaced
  <2>2. CASE j.pc = "write"
    <3>1. IsReserved(j.at)' /\ Backing(j.at)' = "disk"
      BY <1>2, <2>2 DEF IsReserved, Backing
    <3> QED BY Zenon, <1>2, <2>1, <2>2, <3>1 DEF HolderPlaced, Evicting
  <2>3. CASE j.pc = "unmap"
    <3>1. ValidSlot(j.at)' /\ Bytes(j.at)' = page[h].data
      BY <1>2, <2>3 DEF ValidSlot, Bytes, Backing
    <3> QED BY <1>2, <2>1, <2>3, <3>1 DEF HolderPlaced, Evicting
  <2> QED BY <2>2, <2>3
<1> QED BY <1>2, <1>3, <1>4, <1>6, <1>7, HolderStep

\* reserve_disk and allocate_ram: a free slot is taken.
LEMMA TakeKept ==
    ASSUME SwapInv, NEW h \in PageHolders,
           (StartEvict(h) /\ CanReserve) \/ (AllocateRam(h) /\ FreeSlots # {})
    PROVE  SwapInv'
<1> DEFINE k == FreeSlot
           n == NextGeneration(k)
           a == [index |-> k, generation |-> n]
<1>1. k \in Indices /\ ~slots[k].occupied /\ n \in Nat
  BY FirstFreeSlot, GenerationTyped DEF SwapInv, CanReserve
<1>2. a \in SlotHandles /\ a.index = k /\ a.generation = n /\ SlotHandle(k, n) = a
  BY <1>1, SwapAssumption DEF SlotHandles, Indices, SlotHandle
<1>3. HolderPlaced(h) /\ page[h].data \in SlotData /\ Torn \in SlotData
  BY PlacedAt DEF SlotData
<1>4. CASE StartEvict(h) /\ CanReserve
  <2> DEFINE r == [occupied |-> TRUE, refcount |-> 0, generation |-> n, backing |-> "disk", data |-> Torn]
             j == [pc |-> "write", at |-> a]
  <2>1. /\ job' = [job EXCEPT ![h] = j] /\ slots' = [slots EXCEPT ![k] = r] /\ k < DiskSlots
        /\ UNCHANGED <<area, page, stored>> /\ page[h].state = "resident" /\ job[h].pc = "idle"
    BY <1>2, <1>4 DEF StartEvict, Continue, CanReserve, Reservation, Occupied, At
  <2> HIDE DEF a, n, k
  <2>2. r \in SwapSlot /\ r.occupied /\ r.refcount = 0 /\ r.backing = "disk" /\ r.generation = n
    BY <1>1, <1>3 DEF SwapSlot
  <2>3. j \in SwapJob /\ j.pc = "write" /\ j.at = a
    BY <1>2 DEF SwapJob
  <2> HIDE DEF r, j
  <2> QED BY Zenon, <1>1, <1>2, <2>1, <2>2, <2>3, SlotTaken
<1>5. CASE AllocateRam(h) /\ FreeSlots # {}
  <2> DEFINE r == [occupied |-> TRUE, refcount |-> 1, generation |-> n, backing |-> "ram", data |-> page[h].data]
             j == [pc |-> "unmap", at |-> a]
  <2>1. /\ job' = [job EXCEPT ![h] = j] /\ slots' = [slots EXCEPT ![k] = r]
        /\ UNCHANGED <<area, page, stored>> /\ job[h].pc = "ram"
    BY <1>2, <1>5 DEF AllocateRam, Continue, Occupied, At
  <2>2. page[h].state = "resident"
    BY Zenon, <1>3, <2>1 DEF HolderPlaced
  <2> HIDE DEF a, n, k
  <2>3. /\ r \in SwapSlot /\ r.occupied /\ r.refcount = 1 /\ r.backing = "ram" /\ r.generation = n
        /\ r.data = page[h].data
    BY <1>1, <1>3 DEF SwapSlot
  <2>4. j \in SwapJob /\ j.pc = "unmap" /\ j.at = a
    BY <1>2 DEF SwapJob
  <2> HIDE DEF r, j
  <2> QED BY Zenon, <1>1, <1>2, <2>1, <2>2, <2>3, <2>4, SlotTaken
<1> QED BY <1>4, <1>5

\* write_page_to_device: the disk page of a reservation is nobody else's.
LEMMA WriteKept ==
    ASSUME SwapInv, NEW h \in PageHolders, WritePage(h)
    PROVE  SwapInv'
<1>1. job[h].pc = "write" /\ UNCHANGED <<slots, page, stored>>
  BY DEF WritePage, At
<1>1a. PICK a \in SlotHandles : a = job[h].at
  BY PlacedAt
<1>1k. PICK k \in Indices : k = a.index
  BY <1>1, <1>1a, PlacedAt DEF HolderPlaced, Evicting
<1>2. HolderPlaced(h) /\ page[h].data \in SlotData /\ Torn \in SlotData /\ SwapTyped
  BY PlacedAt DEF SwapInv, SlotData
<1>3. Reserves(h, k)
  BY <1>1, <1>1a, <1>1k DEF Reserves
<1>4. /\ k \in 0 .. DiskSlots - 1
      /\ \A g \in PageHolders : ~Owns(g, k) /\ (Reserves(g, k) => g = h)
  BY <1>3, ReservedIsAlone
<1>5. PICK v \in SlotData, c \in {"publish", "cancel"} :
        /\ area' = [area EXCEPT ![k] = v] /\ (c = "publish" => v = page[h].data)
        /\ job' = [job EXCEPT ![h] = [pc |-> c, at |-> a]]
  BY <1>2, <1>1a, <1>1k DEF WritePage, Continue
<1> DEFINE j == [pc |-> c, at |-> a]
<1>6. j \in SwapJob /\ j.pc = c /\ j.at = a
  BY <1>2 DEF SwapJob
<1> HIDE DEF j
<1>7. /\ SwapTyped' /\ OnlyHolder(h) /\ job'[h] = j /\ page'[h] = page[h] /\ area'[k] = v
      /\ \A i \in 0 .. DiskSlots - 1 : i # k => area'[i] = area[i]
  <2>1. job' = [job EXCEPT ![h] = j]
    BY <1>5 DEF j
  <2> QED BY <1>1, <1>2, <1>4, <1>5, <1>6, <2>1 DEF SwapTyped, OnlyHolder, Indices
<1>8. \A i \in Indices : (Owns(h, i)' <=> Owns(h, i)) /\ (Reserves(h, i)' <=> Reserves(h, i))
  BY <1>1, <1>1a, <1>6, <1>7 DEF Owns, Reserves, At
<1>9. ASSUME NEW i \in Indices, i # k PROVE SlotAside(h, i)
  <2>1. slots[i].backing = "disk" => i \in 0 .. DiskSlots - 1
    BY SwapAssumption DEF SwapInv, SlotPlaced, Indices
  <2> QED BY Zenon, <1>1, <1>7, <1>8, <1>9, <2>1 DEF SlotAside
<1>10. SlotPlaced(k)'
  <2>1. \A g \in PageHolders : (Owns(g, k)' <=> Owns(g, k)) /\ (Reserves(g, k)' <=> Reserves(g, k))
    BY <1>4, <1>7, <1>8, OthersClaims
  <2>2. SlotOwners(k)' = SlotOwners(k)
    BY <2>1 DEF SlotOwners
  <2>3. SlotPlaced(k) /\ slots' = slots
    BY Zenon, <1>1 DEF SwapInv
  <2> QED BY <2>1, <2>2, <2>3 DEF SlotPlaced
<1>11. HolderPlaced(h)'
  BY <1>1, <1>2, <1>1a, <1>1k, <1>5, <1>6, <1>7 DEF HolderPlaced, Evicting, IsReserved, Backing
<1> QED BY Zenon, <1>4, <1>7, <1>9, <1>10, <1>11, HolderStep
\* publish_reserved_disk: the reservation is still there, and becomes the eviction's slot.
LEMMA PublishKept ==
    ASSUME SwapInv, NEW h \in PageHolders, PublishReserved(h)
    PROVE  SwapInv'
<1>1. job[h].pc = "publish" /\ UNCHANGED <<area, page, stored>> /\ SwapTyped /\ HolderPlaced(h)
  BY Zenon DEF PublishReserved, At, SwapInv
<1>2. PICK a \in SlotHandles : a = job[h].at
  BY PlacedAt
<1>3. PICK k \in Indices : k = a.index
  BY Zenon, <1>1, <1>2 DEF HolderPlaced, Evicting
<1>4. Reserves(h, k)
  BY Zenon, <1>1, <1>2, <1>3 DEF Reserves
<1>5. /\ slots[k].occupied /\ slots[k].refcount = 0 /\ slots[k].generation = a.generation
      /\ slots[k].backing = "disk" /\ k \in 0 .. DiskSlots - 1
      /\ \A g \in PageHolders : ~Owns(g, k) /\ (Reserves(g, k) => g = h)
  BY <1>2, <1>4, ReservedIsAlone
<1> DEFINE r == [slots[k] EXCEPT !.refcount = 1]
           j == [pc |-> "unmap", at |-> a]
<1>6. slots' = [slots EXCEPT ![k] = r] /\ job' = [job EXCEPT ![h] = j]
  BY <1>1, <1>2, <1>3 DEF PublishReserved, MarkPublished, Continue, HolderPlaced, Evicting, SwapTyped
<1>7. /\ r \in SwapSlot /\ r.refcount = 1 /\ r.generation = a.generation /\ r.backing = "disk"
      /\ r.occupied
  BY Zenon, <1>1, <1>5 DEF SwapTyped, SwapSlot
<1>8. j \in SwapJob /\ j.pc = "unmap" /\ j.at = a
  BY DEF SwapJob
<1> HIDE DEF r, j
<1>9. /\ SwapTyped' /\ OnlyHolder(h) /\ job'[h] = j /\ page'[h] = page[h] /\ slots'[k] = r
      /\ \A i \in Indices \ {k} : slots'[i] = slots[i]
  BY Zenon, <1>1, <1>6, <1>7, <1>8 DEF SwapTyped, OnlyHolder, Indices
<1>10. ASSUME NEW i \in Indices \ {k} PROVE SlotAside(h, i)
  BY <1>1, <1>2, <1>3, <1>8, <1>9 DEF SlotAside, Owns, Reserves, At
<1>11. SlotPlaced(k)'
  <2>1. \A g \in PageHolders \ {h} : ~Owns(g, k)' /\ ~Reserves(g, k)'
    BY <1>5, <1>9, OthersClaims
  <2>2. Owns(h, k)' /\ ~Reserves(h, k)'
    BY <1>3, <1>8, <1>9 DEF Owns, Reserves, At
  <2>3. SlotOwners(k)' = {h}
    BY <2>1, <2>2 DEF SlotOwners
  <2>4. Cardinality(SlotOwners(k)') = 1
    BY Zenon, <2>3, FS_Singleton
  <2>5. k < DiskSlots
    BY <1>5, SwapAssumption DEF Indices
  <2> QED BY <1>7, <1>9, <2>1, <2>2, <2>4, <2>5 DEF SlotPlaced
<1>12. HolderPlaced(h)'
  <2>1. /\ page'[h].slot = NoHandle /\ page'[h].state = "resident" /\ page'[h].data = page[h].data
        /\ area[k] = page[h].data
    BY Zenon, <1>1, <1>2, <1>3, <1>9 DEF HolderPlaced, Evicting
  <2>2. r.refcount > 0
    BY <1>7
  <2>3. ValidSlot(a)' /\ Bytes(a)' = page[h].data
    BY Zenon, <1>1, <1>3, <1>7, <1>9, <2>1, <2>2 DEF ValidSlot, Bytes, Backing
  <2> QED BY Zenon, <1>8, <1>9, <2>1, <2>3 DEF HolderPlaced, Evicting
<1> QED BY Zenon, <1>5, <1>9, <1>10, <1>11, <1>12, HolderStep

\* cancel_reserved: the reservation alone is undone.
LEMMA CancelKept ==
    ASSUME SwapInv, NEW h \in PageHolders, CancelReserved(h)
    PROVE  SwapInv'
<1>1. job[h].pc = "cancel" /\ UNCHANGED <<area, page, stored>> /\ SwapTyped /\ HolderPlaced(h)
  BY DEF CancelReserved, At, SwapInv
<1>2. PICK k \in Indices : k = job[h].at.index
  BY <1>1 DEF HolderPlaced, Evicting
<1>3. Reserves(h, k)
  BY <1>1, <1>2 DEF Reserves
<1>4. \A g \in PageHolders : ~Owns(g, k) /\ (Reserves(g, k) => g = h)
  BY <1>3, ReservedIsAlone
<1> DEFINE r == EmptySlot(slots[k].generation)
           j == [pc |-> "ram", at |-> NoHandle]
<1>5. slots' = [slots EXCEPT ![k] = r] /\ job' = [job EXCEPT ![h] = j]
  BY Zenon, <1>1, <1>2 DEF CancelReserved, Continue, HolderPlaced, Evicting, SwapTyped
<1>6. r \in SwapSlot /\ r.refcount = 0 /\ r.backing = "ram" /\ ~r.occupied
  BY <1>1 DEF SwapTyped, SwapSlot, EmptySlot, SlotData
<1>7. j \in SwapJob /\ j.pc = "ram"
  BY NowhereTyped DEF SwapJob
<1> HIDE DEF r, j
<1>8. /\ SwapTyped' /\ OnlyHolder(h) /\ job'[h] = j /\ page'[h] = page[h] /\ slots'[k] = r
      /\ \A i \in Indices \ {k} : slots'[i] = slots[i]
  BY <1>1, <1>5, <1>6, <1>7 DEF SwapTyped, OnlyHolder, Indices
<1>9. ASSUME NEW i \in Indices \ {k} PROVE SlotAside(h, i)
  BY Zenon, <1>1, <1>2, <1>7, <1>8 DEF SlotAside, Owns, Reserves, At
<1>10. SlotPlaced(k)'
  <2>1. \A g \in PageHolders \ {h} : ~Owns(g, k)' /\ ~Reserves(g, k)'
    BY Zenon, <1>4, <1>8, OthersClaims
  <2>2. ~Owns(h, k)' /\ ~Reserves(h, k)'
    BY <1>1, <1>7, <1>8 DEF Owns, Reserves, At, HolderPlaced, Evicting
  <2>3. SlotOwners(k)' = {}
    BY <2>1, <2>2 DEF SlotOwners
  <2>4. Cardinality(SlotOwners(k)') = 0
    BY <2>3, FS_EmptySet
  <2> QED BY <1>6, <1>8, <2>1, <2>2, <2>4 DEF SlotPlaced
<1>11. HolderPlaced(h)'
  BY Zenon, <1>1, <1>7, <1>8 DEF HolderPlaced, Evicting
<1> QED BY Zenon, <1>4, <1>8, <1>9, <1>10, <1>11, HolderStep

\* evict_file_page: the mapping takes the slot with the bytes its page had.
LEMMA UnmapKept ==
    ASSUME SwapInv, NEW h \in PageHolders, At(h, "unmap"), EndJob(h), UNCHANGED <<slots, area>>,
           page' = [page EXCEPT ![h] = [state |-> "swapped", data |-> Torn, slot |-> job[h].at]],
           stored' = [stored EXCEPT ![h] = page[h].data]
    PROVE  SwapInv'
<1>1. PICK a \in SlotHandles : a = job[h].at
  BY PlacedAt
<1> DEFINE p == [state |-> "swapped", data |-> Torn, slot |-> a]
<1>2. p \in SwapPage /\ p.state = "swapped" /\ p.slot = a
  BY DEF SwapPage, SlotData
<1> HIDE DEF p
<1>3. /\ SwapTyped /\ HolderPlaced(h) /\ page[h].data \in SlotData /\ page' = [page EXCEPT ![h] = p]
      /\ job' = [job EXCEPT ![h] = IdleJob] /\ IdleJob \in SwapJob
  BY <1>1, PlacedAt, NowhereTyped DEF SwapInv, EndJob, p
<1>4. SwapTyped' /\ OnlyHolder(h) /\ job'[h] = IdleJob /\ page'[h] = p /\ stored'[h] = page[h].data
  BY Zenon, <1>2, <1>3 DEF SwapTyped, OnlyHolder, Indices
<1>5. ValidSlot(a) /\ Bytes(a) = page[h].data /\ page[h].state = "resident"
  BY <1>1, <1>3 DEF HolderPlaced, At
<1>6. ValidSlot(a)' /\ Bytes(a)' = page[h].data
  BY Zenon, <1>5 DEF ValidSlot, Bytes, Backing
<1>7. job'[h].pc = "idle"
  BY <1>4 DEF IdleJob
<1>8. HolderPlaced(h)'
  <2>1. page'[h].state = "swapped" /\ page'[h].slot = a /\ stored'[h] = page[h].data
    BY Zenon, <1>2, <1>4
  <2> QED BY <1>6, <1>7, <2>1 DEF HolderPlaced, Evicting
<1>9. \A i \in Indices : (Owns(h, i)' <=> Owns(h, i)) /\ (Reserves(h, i)' <=> Reserves(h, i))
  BY Zenon, <1>1, <1>2, <1>4, <1>5, <1>7 DEF Owns, Reserves, At
<1> QED BY Zenon, <1>4, <1>8, <1>9, SlotlessStep

\* release_page by a holder that then has no slot.
LEMMA ReleaseKept ==
    ASSUME SwapInv, NEW h \in PageHolders, NEW a \in SlotHandles, ValidSlot(a), Owns(h, a.index),
           \A i \in Indices : (Owns(h, i) => i = a.index) /\ ~Reserves(h, i),
           slots' = Released(a), UNCHANGED <<area, stored>>,
           NEW j \in SwapJob, j.pc = "idle", job' = [job EXCEPT ![h] = j],
           NEW p \in SwapPage, page' = [page EXCEPT ![h] = p], p.state # "swapped", p.slot = NoHandle
    PROVE  SwapInv'
<1>1. SwapTyped
  BY DEF SwapInv
<1>2. PICK k \in Indices : k = a.index
  BY DEF ValidSlot
<1>3. slots[k] \in SwapSlot
  BY <1>1 DEF SwapTyped
<1> DEFINE r == IF slots[k].refcount = 1 THEN EmptySlot(slots[k].generation)
                ELSE [slots[k] EXCEPT !.refcount = @ - 1]
<1>4. slots' = [slots EXCEPT ![k] = r]
  BY <1>2 DEF Released
<1>5. slots[k].occupied /\ slots[k].refcount > 0 /\ \A g \in PageHolders : ~Reserves(g, k)
  BY <1>2, OwnedIsValid
<1>6. /\ r \in SwapSlot /\ r.refcount = slots[k].refcount - 1
      /\ slots[k].refcount # 1 => /\ r.occupied /\ r.backing = slots[k].backing
                                  /\ r.data = slots[k].data /\ r.generation = slots[k].generation
      /\ slots[k].refcount = 1 => ~r.occupied /\ r.backing = "ram"
  <2>1. CASE slots[k].refcount = 1
    BY <1>3, <2>1 DEF EmptySlot, SwapSlot, SlotData
  <2>2. CASE slots[k].refcount # 1
    <3> DEFINE n == slots[k].refcount - 1
    <3>1. n \in Nat
      BY <1>3, <1>5 DEF SwapSlot
    <3>2. r = [slots[k] EXCEPT !.refcount = n]
      BY <2>2
    <3> HIDE DEF n, r
    <3>3. r \in SwapSlot
      BY <1>3, <3>1, <3>2 DEF SwapSlot
    <3>4. /\ r.refcount = n /\ r.occupied /\ r.backing = slots[k].backing
          /\ r.data = slots[k].data /\ r.generation = slots[k].generation
      BY <1>3, <1>5, <3>2 DEF SwapSlot
    <3> QED BY <2>2, <3>3, <3>4 DEF n
  <2> QED BY <2>1, <2>2
<1> HIDE DEF r
<1>7. /\ SwapTyped' /\ OnlyHolder(h) /\ job'[h] = j /\ page'[h] = p /\ slots'[k] = r
      /\ \A i \in Indices \ {k} : slots'[i] = slots[i]
  BY <1>1, <1>4, <1>6 DEF SwapTyped, OnlyHolder, Indices
<1>8. \A i : ~Owns(h, i)' /\ ~Reserves(h, i)'
  BY Zenon, <1>7 DEF Owns, Reserves, At
<1>9. ASSUME NEW i \in Indices \ {k} PROVE SlotAside(h, i)
  BY Zenon, <1>2, <1>7, <1>8 DEF SlotAside
<1>10. IsFiniteSet(SlotOwners(k)) /\ slots[k].refcount = Cardinality(SlotOwners(k)) /\ h \in SlotOwners(k)
  BY Zenon, <1>2, SwapAssumption, FS_Subset DEF SlotOwners, SwapInv, SlotPlaced
<1>11. \A g \in PageHolders \ {h} : (Owns(g, k)' <=> Owns(g, k)) /\ ~Reserves(g, k)'
  BY Zenon, <1>5, <1>7, OthersClaims
<1>12. SlotOwners(k)' = SlotOwners(k) \ {h}
  BY Zenon, <1>8, <1>11 DEF SlotOwners
<1>13. Cardinality(SlotOwners(k)') = r.refcount
  <2>1. Cardinality(SlotOwners(k) \ {h}) = Cardinality(SlotOwners(k)) - 1
    BY Zenon, <1>10, FS_RemoveElement
  <2> QED BY Zenon, <1>6, <1>10, <1>12, <2>1
<1>14. slots[k].refcount = 1 => SlotOwners(k) \ {h} = {}
  BY <1>6, <1>10, <1>12, <1>13, FS_RemoveElement, FS_EmptySet
<1>15. slots[k].refcount # 1 => SlotOwners(k) \ {h} # {}
  <2>1. slots[k].refcount \in Nat
    BY <1>3 DEF SwapSlot
  <2>2. slots[k].refcount # 1 => r.refcount # 0
    BY SMTT(30), <1>5, <1>6, <2>1
  <2> QED BY Zenon, <1>12, <1>13, <2>2, FS_EmptySet
<1>16. SlotPlaced(k)'
  <2>1. CASE slots[k].refcount = 1
    <3>1. \A g \in PageHolders : ~Owns(g, k)' /\ ~Reserves(g, k)'
      BY Zenon, <1>8, <1>11, <1>14, <2>1 DEF SlotOwners
    <3> QED BY Zenon, <1>6, <1>7, <1>13, <2>1, <3>1 DEF SlotPlaced
  <2>2. CASE slots[k].refcount # 1
    <3>1. \E g \in PageHolders : Owns(g, k)'
      BY Zenon, <1>11, <1>15, <2>2 DEF SlotOwners
    <3>2. slots[k].backing = "disk" => k < DiskSlots
      BY DEF SwapInv, SlotPlaced
    <3>3. \A g \in PageHolders : ~Reserves(g, k)'
      BY Zenon, <1>8, <1>11
    <3>4. slots'[k].occupied
      BY <1>5, <1>6, <1>7, <2>2
    <3> QED BY Zenon, <1>6, <1>7, <1>13, <2>2, <3>1, <3>2, <3>3, <3>4 DEF SlotPlaced
  <2> QED BY <2>1, <2>2
<1>17. ASSUME NEW g \in PageHolders \ {h}, Owns(g, k) PROVE SlotStays(k) /\ slots'[k].refcount > 0
  <2>1. slots[k].refcount # 1
    BY <1>14, <1>17 DEF SlotOwners
  <2>2. slots[k].refcount \in Nat
    BY <1>3 DEF SwapSlot
  <2>3. slots[k].refcount > 0 /\ slots'[k].refcount = slots[k].refcount - 1
    BY Zenon, <1>5, <1>6, <1>7
  <2>4. slots'[k].refcount > 0
    BY SMTT(30), <2>1, <2>2, <2>3
  <2> QED BY Zenon, <1>5, <1>6, <1>7, <2>1, <2>4 DEF SlotStays
<1>18. HolderPlaced(h)'
  <2>1. job'[h].pc = "idle" /\ page'[h].state # "swapped" /\ page'[h].slot = NoHandle
    BY <1>7
  <2> QED BY Zenon, <2>1 DEF HolderPlaced, Evicting
<1> QED BY Zenon, <1>5, <1>7, <1>9, <1>16, <1>17, <1>18, HolderStep

\* The operations that release a slot, or drop a page that has none.
LEMMA GiveUpKept ==
    ASSUME SwapInv, NEW h \in PageHolders,
           \/ At(h, "unmap") /\ EndJob(h) /\ slots' = Released(job[h].at)
              /\ UNCHANGED <<page, stored, area>>
           \/ Map(h) /\ ~UNCHANGED <<page, slots>>
           \/ Drop(h)
    PROVE  SwapInv'
<1>1. /\ HolderPlaced(h) /\ page[h] \in SwapPage /\ job[h] \in SwapJob
      /\ job[h].at \in SlotHandles /\ page[h].slot \in SlotHandles /\ SwapTyped
  BY PlacedAt DEF SwapInv
<1>2. CASE At(h, "unmap") /\ EndJob(h) /\ slots' = Released(job[h].at) /\ UNCHANGED <<page, stored, area>>
  <2>1. PICK a \in SlotHandles : a = job[h].at
    BY Zenon, <1>1
  <2>2. ValidSlot(a) /\ page[h].state = "resident" /\ page[h].slot = NoHandle
    BY Zenon, <1>1, <1>2, <2>1 DEF HolderPlaced, At
  <2>3. \A i : (Owns(h, i) <=> i = a.index) /\ ~Reserves(h, i)
    BY Zenon, <1>2, <2>1, <2>2 DEF Owns, Reserves, At
  <2>4. page' = [page EXCEPT ![h] = page[h]] /\ job' = [job EXCEPT ![h] = IdleJob]
    BY <1>1, <1>2 DEF SwapTyped, EndJob
  <2>5. IdleJob \in SwapJob /\ IdleJob.pc = "idle"
    BY NowhereTyped DEF IdleJob
  <2> QED BY Zenon, <1>1, <1>2, <2>1, <2>2, <2>3, <2>4, <2>5, ReleaseKept
<1>3. ASSUME NEW p \in SwapPage, page' = [page EXCEPT ![h] = p], p.state # "swapped", p.slot = NoHandle,
             page[h].state = "swapped", job' = [job EXCEPT ![h] = IdleJob],
             slots' = Released(page[h].slot), UNCHANGED <<area, stored>>, job[h].pc \in {"idle", "map"}
      PROVE  SwapInv'
  <2>1. PICK a \in SlotHandles : a = page[h].slot
    BY <1>1
  <2>2. ValidSlot(a)
    BY Zenon, <1>1, <1>3, <2>1 DEF HolderPlaced
  <2>3. \A i : (Owns(h, i) <=> i = a.index) /\ ~Reserves(h, i)
    BY Zenon, <1>3, <2>1 DEF Owns, Reserves, At
  <2>4. IdleJob \in SwapJob /\ IdleJob.pc = "idle"
    BY NowhereTyped DEF IdleJob
  <2> QED BY Zenon, <1>3, <2>1, <2>2, <2>3, <2>4, ReleaseKept
<1>4. CASE Map(h) /\ ~UNCHANGED <<page, slots>>
  <2> DEFINE p == [state |-> "resident", data |-> job[h].data, slot |-> NoHandle]
  <2>1. job[h].pc = "map" /\ page[h].state = "swapped" /\ job[h].at = page[h].slot
    BY Zenon, <1>1, <1>4 DEF Map, At, HolderPlaced
  <2>2. p \in SwapPage /\ p.state # "swapped" /\ p.slot = NoHandle
    BY <1>1, <2>1, NowhereTyped DEF SwapJob, SwapPage
  <2>3. page' = [page EXCEPT ![h] = p] /\ slots' = Released(page[h].slot) /\ UNCHANGED <<area, stored>>
        /\ job' = [job EXCEPT ![h] = IdleJob]
    BY <1>4, <2>1 DEF Map, EndJob
  <2> HIDE DEF p
  <2> QED BY Zenon, <1>3, <2>1, <2>2, <2>3
<1>5. CASE Drop(h)
  <2>1. Unmapped \in SwapPage /\ Unmapped.state = "unmapped" /\ Unmapped.slot = NoHandle
    BY NowhereTyped DEF Unmapped, SwapPage, SlotData
  <2>2. /\ page' = [page EXCEPT ![h] = Unmapped] /\ slots' = Released(page[h].slot)
        /\ UNCHANGED <<area, stored, job>> /\ job[h].pc = "idle"
    BY Zenon, <1>5 DEF Drop, At
  <2>3. CASE page[h].state = "swapped"
    <3>1. ASSUME NEW a \in SlotHandles, a = page[h].slot PROVE SwapInv'
      <4>1. ValidSlot(a)
        BY Zenon, <1>1, <2>3, <3>1 DEF HolderPlaced
      <4>2. \A i : (Owns(h, i) <=> i = a.index) /\ ~Reserves(h, i)
        BY <2>2, <2>3, <3>1 DEF Owns, Reserves, At
      <4>3. job' = [job EXCEPT ![h] = job[h]]
        BY Zenon, <1>1, <2>2 DEF SwapTyped
      <4> QED BY Zenon, <1>1, <2>1, <2>2, <3>1, <4>1, <4>2, <4>3, ReleaseKept
    <3> QED BY <1>1, <3>1
  <2>4. CASE page[h].state # "swapped"
    <3>1. slots' = slots
      BY Zenon, <1>1, <2>2, <2>4, NowhereTyped DEF HolderPlaced, Released, ValidSlot
    <3>2. SwapTyped' /\ OnlyHolder(h) /\ page'[h] = Unmapped
      BY Zenon, <1>1, <2>1, <2>2, <3>1 DEF SwapTyped, OnlyHolder, Indices
    <3>3. HolderPlaced(h)'
      BY Zenon, <2>1, <2>2, <3>2 DEF HolderPlaced, Evicting
    <3>4. \A i \in Indices : (Owns(h, i)' <=> Owns(h, i)) /\ (Reserves(h, i)' <=> Reserves(h, i))
      BY Zenon, <2>1, <2>2, <2>4, <3>2 DEF Owns, Reserves, At
    <3> QED BY <2>2, <3>1, <3>2, <3>3, <3>4, SlotlessStep
  <2> QED BY <2>3, <2>4
<1> QED BY <1>2, <1>4, <1>5

\* share: the child's mapping is one more owner of the parent's slot.
LEMMA ForkKept ==
    ASSUME SwapInv, NEW h \in PageHolders, NEW child \in PageHolders \ {h}, Fork(h, child)
    PROVE  SwapInv'
<1>1. /\ job[h].pc = "idle" /\ job[child].pc = "idle" /\ page[h].state = "swapped"
      /\ page[child].state = "unmapped" /\ ValidSlot(page[h].slot) /\ UNCHANGED <<area, job>>
      /\ page' = [page EXCEPT ![child] = page[h]] /\ stored' = [stored EXCEPT ![child] = stored[h]]
      /\ slots' = Shared(page[h].slot)
  BY DEF Fork, At
<1>2. SwapTyped /\ HolderPlaced(h) /\ page[h] \in SwapPage /\ stored[h] \in SlotData
  BY PlacedAt DEF SwapInv
<1>3. PICK a \in SlotHandles : a = page[h].slot
  BY <1>2 DEF SwapPage
<1>4. PICK k \in Indices : k = a.index
  BY <1>1, <1>3 DEF ValidSlot
<1>5. slots[k] \in SwapSlot /\ slots[k].refcount \in Nat
  BY <1>2 DEF SwapTyped, SwapSlot
<1> DEFINE n == slots[k].refcount + 1
           r == [slots[k] EXCEPT !.refcount = n]
<1>6. slots' = [slots EXCEPT ![k] = r]
  BY <1>1, <1>2, <1>3, <1>4 DEF Shared, SwapTyped
<1>7. n \in Nat /\ n > 0
  BY <1>5
<1> HIDE DEF n
<1>8. /\ r \in SwapSlot /\ r.refcount = n /\ (r.occupied <=> slots[k].occupied)
      /\ r.backing = slots[k].backing /\ r.data = slots[k].data /\ r.generation = slots[k].generation
  BY <1>5, <1>7 DEF SwapSlot
<1> HIDE DEF r
<1>9. /\ SwapTyped' /\ OnlyHolder(child) /\ page'[child] = page[h] /\ stored'[child] = stored[h]
      /\ slots'[k] = r /\ \A i \in Indices \ {k} : slots'[i] = slots[i]
  BY <1>1, <1>2, <1>6, <1>8 DEF SwapTyped, OnlyHolder, Indices
<1>10. SlotStays(k) /\ slots'[k].refcount > 0
  BY Zenon, <1>1, <1>7, <1>8, <1>9 DEF SlotStays
<1>11. Owns(h, k) /\ Owns(child, k)' /\ \A i : ~Owns(child, i) /\ (Owns(child, i)' <=> i = k)
                    /\ ~Reserves(child, i) /\ ~Reserves(child, i)'
  BY <1>1, <1>3, <1>4, <1>9 DEF Owns, Reserves, At
<1>12. ASSUME NEW i \in Indices \ {k} PROVE SlotAside(child, i)
  BY <1>1, <1>9, <1>11 DEF SlotAside
<1>13. slots[k].occupied /\ \A g \in PageHolders : ~Reserves(g, k)
  BY Zenon, <1>11, OwnedIsValid
<1>14. \A g \in PageHolders \ {child} : (Owns(g, k)' <=> Owns(g, k)) /\ ~Reserves(g, k)'
  BY <1>9, <1>13, OthersClaims
<1>15. SlotPlaced(k)'
  <2>1. IsFiniteSet(SlotOwners(k)) /\ slots[k].refcount = Cardinality(SlotOwners(k)) /\ child \notin SlotOwners(k)
    BY Zenon, <1>11, SwapAssumption, FS_Subset DEF SlotOwners, SwapInv, SlotPlaced
  <2>2. SlotOwners(k)' = SlotOwners(k) \cup {child}
    BY <1>11, <1>14 DEF SlotOwners
  <2>3. Cardinality(SlotOwners(k)') = r.refcount
    <3>1. Cardinality(SlotOwners(k) \cup {child}) = Cardinality(SlotOwners(k)) + 1
      BY Zenon, <2>1, FS_AddElement
    <3> QED BY <1>8, <2>1, <2>2, <3>1 DEF n
  <2>4. slots[k].backing = "disk" => k < DiskSlots
    BY DEF SwapInv, SlotPlaced
  <2>5. \A g \in PageHolders : ~Reserves(g, k)'
    BY <1>11, <1>14
  <2>6. slots'[k].occupied
    BY Zenon, <1>8, <1>9, <1>13
  <2> QED BY Zenon, <1>8, <1>9, <1>11, <2>3, <2>4, <2>5, <2>6 DEF SlotPlaced
<1>16. HolderPlaced(child)'
  <2>1. ValidSlot(a) /\ stored[h] = Bytes(a)
    BY <1>1, <1>2, <1>3 DEF HolderPlaced
  <2>2. slots[k].backing \in {"ram", "disk"}
    BY <1>5 DEF SwapSlot
  <2>3. ValidSlot(a)' /\ Bytes(a)' = stored[h]
    BY Zenon, <1>4, <1>10, <2>1, <2>2 DEF ValidSlot, Bytes, Backing, SlotStays
  <2> QED BY <1>1, <1>3, <1>9, <2>3 DEF HolderPlaced, Evicting
<1> QED BY Zenon, <1>9, <1>10, <1>12, <1>13, <1>15, <1>16, HolderStep

\* Every step of a holder keeps the invariant.
LEMMA SwapStep ==
    ASSUME SwapInv, [SwapNext]_swapVars
    PROVE  SwapInv'
<1>1. ASSUME UNCHANGED <<slots, area, page, job, stored>> PROVE SwapInv'
  <2>1. SwapTyped'
    BY <1>1 DEF SwapInv, SwapTyped, Indices
  <2>2. \A h \in PageHolders : HolderPlaced(h)'
    BY ZenonT(30), <1>1 DEF SwapInv, HolderPlaced, IsReserved, ValidSlot, Backing, Bytes, Evicting
  <2>3. ASSUME NEW i \in Indices PROVE SlotPlaced(i)'
    <3>1. \A h \in PageHolders : (Owns(h, i)' <=> Owns(h, i)) /\ (Reserves(h, i)' <=> Reserves(h, i))
      BY <1>1 DEF Owns, Reserves, At
    <3>2. SlotOwners(i)' = SlotOwners(i)
      BY <3>1 DEF SlotOwners
    <3> QED BY Zenon, <1>1, <3>1, <3>2 DEF SwapInv, SlotPlaced
  <2> QED BY <2>1, <2>2, <2>3 DEF SwapInv, Indices
<1>2. ASSUME NEW h \in PageHolders, StartEvict(h) PROVE SwapInv'
  BY <1>2, TakeKept, PopulateKept
<1>3. ASSUME NEW h \in PageHolders, AllocateRam(h) PROVE SwapInv'
  BY <1>3, TakeKept, PopulateKept
<1>4. ASSUME NEW h \in PageHolders, Unmap(h) PROVE SwapInv'
  BY <1>4, UnmapKept, GiveUpKept DEF Unmap
<1>5. ASSUME NEW h \in PageHolders, Map(h) PROVE SwapInv'
  BY <1>5, PopulateKept, GiveUpKept
<1>6. CASE UNCHANGED swapVars \/ Configure
  BY <1>1, <1>6 DEF swapVars, Configure
<1> QED BY Zenon, <1>2, <1>3, <1>4, <1>5, <1>6, TouchKept, WriteKept, PublishKept, CancelKept, PopulateKept,
        GiveUpKept, ForkKept DEF SwapNext

\* swap.rs and the mappings of userspace.rs: a slot is counted once for every mapping whose
\* page is in it, belongs to one eviction while it is reserved, and gives back the bytes it
\* was given, whatever evictions, disk errors, forks and faults come between.
THEOREM SwapAlwaysExact == SwapSpec => []SwapExact
<1>1. SwapInit => SwapInv
  <2> SUFFICES ASSUME SwapInit PROVE SwapInv
    OBVIOUS
  <2>1. /\ EmptySlot(0) \in SwapSlot /\ EmptySlot(0).refcount = 0 /\ ~EmptySlot(0).occupied
        /\ EmptySlot(0).backing = "ram"
    BY DEF EmptySlot, SwapSlot, SlotData
  <2>2. Unmapped \in SwapPage /\ Unmapped.state = "unmapped" /\ Unmapped.slot = NoHandle
    BY NowhereTyped DEF Unmapped, SwapPage, SlotData
  <2>3. IdleJob \in SwapJob /\ IdleJob.pc = "idle"
    BY NowhereTyped DEF IdleJob
  <2>4. SwapTyped
    BY <2>1, <2>2, <2>3 DEF SwapInit, SwapTyped, SlotData
  <2>5. \A h \in PageHolders : page[h] = Unmapped /\ job[h] = IdleJob
    BY Zenon DEF SwapInit
  <2>6. \A h \in PageHolders : HolderPlaced(h)
    BY Zenon, <2>2, <2>3, <2>5 DEF HolderPlaced, Evicting
  <2>7. ASSUME NEW i \in Indices PROVE SlotPlaced(i)
    <3>1. \A h \in PageHolders : ~Owns(h, i) /\ ~Reserves(h, i)
      BY <2>2, <2>3, <2>5 DEF Owns, Reserves, At
    <3>2. SlotOwners(i) = {} /\ slots[i] = EmptySlot(0)
      BY <3>1 DEF SlotOwners, SwapInit
    <3> QED BY <2>1, <3>1, <3>2, FS_EmptySet DEF SlotPlaced
  <2> QED BY <2>4, <2>6, <2>7 DEF SwapInv
<1>2. SwapInv /\ [SwapNext]_swapVars => SwapInv'
  BY SwapStep
<1>3. SwapInv => SwapExact
  <2> SUFFICES ASSUME SwapInv PROVE SwapExact
    OBVIOUS
  <2>1. ASSUME NEW i \in Indices
        PROVE  /\ slots[i].refcount = Cardinality({h \in PageHolders : Owns(h, i)})
               /\ Cardinality({h \in PageHolders : Reserves(h, i)}) <= 1
               /\ slots[i].occupied <=> {h \in PageHolders : Owns(h, i)}
                                          \cup {h \in PageHolders : Reserves(h, i)} # {}
    <3> DEFINE R == {h \in PageHolders : Reserves(h, i)}
    <3>1. SlotPlaced(i)
      BY DEF SwapInv
    <3>2. R = {} \/ \E h : R = {h}
      BY <3>1 DEF SlotPlaced
    <3> HIDE DEF R
    <3>3. Cardinality(R) \in {0, 1}
      BY Zenon, <3>2, FS_EmptySet, FS_Singleton
    <3> QED BY <3>1, <3>3 DEF SlotPlaced, SlotOwners, R
  <2>2. SwapRefsExact
    BY Zenon, <2>1 DEF SwapRefsExact
  <2>3. SwapKeepsPages
    BY DEF SwapInv, HolderPlaced, SwapKeepsPages, Bytes
  <2> QED BY <2>2, <2>3 DEF SwapExact
<1> QED BY <1>1, <1>2, <1>3, PTL DEF SwapSpec

-----------------------------------------------------------------------------
(***************************************************************************)
(* The frame allocator, for any table of disjoint ranges and any size of   *)
(* the stack.  NoFrameLost is inductive with the bounds of next and hint   *)
(* and with the fact that a set allocation bit is that of a frame handed   *)
(* out.                                                                    *)
(***************************************************************************)
RangeFrames(r) == Ranges[r].start .. Ranges[r].end - 1
HandedOut == UNION {Ranges[r].start .. next[r] - 1 : r \in RangeIds}

AllocatorTyped ==
    /\ next \in [RangeIds -> Nat] /\ hint \in [RangeIds -> Nat]
    /\ \A r \in RangeIds : /\ Ranges[r].start <= next[r] /\ next[r] <= Ranges[r].end
                           /\ Ranges[r].start <= hint[r]
    /\ bitmap \subseteq HandedOut
    /\ reclaimed \in Seq(AllFrames)
    /\ untracked \in Nat /\ allocated \in Nat

AllocatorInv == AllocatorTyped /\ NoFrameLost

\* The ranges of the boot map are numbered from 1 and not empty.
LEMMA RangeTyped ==
    /\ RangeIds = 1 .. Len(Ranges) /\ Len(Ranges) \in Nat /\ RangeIds # {}
    /\ \A r \in RangeIds :
          Ranges[r].start \in Nat /\ Ranges[r].end \in Nat /\ Ranges[r].start < Ranges[r].end
<1> DEFINE R == [start : Nat, end : Nat, domain : Nat]
<1>1. Ranges \in Seq(R) /\ Ranges # <<>>
  BY AllocatorAssumption
<1>2. \A x \in R : x.start \in Nat /\ x.end \in Nat
  OBVIOUS
<1> HIDE DEF R
<1>3. /\ RangeIds = 1 .. Len(Ranges) /\ Len(Ranges) \in Nat /\ RangeIds # {}
      /\ \A r \in RangeIds : Ranges[r] \in R
  <2>1. Len(Ranges) \in Nat /\ DOMAIN Ranges = 1 .. Len(Ranges) /\ \A r \in 1 .. Len(Ranges) : Ranges[r] \in R
    BY <1>1
  <2>2. Len(Ranges) # 0
    BY <1>1
  <2>3. 1 \in 1 .. Len(Ranges)
    BY <2>1, <2>2
  <2> QED BY <2>1, <2>3 DEF RangeIds
<1>4. \A r \in RangeIds : Ranges[r].start < Ranges[r].end
  BY AllocatorAssumption DEF RangeIds
<1> QED BY <1>2, <1>3, <1>4

\* A non-empty set of numbers has a least element.
LEMMA SmallestIn ==
    ASSUME NEW S \in SUBSET Nat, S # {}
    PROVE  Min(S) \in S /\ \A y \in S : Min(S) <= y
<1>1. \E x \in S : \A y \in S : ~(<<y, x>> \in OpToRel(<, Nat))
  BY NatLessThanWellFounded, WFMin
<1>2. \A x, y \in Nat : y < x => <<y, x>> \in OpToRel(<, Nat)
  BY Zenon DEF OpToRel
<1>3. PICK x \in S : \A y \in S : ~(y < x)
  BY <1>1, <1>2, Zenon
<1>4. \A y \in S : x <= y
  BY <1>3
<1> QED BY <1>4, Zenon DEF Min

\* A non-empty bounded set of numbers has a largest element.
LEMMA LargestIn ==
    ASSUME NEW S \in SUBSET Nat, S # {}, NEW n \in Nat, \A x \in S : x <= n
    PROVE  Max(S) \in S /\ \A y \in S : Max(S) >= y
<1> DEFINE D == {n - x : x \in S}
<1>1. D \in SUBSET Nat /\ D # {}
  <2>1. \A x \in S : n - x \in Nat
    OBVIOUS
  <2>2. PICK x \in S : TRUE
    BY Zenon
  <2> QED BY <2>1, <2>2
<1>2. Min(D) \in D /\ \A y \in D : Min(D) <= y
  BY Zenon, <1>1, SmallestIn
<1>3. PICK x \in S : Min(D) = n - x
  BY Zenon, <1>2
<1>4. \A y \in S : n - x <= n - y
  BY Zenon, <1>2, <1>3
<1>5. \A y \in S : x >= y
  BY <1>4
<1> QED BY <1>5, Zenon DEF Max

\* A finite table of ranges ends somewhere.
LEMMA RangesBounded == \E b \in Nat : \A r \in RangeIds : Ranges[r].end <= b
<1> DEFINE Bounded(k) == \E b \in Nat : \A r \in 1..k : Ranges[r].end <= b
           n == Len(Ranges)
           T == {k \in 0..n : ~Bounded(k)}
<1>1. n \in Nat /\ RangeIds = 1..n /\ \A r \in 1..n : Ranges[r].end \in Nat
  BY RangeTyped
<1> HIDE DEF n
<1>2. ASSUME T # {} PROVE FALSE
  <2>1. T \in SUBSET Nat
    BY <1>1
  <2>2. PICK k \in T : \A y \in T : k <= y
    BY Zenon, <1>2, <2>1, SmallestIn
  <2>3. k # 0
    <3>1. \A r \in 1..0 : Ranges[r].end <= 0
      OBVIOUS
    <3>2. Bounded(0)
      BY <3>1
    <3> QED BY <3>2
  <2>4. k \in 1..n /\ k - 1 \in 0..n /\ ~(k <= k - 1)
    BY <1>1, <2>3
  <2>5. Bounded(k - 1)
    BY Zenon, <2>2, <2>4
  <2>6. PICK b \in Nat : \A r \in 1..k - 1 : Ranges[r].end <= b
    BY <2>5
  <2> DEFINE c == IF Ranges[k].end <= b THEN b ELSE Ranges[k].end
  <2>7. c \in Nat /\ Ranges[k].end <= c /\ b <= c
    <3>1. Ranges[k].end \in Nat
      BY <1>1, <2>4
    <3> QED BY <3>1
  <2> HIDE DEF c
  <2>8. ASSUME NEW r \in 1..k PROVE Ranges[r].end <= c
    <3>1. CASE r = k
      BY <2>7, <3>1
    <3>2. CASE r # k
      <4>1. r \in 1..k - 1 /\ r \in 1..n
        BY <1>1, <2>4, <3>2
      <4>2. Ranges[r].end <= b /\ Ranges[r].end \in Nat
        BY Zenon, <1>1, <2>6, <4>1
      <4> QED BY <2>7, <4>2
    <3> QED BY <3>1, <3>2
  <2>9. Bounded(k)
    BY <2>7, <2>8
  <2> QED BY <2>9
<1>3. Bounded(n)
  <2>1. n \in 0..n
    BY <1>1
  <2> QED BY <1>2, <2>1
<1> QED BY Zenon, <1>1, <1>3

\* There are finitely many frames, below Infinity.
LEMMA FramesFinite ==
    /\ AllFrames \subseteq Nat /\ IsFiniteSet(AllFrames)
    /\ Infinity \in Nat /\ \A r \in RangeIds : Ranges[r].start <= Infinity
<1>1. PICK b \in Nat : \A r \in RangeIds : Ranges[r].end <= b
  BY RangesBounded
<1>2. \A r \in RangeIds : Ranges[r].start \in Nat /\ Ranges[r].end \in Nat /\ Ranges[r].start < Ranges[r].end
  BY RangeTyped
<1>3. AllFrames \subseteq Nat /\ \A f \in AllFrames : f <= b
  BY <1>1, <1>2 DEF AllFrames
<1>4. IsFiniteSet(AllFrames)
  BY <1>3, FS_BoundedSetOfNaturals
<1>5. \A r \in RangeIds : Ranges[r].start \in AllFrames
  BY <1>2 DEF AllFrames
<1>6. AllFrames # {}
  BY <1>5, RangeTyped
<1>7. Max(AllFrames) \in AllFrames /\ \A y \in AllFrames : Max(AllFrames) >= y
  BY <1>3, <1>6, LargestIn
<1> HIDE DEF AllFrames
<1>8. Infinity \in Nat /\ \A f \in AllFrames : f <= Infinity
  <2> DEFINE m == Max(AllFrames)
  <2>1. m \in Nat /\ \A f \in AllFrames : f \in Nat /\ f <= m
    BY Zenon, <1>3, <1>7
  <2> HIDE DEF m
  <2>2. m + 2 \in Nat /\ \A f \in AllFrames : f <= m + 2
    BY <2>1
  <2> QED BY <2>2 DEF Infinity, m
<1> QED BY <1>3, <1>4, <1>5, <1>8

\* A frame lies in one range.
LEMMA RangeOfFrame ==
    ASSUME NEW r \in RangeIds, NEW f \in RangeFrames(r)
    PROVE  RangeOf(f) = r
<1>1. \A s \in RangeIds : s # r => f \notin RangeFrames(s)
  BY Zenon, AllocatorAssumption DEF RangeIds, RangeFrames
<1> QED BY <1>1 DEF RangeOf, RangeFrames

\* The returned frames are those handed out and not in use.
LEMMA ReturnedIs == ReturnedFrames = HandedOut \ bitmap /\ ReturnedFrames' = HandedOut' \ bitmap'
  BY DEF ReturnedFrames, HandedOut, RangeIds

\* A frame handed out lies in its range, below next.
LEMMA HandedIn ==
    ASSUME AllocatorTyped, NEW f \in HandedOut
    PROVE  /\ f \in AllFrames /\ f \in Nat /\ RangeOf(f) \in RangeIds /\ Ranges[RangeOf(f)].start <= f
           /\ f < next[RangeOf(f)] /\ f < Ranges[RangeOf(f)].end
<1>1. PICK r \in RangeIds : f \in Ranges[r].start .. next[r] - 1
  BY DEF HandedOut
<1>2. next[r] \in Nat /\ next[r] <= Ranges[r].end /\ Ranges[r].start \in Nat /\ Ranges[r].end \in Nat
  BY RangeTyped DEF AllocatorTyped
<1>3. f \in Nat /\ f \in RangeFrames(r) /\ Ranges[r].start <= f /\ f < next[r] /\ f < Ranges[r].end
  BY <1>1, <1>2 DEF RangeFrames
<1>4. RangeOf(f) = r
  BY <1>3, RangeOfFrame
<1> QED BY <1>3, <1>4 DEF AllFrames, RangeFrames

\* A frame below the cursor of its range has been handed out.
LEMMA BelowNext ==
    ASSUME NEW r \in RangeIds, NEW f, f \in Ranges[r].start .. next[r] - 1
    PROVE  f \in HandedOut
  BY DEF HandedOut

\* What the invariant says of the frames that wait for reuse.
Waiting == (HandedOut \ bitmap) \ Range(reclaimed)

\* What the invariant says of the frames that wait in the bitmap.
LEMMA FramesFound ==
    ASSUME AllocatorInv
    PROVE  /\ AllocatorTyped /\ IsInjective(reclaimed) /\ Range(reclaimed) \subseteq HandedOut \ bitmap
           /\ untracked = Cardinality(Waiting) /\ IsFiniteSet(Waiting)
           /\ \A f \in Waiting : hint[RangeOf(f)] <= f
           /\ allocated = Cardinality(bitmap) /\ IsFiniteSet(bitmap)
<1>1. AllocatorTyped /\ bitmap \subseteq HandedOut
  BY Zenon DEF AllocatorInv, AllocatorTyped
<1>2. HandedOut \subseteq AllFrames
  BY <1>1, HandedIn
<1>3. IsFiniteSet(bitmap) /\ IsFiniteSet(Waiting)
  BY Zenon, <1>1, <1>2, FramesFinite, FS_Subset DEF Waiting
<1> QED BY <1>1, <1>3, ReturnedIs DEF AllocatorInv, NoFrameLost, Waiting

\* The converse, for the state after a step.
LEMMA FramesFoundAgain ==
    ASSUME AllocatorTyped', IsInjective(reclaimed'), Range(reclaimed') \subseteq HandedOut' \ bitmap',
           untracked' = Cardinality(Waiting'), \A f \in Waiting' : hint'[RangeOf(f)] <= f,
           allocated' = Cardinality(bitmap')
    PROVE  AllocatorInv'
<1>1. ReturnedFrames' \ Range(reclaimed') = Waiting'
  BY ReturnedIs DEF Waiting
<1>2. Range(reclaimed') \subseteq ReturnedFrames'
  BY ReturnedIs
<1>3. IsInjective(reclaimed)' /\ Range(reclaimed)' = Range(reclaimed') /\ \A f : RangeOf(f)' = RangeOf(f)
  BY DEF IsInjective, Range, RangeOf, RangeIds
<1> QED BY <1>1, <1>2, <1>3 DEF AllocatorInv, NoFrameLost

\* swap_remove.
LEMMA SwapRemoved ==
    ASSUME NEW S, NEW s \in Seq(S), IsInjective(s), NEW index \in 1 .. Len(s)
    PROVE  /\ SwapRemove(s, index) \in Seq(S) /\ IsInjective(SwapRemove(s, index))
           /\ Range(SwapRemove(s, index)) = Range(s) \ {s[index]}
<1> DEFINE n == Len(s)
           q == SwapRemove(s, index)
           from(i) == IF i = index THEN n ELSE i
<1>1. n \in Nat /\ DOMAIN s = 1..n /\ index \in 1..n /\ \A i \in 1..n : s[i] \in S
  OBVIOUS
<1> HIDE DEF n
<1>2. /\ \A i \in 1 .. n - 1 : from(i) \in 1..n /\ from(i) # index
      /\ \A i, j \in 1 .. n - 1 : from(i) = from(j) => i = j
  <2>1. \A i \in 1 .. n - 1 : i \in 1..n /\ i # n /\ n \in 1..n
    BY <1>1
  <2> QED BY <2>1
<1>3. ASSUME NEW j \in 1..n, j # index PROVE \E i \in 1 .. n - 1 : from(i) = j
  <2>1. CASE j = n
    <3>1. index \in 1 .. n - 1 /\ from(index) = j
      BY <1>1, <1>3, <2>1
    <3> QED BY <3>1
  <2>2. CASE j # n
    <3>1. j \in 1 .. n - 1 /\ from(j) = j
      BY <1>1, <1>3, <2>2
    <3> QED BY <3>1
  <2> QED BY <2>1, <2>2
<1>4. q = [i \in 1 .. n - 1 |-> s[from(i)]]
  BY DEF n, SwapRemove
<1> HIDE DEF from, q
<1>5. DOMAIN q = 1 .. n - 1 /\ \A i \in 1 .. n - 1 : q[i] = s[from(i)]
  BY <1>4
<1>6. q \in Seq(S)
  <2>1. \A i \in 1 .. n - 1 : s[from(i)] \in S
    BY <1>1, <1>2
  <2>2. n - 1 \in Nat
    BY <1>1
  <2> QED BY <1>4, <2>1, <2>2
<1>7. IsInjective(q)
  <2> SUFFICES ASSUME NEW i \in 1 .. n - 1, NEW j \in 1 .. n - 1, q[i] = q[j] PROVE i = j
    BY <1>5 DEF IsInjective
  <2>1. from(i) \in DOMAIN s /\ from(j) \in DOMAIN s /\ s[from(i)] = s[from(j)]
    BY <1>1, <1>2, <1>5
  <2>2. from(i) = from(j)
    BY <2>1 DEF IsInjective
  <2> QED BY <1>2, <2>2
<1>8. Range(q) = Range(s) \ {s[index]}
  <2>1. ASSUME NEW x \in Range(q) PROVE x \in Range(s) /\ x # s[index]
    <3>1. PICK i \in 1 .. n - 1 : x = s[from(i)]
      BY <1>5 DEF Range
    <3> QED BY <1>1, <1>2, <3>1 DEF Range, IsInjective
  <2>2. ASSUME NEW x \in Range(s), x # s[index] PROVE x \in Range(q)
    <3>1. PICK j \in 1..n : x = s[j]
      BY <1>1 DEF Range
    <3>2. PICK i \in 1 .. n - 1 : from(i) = j
      BY <1>3, <2>2, <3>1
    <3> QED BY <1>5, <3>1, <3>2 DEF Range
  <2> QED BY <2>1, <2>2
<1> QED BY <1>6, <1>7, <1>8 DEF q

\* Steps that leave next alone hand out no new frame.
LEMMA SameHandedOut ==
    ASSUME next' = next
    PROVE  HandedOut' = HandedOut
  BY DEF HandedOut, RangeIds

\* A step that only sets bits and counts them takes frames from the pool.
LEMMA PoolTakes ==
    ASSUME bitmap' # bitmap, bitmap \subseteq bitmap', bitmap' \subseteq AllFrames,
           allocated' = allocated + Cardinality(bitmap' \ bitmap)
    PROVE  Pool!Take
  BY DEF Pool!Take, Cardinality, Pool!Cardinality

\* allocate_frame from the stack of returned frames.
LEMMA StackKept ==
    ASSUME AllocatorInv, NEW preferred, FromStack(preferred)
    PROVE  AllocatorInv' /\ Pool!Take
<1> DEFINE last == Len(reclaimed)
           near == {i \in 1..last : DomainOf(reclaimed[i]) \in preferred}
           index == IF near = {} THEN last ELSE Max(near)
           x == reclaimed[index]
<1>1. /\ AllocatorTyped /\ IsInjective(reclaimed) /\ Range(reclaimed) \subseteq HandedOut \ bitmap
      /\ untracked = Cardinality(Waiting) /\ \A f \in Waiting : hint[RangeOf(f)] <= f
      /\ allocated = Cardinality(bitmap) /\ IsFiniteSet(bitmap)
  BY FramesFound
<1>2. /\ bitmap' = bitmap \cup {x} /\ allocated' = allocated + 1
      /\ reclaimed' = SwapRemove(reclaimed, index)
      /\ UNCHANGED <<next, hint, untracked>> /\ reclaimed # <<>>
  BY Zenon DEF FromStack
<1>3. reclaimed \in Seq(AllFrames) /\ last \in Nat /\ last # 0
  BY <1>1, <1>2 DEF AllocatorTyped
<1>4. index \in 1..last
  <2>1. CASE near = {}
    BY <1>3, <2>1
  <2>2. CASE near # {}
    <3>1. near \in SUBSET Nat /\ \A i \in near : i <= last
      BY <1>3
    <3>2. Max(near) \in near
      BY Zenon, <1>3, <2>2, <3>1, LargestIn
    <3> QED BY <2>2, <3>2
  <2> QED BY <2>1, <2>2
<1> HIDE DEF index
<1>5. reclaimed' \in Seq(AllFrames) /\ IsInjective(reclaimed') /\ Range(reclaimed') = Range(reclaimed) \ {x}
  BY <1>1, <1>2, <1>3, <1>4, SwapRemoved
<1>6. x \in Range(reclaimed)
  BY <1>3, <1>4 DEF Range
<1> HIDE DEF x
<1>7. HandedOut' = HandedOut /\ x \in HandedOut /\ x \notin bitmap /\ x \in AllFrames
  BY <1>1, <1>2, <1>6, SameHandedOut, HandedIn
<1>8. Waiting' = Waiting
  BY Zenon, <1>2, <1>5, <1>6, <1>7 DEF Waiting, Range
<1>9. allocated' = Cardinality(bitmap') /\ allocated' \in Nat
  BY SMTT(30), <1>1, <1>2, <1>7, FS_AddElement, FS_CardinalityType
<1>10. AllocatorTyped'
  BY Zenon, <1>1, <1>2, <1>5, <1>7, <1>9 DEF AllocatorTyped, RangeIds, AllFrames
<1>11. AllocatorInv'
  BY Zenon, <1>1, <1>2, <1>5, <1>7, <1>8, <1>9, <1>10, FramesFoundAgain
<1>12. Pool!Take
  <2>1. bitmap' \ bitmap = {x} /\ Cardinality({x}) = 1
    BY Zenon, <1>2, <1>7, FS_Singleton
  <2>2. bitmap' \subseteq AllFrames
    BY <1>1, <1>2, <1>7, HandedIn DEF AllocatorTyped
  <2>3. bitmap' # bitmap /\ bitmap \subseteq bitmap' /\ allocated' = allocated + Cardinality(bitmap' \ bitmap)
    BY Zenon, <1>2, <1>7, <2>1
  <2> QED BY <2>2, <2>3, PoolTakes
<1> QED BY <1>11, <1>12

\* The scan for a clear bit: it finds the first waiting frame of a range from the hint on.
LEMMA BitmapKept ==
    ASSUME AllocatorInv, NEW preferred, FromBitmap(preferred)
    PROVE  AllocatorInv' /\ Pool!Take
<1>1. /\ AllocatorTyped /\ Range(reclaimed) \subseteq HandedOut \ bitmap
      /\ untracked = Cardinality(Waiting) /\ IsFiniteSet(Waiting) /\ \A f \in Waiting : hint[RangeOf(f)] <= f
      /\ allocated = Cardinality(bitmap) /\ IsFiniteSet(bitmap) /\ IsInjective(reclaimed)
  BY FramesFound
<1>2. PICK r \in RangeIds :
        /\ Scan(r) # {}
        /\ bitmap' = bitmap \cup {Min(Scan(r))}
        /\ hint' = [s \in RangeIds |-> IF s = r THEN Min(Scan(r)) + 1
                                       ELSE IF s \in Skipped(preferred) THEN Infinity
                                       ELSE hint[s]]
        /\ untracked' = untracked - 1 /\ allocated' = allocated + 1
        /\ UNCHANGED <<next, reclaimed>> /\ reclaimed = <<>> /\ untracked # 0
  BY Zenon DEF FromBitmap, FirstRange
<1>3. /\ hint[r] \in Nat /\ next[r] \in Nat /\ Ranges[r].start \in Nat /\ Ranges[r].end \in Nat
      /\ Ranges[r].start <= hint[r] /\ next[r] <= Ranges[r].end
  BY <1>1, RangeTyped DEF AllocatorTyped
<1>4. Scan(r) \in SUBSET Nat
  BY <1>3 DEF Scan
<1>5. PICK x \in Scan(r) : x = Min(Scan(r)) /\ \A f \in Scan(r) : x <= f
  BY Zenon, <1>2, <1>4, SmallestIn
<1>6. /\ x \in Nat /\ hint[r] <= x /\ x < next[r] /\ x \notin bitmap
      /\ x \in Ranges[r].start .. next[r] - 1 /\ x \in RangeFrames(r)
  BY SMTT(30), <1>3, <1>4, <1>5 DEF Scan, RangeFrames
<1>7. x \in HandedOut /\ x \in AllFrames /\ RangeOf(x) = r
  BY <1>1, <1>6, BelowNext, HandedIn, RangeOfFrame
<1>8. HandedOut' = HandedOut
  BY <1>2, SameHandedOut
<1>9. Range(reclaimed) = {}
  BY <1>2 DEF Range
<1>10. Waiting = HandedOut \ bitmap /\ Waiting' = Waiting \ {x} /\ x \in Waiting
  BY Zenon, <1>2, <1>5, <1>6, <1>7, <1>8, <1>9 DEF Waiting, Range
<1>11. untracked' = Cardinality(Waiting') /\ untracked' \in Nat
  <2>1. IsFiniteSet(Waiting \ {x}) /\ Cardinality(Waiting \ {x}) = Cardinality(Waiting) - 1
    BY Zenon, <1>1, <1>10, FS_RemoveElement
  <2> QED BY Zenon, <1>1, <1>2, <1>10, <2>1, FS_CardinalityType
<1>12. allocated' = Cardinality(bitmap') /\ allocated' \in Nat
  <2>1. IsFiniteSet(bitmap \cup {x}) /\ Cardinality(bitmap \cup {x}) = Cardinality(bitmap) + 1
    BY Zenon, <1>1, <1>6, FS_AddElement
  <2> QED BY Zenon, <1>1, <1>2, <1>5, <2>1, FS_CardinalityType
<1>13. ASSUME NEW s \in RangeIds PROVE hint'[s] \in Nat /\ Ranges[s].start <= hint'[s]
  <2>1. x + 1 \in Nat /\ Ranges[r].start <= x + 1
    BY <1>3, <1>6
  <2>2. hint[s] \in Nat /\ Ranges[s].start <= hint[s]
    BY Zenon, <1>1 DEF AllocatorTyped
  <2> QED BY Zenon, <1>2, <1>5, <2>1, <2>2, FramesFinite
<1>14. AllocatorTyped'
  <2>1. hint' \in [RangeIds -> Nat]
    BY Zenon, <1>2, <1>13
  <2>2. bitmap' \subseteq HandedOut'
    BY <1>1, <1>2, <1>5, <1>7, <1>8 DEF AllocatorTyped
  <2> QED BY Zenon, <1>1, <1>2, <1>11, <1>12, <1>13, <2>1, <2>2 DEF AllocatorTyped, RangeIds, AllFrames
<1>15. ASSUME NEW f \in Waiting' PROVE hint'[RangeOf(f)] <= f
  <2> DEFINE s == RangeOf(f)
  <2>1. f \in Waiting /\ f # x /\ f \in HandedOut /\ f \notin bitmap /\ hint[s] <= f
    BY ZenonT(30), <1>1, <1>10
  <2>2. s \in RangeIds /\ f \in Nat /\ f < next[s]
    BY Zenon, <1>1, <2>1, HandedIn
  <2> HIDE DEF s
  <2>3. next[s] \in Nat /\ hint[s] \in Nat
    BY <1>1, <2>2 DEF AllocatorTyped
  <2>4. f \in Scan(s)
    BY <2>1, <2>2, <2>3 DEF Scan
  <2>5. s \notin Skipped(preferred)
    BY <2>4 DEF Skipped
  <2>6. s = r => x + 1 <= f
    BY SMTT(30), <1>5, <1>6, <2>1, <2>2, <2>4
  <2>7. hint'[s] <= f
    BY <1>2, <1>5, <2>1, <2>2, <2>5, <2>6
  <2> QED BY <2>7 DEF s
<1>16. AllocatorInv'
  <2>1. IsInjective(reclaimed') /\ Range(reclaimed') \subseteq HandedOut' \ bitmap'
    BY <1>1, <1>2, <1>9 DEF Range, IsInjective
  <2> QED BY Zenon, <1>11, <1>12, <1>14, <1>15, <2>1, FramesFoundAgain
<1>17. Pool!Take
  <2>1. bitmap' \ bitmap = {x} /\ Cardinality({x}) = 1
    BY Zenon, <1>2, <1>5, <1>6, FS_Singleton
  <2>2. bitmap' \subseteq AllFrames
    BY Zenon, <1>1, <1>2, <1>5, <1>7, HandedIn DEF AllocatorTyped
  <2>3. bitmap' # bitmap /\ bitmap \subseteq bitmap' /\ allocated' = allocated + Cardinality(bitmap' \ bitmap)
    BY Zenon, <1>2, <1>6, <2>1
  <2> QED BY <2>2, <2>3, PoolTakes
<1> QED BY <1>16, <1>17

\* allocate_contiguous_frames and the frames never handed out: next moves past them.
LEMMA CarveKept ==
    ASSUME AllocatorInv, NEW preferred, NEW count \in Nat \ {0}, Carve(preferred, count),
           \/ hint' = hint
           \/ hint' = [r \in RangeIds |-> Infinity] /\ \A r \in RangeIds : Scan(r) = {}
    PROVE  AllocatorInv' /\ Pool!Take
<1>1. /\ AllocatorTyped /\ Range(reclaimed) \subseteq HandedOut \ bitmap
      /\ untracked = Cardinality(Waiting) /\ \A f \in Waiting : hint[RangeOf(f)] <= f
      /\ allocated = Cardinality(bitmap) /\ IsFiniteSet(bitmap) /\ IsInjective(reclaimed)
  BY FramesFound
<1>2. PICK r \in RangeIds :
        /\ Ranges[r].end - next[r] >= count
        /\ next' = [next EXCEPT ![r] = @ + count]
        /\ bitmap' = bitmap \cup (next[r] .. next[r] + count - 1)
        /\ allocated' = allocated + count
        /\ UNCHANGED <<reclaimed, untracked>>
  BY Zenon DEF Carve, FirstRange
<1>3. PICK a \in Nat : a = next[r]
  BY <1>1 DEF AllocatorTyped
<1> DEFINE Fresh == a .. a + count - 1
<1>4. /\ Ranges[r].start \in Nat /\ Ranges[r].end \in Nat /\ Ranges[r].start <= a
      /\ a + count \in Nat /\ a + count <= Ranges[r].end
  <2>1. /\ Ranges[r].start \in Nat /\ Ranges[r].end \in Nat /\ Ranges[r].start <= a
        /\ Ranges[r].end - a >= count
    BY Zenon, <1>1, <1>2, <1>3, RangeTyped DEF AllocatorTyped
  <2> QED BY <1>3, <2>1
<1>5. \A f \in Fresh : f \in RangeFrames(r) /\ f >= a /\ f \in Nat
  BY <1>4 DEF RangeFrames
<1>6. ASSUME NEW f \in Fresh PROVE f \notin HandedOut /\ f \in AllFrames
  <2>1. RangeOf(f) = r
    BY <1>5, RangeOfFrame
  <2>2. f \in HandedOut => f < a
    BY <1>1, <1>3, <2>1, HandedIn
  <2>3. f \in AllFrames
    BY Zenon, <1>5 DEF AllFrames, RangeFrames
  <2> QED BY <1>5, <2>2, <2>3
<1>7. next'[r] = a + count /\ \A s \in RangeIds \ {r} : next'[s] = next[s]
  BY <1>1, <1>2, <1>3 DEF AllocatorTyped
<1>8. \A f : f \in Ranges[r].start .. a + count - 1 <=> f \in Ranges[r].start .. a - 1 \/ f \in Fresh
  BY <1>4
<1> HIDE DEF Fresh
<1>9. HandedOut' = HandedOut \cup Fresh
  <2>1. HandedOut' = UNION {Ranges[s].start .. next'[s] - 1 : s \in RangeIds}
    BY DEF HandedOut, RangeIds
  <2>2. \A s \in RangeIds : \A f : f \in Ranges[s].start .. next'[s] - 1 <=>
           f \in Ranges[s].start .. next[s] - 1 \/ (s = r /\ f \in Fresh)
    BY <1>3, <1>7, <1>8
  <2> QED BY <2>1, <2>2 DEF HandedOut
<1>10. bitmap' = bitmap \cup Fresh /\ bitmap \cap Fresh = {} /\ bitmap \subseteq HandedOut
  BY <1>1, <1>2, <1>3, <1>6 DEF AllocatorTyped, Fresh
<1>11. HandedOut' \ bitmap' = HandedOut \ bitmap
  BY Zenon, <1>6, <1>9, <1>10
<1>12. Waiting' = Waiting
  BY <1>2, <1>11 DEF Waiting, Range
<1>13. IsFiniteSet(Fresh) /\ Cardinality(Fresh) = count
  <2>1. a \in Int /\ a + count - 1 \in Int /\ ~(a > a + count - 1) /\ a + count - 1 - a + 1 = count
    BY <1>4
  <2> QED BY <2>1, FS_Interval DEF Fresh
<1>14. allocated' = Cardinality(bitmap') /\ allocated' \in Nat
  <2>1. IsFiniteSet(bitmap \cup Fresh)
        /\ Cardinality(bitmap \cup Fresh) = Cardinality(bitmap) + Cardinality(Fresh) - Cardinality(bitmap \cap Fresh)
    BY <1>1, <1>13, FS_Union
  <2>2. Cardinality(bitmap \cap Fresh) = 0 /\ Cardinality(bitmap) \in Nat
    BY Zenon, <1>1, <1>10, FS_EmptySet, FS_CardinalityType
  <2>3. Cardinality(bitmap') = Cardinality(bitmap) + count
    BY <1>10, <1>13, <2>1, <2>2
  <2>4. allocated' = Cardinality(bitmap) + count
    BY Zenon, <1>1, <1>2
  <2> QED BY SMTT(30), <2>2, <2>3, <2>4
<1>15. /\ hint' \in [RangeIds -> Nat] /\ \A s \in RangeIds : Ranges[s].start <= hint'[s]
       /\ \A f \in Waiting : hint'[RangeOf(f)] <= f
  <2>1. CASE hint' = hint
    BY <1>1, <2>1 DEF AllocatorTyped
  <2>2. CASE hint' = [s \in RangeIds |-> Infinity] /\ \A s \in RangeIds : Scan(s) = {}
    <3>1. ASSUME NEW f \in Waiting PROVE FALSE
      <4> DEFINE s == RangeOf(f)
      <4>1. f \in HandedOut /\ f \notin bitmap /\ hint[s] <= f
        BY Zenon, <1>1 DEF Waiting
      <4>2. s \in RangeIds /\ f \in Nat /\ f < next[s]
        BY Zenon, <1>1, <4>1, HandedIn
      <4> HIDE DEF s
      <4>3. next[s] \in Nat /\ hint[s] \in Nat
        BY <1>1, <4>2 DEF AllocatorTyped
      <4>4. f \in Scan(s)
        BY SMTT(30), <4>1, <4>2, <4>3 DEF Scan
      <4> QED BY <2>2, <4>2, <4>4
    <3> QED BY <2>2, <3>1, FramesFinite
  <2> QED BY Zenon, <2>1, <2>2
<1>16. AllocatorTyped'
  <2>1. next' \in [RangeIds -> Nat]
    BY Zenon, <1>1, <1>2, <1>3, <1>4 DEF AllocatorTyped
  <2>2. \A s \in RangeIds : Ranges[s].start <= next'[s] /\ next'[s] <= Ranges[s].end
    <3>1. Ranges[r].start <= a + count
      BY <1>4
    <3> QED BY Zenon, <1>1, <1>4, <1>7, <3>1 DEF AllocatorTyped
  <2>3. bitmap' \subseteq HandedOut'
    BY Zenon, <1>9, <1>10
  <2> QED BY Zenon, <1>1, <1>2, <1>14, <1>15, <2>1, <2>2, <2>3 DEF AllocatorTyped, RangeIds, AllFrames
<1>17. AllocatorInv'
  <2>1. IsInjective(reclaimed') /\ Range(reclaimed') \subseteq HandedOut' \ bitmap'
    BY Zenon, <1>1, <1>2, <1>11 DEF Range, IsInjective
  <2> QED BY Zenon, <1>1, <1>2, <1>12, <1>14, <1>15, <1>16, <2>1, FramesFoundAgain
<1>18. Pool!Take
  <2>1. bitmap' \ bitmap = Fresh
    BY <1>10
  <2>2. bitmap' \subseteq AllFrames
    BY <1>1, <1>6, <1>10, HandedIn
  <2>3. Fresh # {}
    BY <1>13, FS_EmptySet
  <2> QED BY <1>2, <1>10, <1>13, <2>1, <2>2, <2>3, PoolTakes
<1> QED BY <1>17, <1>18

\* deallocate_frame: the frame goes to the stack, or is left to the scan.
LEMMA ReturnKept ==
    ASSUME AllocatorInv, NEW frame \in AllFrames, DeallocateFrame(frame)
    PROVE  AllocatorInv' /\ Pool!Give
<1>1. /\ AllocatorTyped /\ Range(reclaimed) \subseteq HandedOut \ bitmap
      /\ untracked = Cardinality(Waiting) /\ IsFiniteSet(Waiting) /\ \A f \in Waiting : hint[RangeOf(f)] <= f
      /\ allocated = Cardinality(bitmap) /\ IsFiniteSet(bitmap) /\ IsInjective(reclaimed)
  BY Zenon, FramesFound
<1>2. /\ frame \in bitmap /\ bitmap' = bitmap \ {frame} /\ allocated' = allocated - 1
      /\ next' = next /\ frame \in HandedOut /\ frame \notin Range(reclaimed) /\ bitmap \subseteq HandedOut
  BY <1>1 DEF DeallocateFrame, Returnable, AllocatorTyped
<1>3. HandedOut' = HandedOut
  BY <1>2, SameHandedOut
<1>4. allocated' = Cardinality(bitmap') /\ allocated' \in Nat
  <2>1. IsFiniteSet(bitmap \ {frame}) /\ Cardinality(bitmap \ {frame}) = Cardinality(bitmap) - 1
    BY <1>1, <1>2, FS_RemoveElement
  <2> QED BY Zenon, <1>1, <1>2, <2>1, FS_CardinalityType
<1>5. Pool!Give
  BY <1>2 DEF Pool!Give
<1>6. CASE reclaimed' = Append(reclaimed, frame) /\ UNCHANGED <<hint, untracked>>
  <2>1. reclaimed \in Seq(AllFrames)
    BY <1>1 DEF AllocatorTyped
  <2> DEFINE n == Len(reclaimed)
  <2>2. /\ reclaimed' \in Seq(AllFrames) /\ DOMAIN reclaimed' = DOMAIN reclaimed \cup {n + 1}
        /\ n + 1 \notin DOMAIN reclaimed /\ reclaimed'[n + 1] = frame
        /\ \A i \in DOMAIN reclaimed : reclaimed'[i] = reclaimed[i]
    BY <1>6, <2>1
  <2> HIDE DEF n
  <2>3. Range(reclaimed') = Range(reclaimed) \cup {frame}
    BY <2>2 DEF Range
  <2>4. IsInjective(reclaimed')
    BY <1>1, <1>2, <2>2 DEF IsInjective, Range
  <2>5. Waiting' = Waiting
    BY Zenon, <1>2, <1>3, <2>3 DEF Waiting, Range
  <2>6. AllocatorTyped'
    BY Zenon, <1>1, <1>2, <1>3, <1>4, <1>6, <2>2 DEF AllocatorTyped, RangeIds, AllFrames
  <2>7. AllocatorInv'
    BY Zenon, <1>1, <1>2, <1>3, <1>4, <1>6, <2>3, <2>4, <2>5, <2>6, FramesFoundAgain
  <2> QED BY <1>5, <2>7
<1>7. CASE /\ untracked' = untracked + 1 /\ UNCHANGED reclaimed
           /\ hint' = [hint EXCEPT ![RangeOf(frame)] = Min({@, frame})]
  <2>1. PICK r \in RangeIds : /\ r = RangeOf(frame) /\ frame \in Nat /\ frame < next[r] /\ Ranges[r].start <= frame
    BY Zenon, <1>1, <1>2, HandedIn
  <2>2. hint[r] \in Nat /\ Ranges[r].start <= hint[r]
    BY <1>1 DEF AllocatorTyped
  <2> DEFINE m == Min({hint[r], frame})
  <2>3. m \in Nat /\ m <= hint[r] /\ m <= frame /\ Ranges[r].start <= m
    <3>1. {hint[r], frame} \in SUBSET Nat /\ {hint[r], frame} # {}
      BY <2>1, <2>2
    <3>2. m \in {hint[r], frame} /\ \A y \in {hint[r], frame} : m <= y
      BY Zenon, <3>1, SmallestIn
    <3> QED BY <2>1, <2>2, <3>2
  <2>4. hint' = [hint EXCEPT ![r] = m]
    BY Zenon, <1>1, <1>7, <2>1 DEF AllocatorTyped
  <2> HIDE DEF m
  <2>5. /\ hint' \in [RangeIds -> Nat] /\ hint'[r] = m /\ \A s \in RangeIds \ {r} : hint'[s] = hint[s]
    BY Zenon, <1>1, <2>3, <2>4 DEF AllocatorTyped
  <2>6. Waiting' = Waiting \cup {frame} /\ frame \notin Waiting
    BY <1>2, <1>3, <1>7 DEF Waiting, Range
  <2>7. untracked' = Cardinality(Waiting') /\ untracked' \in Nat
    <3>1. IsFiniteSet(Waiting \cup {frame}) /\ Cardinality(Waiting \cup {frame}) = Cardinality(Waiting) + 1
      BY <1>1, <2>6, FS_AddElement
    <3> QED BY Zenon, <1>1, <1>7, <2>6, <3>1, FS_CardinalityType
  <2>8. ASSUME NEW f \in Waiting' PROVE hint'[RangeOf(f)] <= f
    <3>1. CASE f = frame
      BY <2>1, <2>3, <2>5, <3>1
    <3>2. CASE f \in Waiting
      <4>1. hint[RangeOf(f)] <= f /\ RangeOf(f) \in RangeIds /\ f \in Nat
        BY Zenon, <1>1, <3>2, HandedIn DEF Waiting
      <4> QED BY SMTT(30), <2>2, <2>3, <2>5, <4>1
    <3> QED BY <2>6, <3>1, <3>2
  <2>9. AllocatorTyped'
    <3>1. bitmap' \subseteq HandedOut' /\ next' = next /\ reclaimed' = reclaimed
      BY Zenon, <1>2, <1>3, <1>7
    <3>2. \A s \in RangeIds : Ranges[s].start <= hint'[s]
      BY <1>1, <2>3, <2>5 DEF AllocatorTyped
    <3> QED BY Zenon, <1>1, <1>4, <2>5, <2>7, <3>1, <3>2 DEF AllocatorTyped, RangeIds, AllFrames
  <2>10. AllocatorInv'
    <3>1. IsInjective(reclaimed') /\ Range(reclaimed') \subseteq HandedOut' \ bitmap'
      BY <1>1, <1>2, <1>3, <1>7 DEF Range, IsInjective
    <3> QED BY Zenon, <1>4, <2>7, <2>8, <2>9, <3>1, FramesFoundAgain
  <2> QED BY ZenonT(30), <1>5, <2>10
<1> QED BY <1>6, <1>7 DEF DeallocateFrame

\* Every call keeps the invariant and is a step of the pool, or none.
LEMMA AllocatorStep ==
    ASSUME AllocatorInv, [AllocatorNext]_allocatorVars
    PROVE  AllocatorInv' /\ [Pool!Next]_(Pool!vars)
<1>1. CASE UNCHANGED allocatorVars
  <2>1. HandedOut' = HandedOut /\ Waiting' = Waiting
    BY <1>1, SameHandedOut DEF allocatorVars, Waiting, Range
  <2>2. AllocatorTyped'
    BY <1>1, <2>1 DEF AllocatorInv, AllocatorTyped, allocatorVars, RangeIds, AllFrames
  <2>3. AllocatorInv'
    BY <1>1, <2>1, <2>2, FramesFound, FramesFoundAgain DEF allocatorVars
  <2> QED BY <1>1, <2>3 DEF allocatorVars, Pool!vars
<1>2. ASSUME NEW preferred \in Preferences, AllocateFrame(preferred)
      PROVE  AllocatorInv' /\ Pool!Next
  <2>1. ASSUME FromRange(preferred) PROVE AllocatorInv' /\ Pool!Take
    BY <2>1, CarveKept DEF FromRange
  <2> QED BY <1>2, <2>1, StackKept, BitmapKept DEF AllocateFrame, Pool!Next
<1>3. ASSUME NEW preferred \in Preferences, NEW count \in Counts, AllocateContiguous(preferred, count)
      PROVE  AllocatorInv' /\ Pool!Next
  BY <1>3, CarveKept, AllocatorAssumption DEF AllocateContiguous, Pool!Next
<1>4. ASSUME NEW frame \in AllFrames, DeallocateFrame(frame) PROVE AllocatorInv' /\ Pool!Next
  BY <1>4, ReturnKept DEF Pool!Next
<1> QED BY <1>1, <1>2, <1>3, <1>4 DEF AllocatorNext

\* After init no frame is in use.
LEMMA AllocatorStart == AllocatorInit => AllocatorInv /\ Pool!Init
<1> SUFFICES ASSUME AllocatorInit PROVE AllocatorInv /\ Pool!Init
  OBVIOUS
<1>1. \A r \in RangeIds : next[r] = Ranges[r].start /\ hint[r] = Infinity
  BY DEF AllocatorInit
<1>2. HandedOut = {}
  BY <1>1, RangeTyped DEF HandedOut
<1>3. AllocatorTyped
  <2>1. next \in [RangeIds -> Nat] /\ hint \in [RangeIds -> Nat]
    BY RangeTyped, FramesFinite DEF AllocatorInit
  <2>2. \A r \in RangeIds : Ranges[r].start <= next[r] /\ next[r] <= Ranges[r].end /\ Ranges[r].start <= hint[r]
    BY <1>1, RangeTyped, FramesFinite
  <2> QED BY <2>1, <2>2 DEF AllocatorInit, AllocatorTyped
<1>4. ReturnedFrames = {} /\ Range(reclaimed) = {} /\ IsInjective(reclaimed)
  BY <1>2, ReturnedIs DEF AllocatorInit, Range, IsInjective
<1>5. NoFrameLost
  BY <1>4, FS_EmptySet DEF NoFrameLost, AllocatorInit
<1> QED BY <1>3, <1>5 DEF AllocatorInv, AllocatorInit, Pool!Init

\* PhysicalFrameAllocator: a returned frame is on the stack or above the hint of its range and
\* counted, whatever mixture of single, preferred and contiguous allocations and returns.
THEOREM FramesNeverLost == AllocatorSpec => []NoFrameLost
<1>1. AllocatorInv /\ [AllocatorNext]_allocatorVars => AllocatorInv'
  BY AllocatorStep
<1>2. AllocatorInv => NoFrameLost
  BY DEF AllocatorInv
<1> QED BY <1>1, <1>2, AllocatorStart, PTL DEF AllocatorSpec

\* allocate_frame and deallocate_frame: no frame is handed out while it is in use, only frames in
\* use come back, and allocated_frames is their number.
THEOREM AllocatorIsAPool == AllocatorSpec => ImplementsPool
<1>1. AllocatorInv /\ [AllocatorNext]_allocatorVars => AllocatorInv' /\ [Pool!Next]_(Pool!vars)
  BY AllocatorStep
<1> QED BY <1>1, AllocatorStart, PTL DEF AllocatorSpec, ImplementsPool, Pool!Spec
=============================================================================

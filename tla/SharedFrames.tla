---------------------------- MODULE SharedFrames ----------------------------
(***************************************************************************)
(* Frames shared between address spaces (kernel/src/paging.rs,             *)
(* file_frames.rs, userspace.rs): copy-on-write after a fork, the cache of *)
(* file pages, shared-memory objects, and the one bounded table that       *)
(* counts the references of all three.                                     *)
(*                                                                         *)
(* paging.rs works under PAGING, COW_TABLE and ALLOCATOR together, so each *)
(* of its functions is one step; the allocator is FramePool.  Loading a    *)
(* file page drops the cache lock twice, for the read and for an eviction, *)
(* and is three steps; only the pager task loads, so there is one loader.  *)
(* A shared page is written back by msync, munmap and an eviction, which   *)
(* copy it, write the copy to the file, unmap the page and reclaim its     *)
(* frame under locks of their own, and are as many steps; a task stores to *)
(* the page or writes the file between any two of them.  The mapped file   *)
(* is one page long.                                                       *)
(***************************************************************************)
EXTENDS Naturals, FiniteSets, FiniteSetsExt, Functions

CONSTANTS
    Frames,
    Spaces,
    Callers,         \* tasks in msync, in munmap or evicting a file page
    AnonPages,       \* pages of every process: segments, stack, anonymous memory
    FilePage,        \* where each process maps the file privately
    SharedPage,      \* where each process maps the file shared and writable
    ObjectPage,      \* where each process maps a shared-memory object
    MAX_COW_FRAMES,
    CAPACITY,        \* slots of the file-frame cache
    MaxValue         \* bound: contents that are told apart

VARIABLES
    used,       \* frames that the allocator has handed out
    refs,       \* CowTable: the count of each frame, 0 where there is no entry
    table,      \* the page table of each address space
    data,       \* the contents of each frame
    cache,      \* the slots of the file-frame cache
    object,     \* the frame a shared-memory object owns, 0 if none
    file,       \* the inode: contents and version
    loader,     \* the load the pager is in
    view,       \* ghost: what each process last read or wrote on a private page
    truth,      \* ghost: the last value written to the file by anyone, and whether
                \* the code let an older one take its place
    sync        \* the write-back or unmapping that each caller is in

frameVars == <<used, refs, table, data, cache, object, file, loader, view, truth, sync>>

Pages == AnonPages \cup {FilePage, SharedPage, ObjectPage}
Private == AnonPages \cup {FilePage}
Contents == 0 .. MaxValue
Slots == 1 .. CAPACITY

NoFrame == 0
Unmapped == [frame |-> NoFrame, writable |-> FALSE]
NoEntry == [key |-> "none", version |-> 0, frame |-> NoFrame, age |-> 0]
NotSyncing == [pc |-> "idle", space |-> 0, bytes |-> 0, unmap |-> FALSE]
NoLoad == [pc |-> "idle", space |-> 0, key |-> "none", version |-> 0, slot |-> 0, bytes |-> 0]

FramesInit ==
    /\ used = {} /\ refs = [f \in Frames |-> 0]
    /\ table = [s \in Spaces |-> [p \in Pages |-> Unmapped]]
    /\ data = [f \in Frames |-> 0]
    /\ cache = [i \in Slots |-> NoEntry]
    /\ object = NoFrame
    /\ file = [bytes |-> 0, version |-> 0]
    /\ loader = NoLoad
    /\ view = [s \in Spaces |-> [p \in Private |-> 0]]
    /\ truth = [last |-> 0, raced |-> FALSE]
    /\ sync = [c \in Callers |-> NotSyncing]

Races(happens) == truth' = [truth EXCEPT !.raced = @ \/ happens]

Free == Frames \ used
Mapped(s, p) == table[s][p].frame # NoFrame

----------------------------------------------------------------------------
(***************************************************************************)
(* CowTable.  A frame without an entry has one owner.                      *)
(***************************************************************************)
RefCount(r, f) == IF r[f] = 0 THEN 1 ELSE r[f]
CanShare(r, f) == r[f] # 0 \/ Cardinality({g \in Frames : r[g] # 0}) < MAX_COW_FRAMES

FirstShareMutant(r, f) == [r EXCEPT ![f] = @ + 1]
Share(r, f) == [r EXCEPT ![f] = IF @ = 0 THEN 2 ELSE @ + 1]

(* release: whether the frame is to be freed, and the table afterwards.    *)
LastOwner(r, f) == r[f] <= 1
Drop(r, f) == [r EXCEPT ![f] = IF @ = 0 THEN 0 ELSE @ - 1]

(* release_frame.                                                          *)
ReleaseFrame(f) ==
    /\ refs' = Drop(refs, f)
    /\ used' = IF LastOwner(refs, f) THEN used \ {f} ELSE used

Map(s, p, f, w) == table' = [table EXCEPT ![s][p] = [frame |-> f, writable |-> w]]

----------------------------------------------------------------------------
(***************************************************************************)
(* map_user_range_in: all the pages of a range or none.                    *)
(***************************************************************************)
MapRange(s, range) ==
    /\ \A p \in range : ~Mapped(s, p)
    /\ \E new \in kSubset(Cardinality(range), Free) :
         \E f \in Bijection(range, new) :
           /\ used' = used \cup new
           /\ table' = [table EXCEPT ![s] = [p \in Pages |->
                          IF p \in range THEN [frame |-> f[p], writable |-> TRUE] ELSE @[p]]]
           /\ data' = [g \in Frames |-> IF g \in new THEN 0 ELSE data[g]]
           /\ view' = [view EXCEPT ![s] = [p \in Private |-> IF p \in range THEN 0 ELSE @[p]]]
    /\ UNCHANGED <<refs, cache, object, file, loader, truth, sync>>

(* share_user_range_in for one page of a fork: the count is taken before   *)
(* the entry is published, and a writable page becomes read-only in both.  *)
KeepParentWritableMutant(tab, r, parent, child, p) ==
    IF ~CanShare(r, tab[parent][p].frame) THEN [ok |-> FALSE, table |-> tab, refs |-> r]
    ELSE [ok |-> TRUE, refs |-> Share(r, tab[parent][p].frame),
          table |-> [tab EXCEPT ![child][p] = [frame |-> tab[parent][p].frame, writable |-> FALSE]]]

SharePage(tab, r, parent, child, p) ==
    IF ~CanShare(r, tab[parent][p].frame) THEN [ok |-> FALSE, table |-> tab, refs |-> r]
    ELSE [ok |-> TRUE, refs |-> Share(r, tab[parent][p].frame),
          table |-> [tab EXCEPT ![child][p] = [frame |-> tab[parent][p].frame, writable |-> FALSE],
                                ![parent][p].writable = FALSE]]

(* map_file_frame for a page of a shared mapping or a shared object.       *)
ShareWritable(tab, r, parent, child, p) ==
    IF ~CanShare(r, tab[parent][p].frame) THEN [ok |-> FALSE, table |-> tab, refs |-> r]
    ELSE [ok |-> TRUE, refs |-> Share(r, tab[parent][p].frame),
          table |-> [tab EXCEPT ![child][p] = [frame |-> tab[parent][p].frame, writable |-> TRUE]]]

(* clone_address_space: the pages in order, until one fails.  Mappings of  *)
(* shared-memory objects are not inherited.                                *)
CloneStep(acc, parent, child, p) ==
    IF ~acc.ok THEN acc
    ELSE IF p = SharedPage THEN ShareWritable(acc.table, acc.refs, parent, child, p)
    ELSE SharePage(acc.table, acc.refs, parent, child, p)

Inherited(parent) == {p \in Pages \ {ObjectPage} : Mapped(parent, p)}

Cloned(parent, child) ==
    FoldSet(LAMBDA p, acc : CloneStep(acc, parent, child, p),
            [ok |-> TRUE, table |-> table, refs |-> refs], Inherited(parent))

(* rollback_shared and release_clone: the child's pages so far are         *)
(* unmapped and released; the parent's stay read-only.                     *)
ReleasedAll(tab, r, child) ==
    FoldSet(LAMBDA p, acc : Drop(acc, tab[child][p].frame), r,
            {p \in Pages : tab[child][p].frame # NoFrame})

Fork(parent, child) ==
    /\ parent # child
    /\ Inherited(parent) # {}
    /\ \A p \in Pages : ~Mapped(child, p)
    /\ LET clone == Cloned(parent, child) IN
         IF clone.ok
         THEN /\ table' = clone.table /\ refs' = clone.refs
              /\ view' = [view EXCEPT ![child] = view[parent]]
         ELSE /\ table' = [clone.table EXCEPT ![child] = [p \in Pages |-> Unmapped]]
              /\ refs' = ReleasedAll(clone.table, clone.refs, child)
              /\ UNCHANGED view
    /\ UNCHANGED <<used, data, cache, object, file, loader, truth, sync>>

(* The shared page of a process has been written back and is about to be   *)
(* unmapped.                                                               *)
Unmapping(s) == \E c \in Callers : sync[c].pc = "unmap" /\ sync[c].space = s

(* A store to a present, writable page.                                    *)
Store(s, p, v) ==
    /\ Mapped(s, p) /\ table[s][p].writable
    /\ data' = [data EXCEPT ![table[s][p].frame] = v]
    /\ view' = IF p \in Private THEN [view EXCEPT ![s][p] = v] ELSE view
    /\ truth' = IF p = SharedPage
                THEN [last |-> v, raced |-> truth.raced \/ Unmapping(s)]
                ELSE truth
    /\ UNCHANGED <<used, refs, table, cache, object, file, loader, sync>>

(* try_break_cow: a store to a read-only page of a writable mapping.       *)
SoleOwnerMutant(f) == RefCount(refs, f) <= 2
SoleOwner(f) == RefCount(refs, f) <= 1

BreakCow(s, p) ==
    /\ p \in Private /\ Mapped(s, p) /\ ~table[s][p].writable
    /\ LET old == table[s][p].frame IN
         \/ /\ SoleOwner(old)
            /\ Map(s, p, old, TRUE)
            /\ refs' = [refs EXCEPT ![old] = 0]
            /\ UNCHANGED <<used, data>>
         \/ /\ ~SoleOwner(old)
            /\ \E new \in Free :
                 /\ data' = [data EXCEPT ![new] = data[old]]
                 /\ Map(s, p, new, TRUE)
                 /\ refs' = Drop(refs, old)
                 /\ used' = (IF LastOwner(refs, old) THEN used \ {old} ELSE used) \cup {new}
    /\ UNCHANGED <<cache, object, file, loader, view, truth, sync>>

----------------------------------------------------------------------------
(***************************************************************************)
(* file_frames.rs.  A shared mapping has one entry whatever the version; a *)
(* private one is looked up under the version of the inode, and under a    *)
(* fresh snapshot number, which matches nothing, while a shared entry for  *)
(* the file exists.                                                        *)
(***************************************************************************)
SharedSlots == {i \in Slots : cache[i].key = "shared"}
Unpinned == {i \in Slots : cache[i].frame # NoFrame /\ RefCount(refs, cache[i].frame) = 1}

(* What a read of the file returns: the inode overlaid with the shared     *)
(* frames.                                                                 *)
NoOverlayMutant == file.bytes
FileBytes == IF SharedSlots = {} THEN file.bytes
             ELSE data[cache[CHOOSE i \in SharedSlots : TRUE].frame]

KeyFor(p) == IF p = SharedPage THEN [key |-> "shared", version |-> 0]
             ELSE IF SharedSlots # {} THEN [key |-> "snapshot", version |-> 0]
             ELSE [key |-> "private", version |-> file.version]

Same(entry, load) ==
    /\ entry.key = load.key /\ entry.version = load.version
    /\ entry.key \in {"shared", "private"}
Hit(load) == {i \in Slots : Same(cache[i], load)}

PageOf(load) == IF load.key = "shared" THEN SharedPage ELSE FilePage

(* map_file_frame: nothing happens when the page is present or the table   *)
(* of counts is full.                                                      *)
MapFileFrame(s, p, f, counts) ==
    IF Mapped(s, p) \/ ~CanShare(counts, f) THEN refs' = counts /\ UNCHANGED <<table, view>>
    ELSE /\ Map(s, p, f, p = SharedPage)
         /\ refs' = Share(counts, f)
         /\ view' = IF p \in Private THEN [view EXCEPT ![s][p] = data'[f]] ELSE view

(* The ages are counted up to the number of slots: enough for max_by_key   *)
(* to find the oldest.                                                     *)
Aged == [i \in Slots |-> IF cache[i] = NoEntry THEN NoEntry
                         ELSE [cache[i] EXCEPT !.age = Min({@ + 1, CAPACITY})]]

Lookup(s, p) ==
    /\ loader.pc = "idle" /\ p \in {FilePage, SharedPage} /\ ~Mapped(s, p)
    /\ LET key == KeyFor(p)
           hit == {i \in Slots : Same(cache[i], key)}
       IN \/ /\ hit # {}
             /\ LET i == Min(hit) IN
                  /\ cache' = [Aged EXCEPT ![i].age = 0]
                  /\ data' = data
                  /\ MapFileFrame(s, p, cache[i].frame, refs)
             /\ UNCHANGED loader
          \/ /\ hit = {}
             /\ cache' = Aged
             /\ loader' = [NoLoad EXCEPT !.pc = "read", !.space = s, !.key = key.key,
                                         !.version = key.version]
             /\ UNCHANGED <<refs, table, view, data>>
    /\ UNCHANGED <<used, object, file, truth, sync>>

(* vfs::read_mapping_at, without the cache lock.                           *)
Read ==
    /\ loader.pc = "read"
    /\ loader' = [loader EXCEPT !.pc = "publish", !.bytes = FileBytes]
    /\ UNCHANGED <<used, refs, table, data, cache, object, file, view, truth, sync>>

ReadFails ==
    /\ loader.pc = "read"
    /\ loader' = NoLoad
    /\ UNCHANGED <<used, refs, table, data, cache, object, file, view, truth, sync>>

Chosen ==
    LET empty == {i \in Slots : cache[i] = NoEntry}
        oldest == {i \in Unpinned : \A j \in Unpinned : cache[i].age >= cache[j].age}
    IN IF empty # {} THEN {Min(empty)} ELSE IF oldest # {} THEN {Max(oldest)} ELSE {}

(* The new frame is mapped and only then entered in the cache; if it       *)
(* cannot be mapped it is released again.                                  *)
Enter(slots, counts, inUse, slot, f) ==
    LET s == loader.space
        p == PageOf(loader)
    IN /\ data' = [data EXCEPT ![f] = loader.bytes]
       /\ MapFileFrame(s, p, f, counts)
       /\ IF Mapped(s, p) \/ ~CanShare(counts, f)
          THEN used' = inUse /\ cache' = slots /\ UNCHANGED truth
          ELSE /\ Races(loader.key = "shared" /\ loader.bytes # FileBytes)
               /\ used' = inUse \cup {f}
               /\ cache' = [slots EXCEPT ![slot] =
                    [key |-> loader.key, version |-> loader.version, frame |-> f, age |-> 0]]

UnpinnedFrames == {cache[i].frame : i \in Unpinned}
Cleared(counts, gone) == [f \in Frames |-> IF f \in gone THEN 0 ELSE counts[f]]

(* The entry is looked up again; otherwise a slot is chosen, its old frame *)
(* released, and a frame allocated.  When there is none, every unpinned    *)
(* entry is released and the lock dropped for a retry.                     *)
Publish ==
    /\ loader.pc = "publish"
    /\ \/ /\ Hit(loader) # {}
          /\ LET i == Min(Hit(loader)) IN
               /\ cache' = [cache EXCEPT ![i].age = 0]
               /\ data' = data
               /\ MapFileFrame(loader.space, PageOf(loader), cache[i].frame, refs)
          /\ loader' = NoLoad /\ UNCHANGED <<used, truth>>
       \/ /\ Hit(loader) = {} /\ Chosen = {}
          /\ loader' = NoLoad /\ UNCHANGED <<used, refs, table, data, cache, view, truth>>
       \/ /\ Hit(loader) = {}
          /\ \E slot \in Chosen :
               LET gone == {cache[slot].frame} \ {NoFrame} IN
                 \/ \E f \in Free \cup gone :
                      /\ Enter([cache EXCEPT ![slot] = NoEntry], Cleared(refs, gone),
                               used \ gone, slot, f)
                      /\ loader' = NoLoad
                 \/ /\ Free \cup gone = {}
                    /\ used' = used \ UnpinnedFrames
                    /\ refs' = Cleared(refs, UnpinnedFrames)
                    /\ cache' = [i \in Slots |-> IF i \in Unpinned THEN NoEntry ELSE cache[i]]
                    /\ loader' = [loader EXCEPT !.pc = "retry", !.slot = slot]
                    /\ UNCHANGED <<table, data, view, truth>>
    /\ UNCHANGED <<object, file, sync>>

(* After the eviction, if one was needed, the chosen slot is used without  *)
(* another look at it.                                                     *)
Retry ==
    /\ loader.pc = "retry"
    /\ loader' = NoLoad
    /\ \/ \E f \in Free : Enter(cache, refs, used, loader.slot, f)
       \/ Free = {} /\ UNCHANGED <<used, refs, table, data, cache, view, truth>>
    /\ UNCHANGED <<object, file, sync>>

----------------------------------------------------------------------------
(***************************************************************************)
(* vfs::write_at on a materialized file, and write_mapping_at: the inode   *)
(* and the shared frames.                                                  *)
(***************************************************************************)
Written(v) ==
    /\ file' = [bytes |-> v, version |-> file.version + 1]
    /\ data' = [f \in Frames |-> IF \E i \in SharedSlots : cache[i].frame = f THEN v ELSE data[f]]

WriteFile(v) ==
    /\ Written(v)
    /\ truth' = [truth EXCEPT !.last = v]
    /\ UNCHANGED <<used, refs, table, cache, object, loader, view, sync>>

(* sync_file_mapping, for msync and for munmap, and evict_file_page: the   *)
(* bytes of a shared page are copied, and later written to the file.       *)
BeginSync(c, s, unmap) ==
    /\ sync[c].pc = "idle" /\ Mapped(s, SharedPage)
    /\ sync' = [sync EXCEPT ![c] = [pc |-> "write", space |-> s, unmap |-> unmap,
                                    bytes |-> data[table[s][SharedPage].frame]]]
    /\ UNCHANGED <<used, refs, table, data, cache, object, file, loader, view, truth>>

DropSharedWriteMutant(c) == UNCHANGED <<file, data>>
WriteMapping(c) == Written(sync[c].bytes)

WriteBack(c) ==
    /\ sync[c].pc = "write"
    /\ WriteMapping(c)
    /\ Races(sync[c].bytes # FileBytes)
    /\ sync' = [sync EXCEPT ![c] = IF @.unmap THEN [@ EXCEPT !.pc = "unmap", !.bytes = 0]
                                   ELSE NotSyncing]
    /\ UNCHANGED <<used, refs, table, cache, object, loader, view>>

(* The file cannot be written, or another caller has unmapped the page.    *)
SyncFails(c) ==
    /\ \/ sync[c].pc = "write"
       \/ sync[c].pc = "unmap" /\ ~Mapped(sync[c].space, SharedPage)
    /\ sync' = [sync EXCEPT ![c] = NotSyncing]
    /\ UNCHANGED <<used, refs, table, data, cache, object, file, loader, view, truth>>

(* unmap_anonymous and evict_file_page: a private page at once, a shared   *)
(* one after it was written back.                                          *)
UnmapFile(c, s, p) ==
    /\ \/ p = FilePage /\ sync[c].pc = "idle"
       \/ p = SharedPage /\ sync[c].pc = "unmap" /\ sync[c].space = s
    /\ Mapped(s, p)
    /\ ReleaseFrame(table[s][p].frame)
    /\ table' = [table EXCEPT ![s][p] = Unmapped]
    /\ sync' = [sync EXCEPT ![c] = [NotSyncing EXCEPT !.pc = "reclaim"]]
    /\ UNCHANGED <<data, cache, object, file, loader, view, truth>>

(* reclaim_unused.                                                         *)
ReclaimAnyMutant == {i \in Slots : cache[i].frame # NoFrame}
Reclaimed == Unpinned

ReclaimUnused(c) ==
    LET gone == {cache[i].frame : i \in Reclaimed}
    IN  /\ sync[c].pc = "reclaim"
        /\ used' = used \ gone
        /\ refs' = Cleared(refs, gone)
        /\ cache' = [i \in Slots |-> IF i \in Reclaimed THEN NoEntry ELSE cache[i]]
        /\ sync' = [sync EXCEPT ![c] = NotSyncing]
        /\ UNCHANGED <<table, data, object, file, loader, view, truth>>

----------------------------------------------------------------------------
(* unmap_user_range_in and destroy_user_address_space of other pages.      *)
UnmapPage(s, p) ==
    /\ p \in AnonPages \cup {ObjectPage} /\ Mapped(s, p)
    /\ ReleaseFrame(table[s][p].frame)
    /\ table' = [table EXCEPT ![s][p] = Unmapped]
    /\ UNCHANGED <<data, cache, object, file, loader, view, truth, sync>>

(* allocate_shared_frame, map_shared_frame and release_shared_frame.       *)
CreateObject ==
    /\ object = NoFrame
    /\ \E f \in Free : object' = f /\ used' = used \cup {f} /\ data' = [data EXCEPT ![f] = 0]
    /\ UNCHANGED <<refs, table, cache, file, loader, view, truth, sync>>

MapObject(s) ==
    /\ object # NoFrame /\ ~Mapped(s, ObjectPage) /\ CanShare(refs, object)
    /\ Map(s, ObjectPage, object, TRUE)
    /\ refs' = Share(refs, object)
    /\ UNCHANGED <<used, data, cache, object, file, loader, view, truth, sync>>

ReleaseObject ==
    /\ object # NoFrame
    /\ ReleaseFrame(object)
    /\ object' = NoFrame
    /\ UNCHANGED <<table, data, cache, file, loader, view, truth, sync>>

FramesNext ==
    \/ \E s \in Spaces :
         \/ \E range \in SUBSET AnonPages \ {{}} : MapRange(s, range)
         \/ \E child \in Spaces : Fork(s, child)
         \/ \E p \in Pages, v \in Contents : Store(s, p, v)
         \/ \E p \in Pages : BreakCow(s, p) \/ Lookup(s, p) \/ UnmapPage(s, p)
         \/ \E c \in Callers, unmap \in BOOLEAN : BeginSync(c, s, unmap)
         \/ \E c \in Callers, p \in Pages : UnmapFile(c, s, p)
         \/ MapObject(s)
    \/ Read \/ ReadFails \/ Publish \/ Retry
    \/ \E c \in Callers : WriteBack(c) \/ SyncFails(c) \/ ReclaimUnused(c)
    \/ \E v \in Contents : WriteFile(v)
    \/ CreateObject \/ ReleaseObject

FramesSpec == FramesInit /\ [][FramesNext]_frameVars

----------------------------------------------------------------------------
(* The page-table entries, cache slots and objects that refer to a frame.  *)
Holders(f) ==
    Cardinality({sp \in Spaces \X Pages : table[sp[1]][sp[2]].frame = f})
      + Cardinality({i \in Slots : cache[i].frame = f})
      + (IF object = f THEN 1 ELSE 0)

(* CowTable: the count of a frame in use is the number of page-table       *)
(* entries, cache slots and objects that refer to it, and a frame not in   *)
(* use has neither references nor an entry: no frame is freed under a      *)
(* mapping and none is kept without one.                                   *)
FrameRefsExact ==
    \A f \in Frames :
      IF f \in used THEN RefCount(refs, f) = Holders(f)
      ELSE Holders(f) = 0 /\ refs[f] = 0

(* share_user_range_in and try_break_cow: on a private page a process sees *)
(* what it last wrote or was given, whatever other processes and the file  *)
(* do; on a shared page every process and every read of the file sees the  *)
(* last value written by anyone.  Three races that nothing in the code     *)
(* excludes are recorded where they happen, and only they can break this:  *)
(* a write between the read of a shared page and its entry in the cache, a *)
(* write between the copy of a shared page and its write-back, and a store *)
(* between the write-back and the unmapping.                               *)
PagesIsolated ==
    /\ \A s \in Spaces, p \in Private :
         Mapped(s, p) => data[table[s][p].frame] = view[s][p]
    /\ truth.raced \/
       /\ \A s \in Spaces : Mapped(s, SharedPage) => data[table[s][SharedPage].frame] = truth.last
       /\ FileBytes = truth.last

=============================================================================

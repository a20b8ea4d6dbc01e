---------------------------- MODULE Persistence -----------------------------
(***************************************************************************)
(* Files below /mnt on the FAT32 volume: persist, unlink and rename        *)
(* (storage.rs), the FAT, directory and ownership tables they update       *)
(* (fat32.rs) and the import at mount that finishes what a crash           *)
(* interrupted.  A step of an operation is one sector of the write-back    *)
(* cache, or a table update and the flush that follows it; the cache may   *)
(* write any sector back at any time, and a crash keeps only what was      *)
(* written back.  One operation uses the disk at a time.                   *)
(*                                                                         *)
(* A file has at most one cluster and every name its own directory sector. *)
(* The content of a file is the version that wrote it, 0 for an empty one; *)
(* a cluster never written holds None.  The pending mark of a path record  *)
(* is left out: only the step that clears it reads it.                     *)
(***************************************************************************)
EXTENDS Naturals, FiniteSets

CONSTANTS Paths,              \* names of files below /mnt
          Users,              \* owners other than root
          Clusters,           \* data clusters, 2 .. n
          MaxVersion,         \* bound: writes to files
          JOURNAL_CAPACITY,   \* intents the journal sectors hold
          PATH_CAPACITY,      \* records of the path table (WMD1)
          INODE_CAPACITY,     \* records of the inode table (WMD2)
          MaxFaults,          \* bound: device errors
          MaxCrashes,         \* bound: power losses
          None

VARIABLES disk,     \* the volume as the cache shows it
          durable,  \* the volume as the device holds it
          node,     \* VFS: the file of each name
          pc,       \* where the operation on the disk is
          tx,       \* its names and clusters
          todo,     \* names the import has still to visit
          latest,   \* the last version written
          claims,   \* history: owners each version was persisted for
          synced,   \* history: what the last successful persist stored
          faults, crashes

vars == <<disk, durable, node, pc, tx, todo, latest, claims, synced, faults, crashes>>

Versions == 1 .. MaxVersion
Content == Versions \cup {0, None}
Owners == Users \cup {"root"}
First == Clusters \cup {0, None}       \* 0: an empty file, None: no entry

Intent == [version : Content, owner : Owners]
InodeRecord == [owner : Owners, of : Content]   \* of: history, the content it was written for
Volume == [journal : [Paths -> Intent \cup {None}],
           wmd1 : [Paths -> Owners \cup {None}],
           wmd2 : [Clusters -> InodeRecord \cup {None}],
           fat : SUBSET Clusters,               \* allocated clusters
           info : Clusters,                     \* FSInfo: where to look next
           dir : [Paths -> First],
           data : [Clusters -> Content]]
File == [version : Versions \cup {0}, owner : Owners, backed : BOOLEAN]
Tx == [path : Paths \cup {None}, to : Paths \cup {None}, version : Content,
       owner : Owners, old : First, new : First]
NoTx == [path |-> None, to |-> None, version |-> None, owner |-> "root",
         old |-> None, new |-> None]

LowestCluster == CHOOSE c \in Clusters : \A d \in Clusters : c <= d

Formatted == [journal |-> [p \in Paths |-> None], wmd1 |-> [p \in Paths |-> None],
              wmd2 |-> [c \in Clusters |-> None], fat |-> {}, info |-> LowestCluster,
              dir |-> [p \in Paths |-> None], data |-> [c \in Clusters |-> None]]

Init == /\ disk = Formatted /\ durable = Formatted
        /\ node = [p \in Paths |-> None]
        /\ pc = "idle" /\ tx = NoTx /\ todo = {}
        /\ latest = 0
        /\ claims = [v \in Versions |-> {}]
        /\ synced = [p \in Paths |-> None]
        /\ faults = 0 /\ crashes = 0

-----------------------------------------------------------------------------
(* The tables and the FAT.                                                 *)

Stored(d, p) == IF d.dir[p] \in Clusters THEN d.data[d.dir[p]] ELSE 0

\* A table takes a record for a key it has, or for a new one while it has room.
Room(table, key, capacity) ==
    \/ table[key] # None
    \/ Cardinality({k \in DOMAIN table : table[k] # None}) < capacity

\* The first free cluster from the FSInfo hint on, else from the start.
Free(d) == Clusters \ d.fat
NextFree(d, c) ==
    /\ c \in Free(d)
    /\ IF \E e \in Free(d) : e >= d.info
       THEN c >= d.info /\ \A e \in Free(d) : e >= d.info => c <= e
       ELSE \A e \in Free(d) : c <= e
Hint(c) == IF c + 1 \in Clusters THEN c + 1 ELSE LowestCluster
Allocated(d, c) == [d EXCEPT !.fat = @ \cup {c}, !.info = Hint(c)]
Freed(d, c) == IF c \in Clusters THEN [d EXCEPT !.fat = @ \ {c}, !.info = c] ELSE d

\* next_cluster rejects a chain whose cluster is marked free.
Intact(d, first) == first \in Clusters => first \in d.fat

-----------------------------------------------------------------------------
(* How a step of an operation ends.                                        *)

Goto(label) == pc' = label /\ UNCHANGED tx
Finish == pc' = "idle" /\ tx' = NoTx
Fault == faults < MaxFaults /\ faults' = faults + 1
Quiet == UNCHANGED <<todo, latest, claims, crashes>>

\* A sector is changed in the cache; after an error the operation flushes and fails.
Cached(label, d, next) ==
    /\ pc = label
    /\ \/ disk' = d /\ Goto(next) /\ UNCHANGED faults
       \/ Fault /\ Goto("fail") /\ UNCHANGED disk
    /\ UNCHANGED <<durable, node, synced>> /\ Quiet

Rejected(label, refused) ==
    /\ pc = label /\ refused
    /\ Goto("fail")
    /\ UNCHANGED <<disk, durable, node, synced, faults>> /\ Quiet

\* A table is changed and flushed.  An error of either ends the operation at once.
Logged(label, d, fits, next) ==
    /\ pc = label
    /\ \/ fits /\ disk' = d /\ durable' = d /\ Goto(next) /\ UNCHANGED faults
       \/ ~fits /\ Finish /\ UNCHANGED <<disk, durable, faults>>
       \/ fits /\ Fault /\ disk' \in {disk, d} /\ Finish /\ UNCHANGED durable
    /\ UNCHANGED <<node, synced>> /\ Quiet

\* The flush that ends a failed operation; its own error changes nothing more.
FlushFailed ==
    /\ pc = "fail"
    /\ \/ durable' = disk /\ UNCHANGED faults
       \/ Fault /\ UNCHANGED durable
    /\ Finish
    /\ UNCHANGED <<disk, node, synced>> /\ Quiet

-----------------------------------------------------------------------------
(* The VFS: a file is created empty and then written.  An operation on the *)
(* disk took its copy of the content when it began, so that a write during *)
(* one is a write before or after it; a creation matters to the rename     *)
(* that is about to move a file to the same name.                          *)

CreateFile(p, u) ==
    /\ pc \in {"idle", "rename flush"}
    /\ node[p] = None
    /\ node' = [node EXCEPT ![p] = [version |-> 0, owner |-> u, backed |-> FALSE]]
    /\ UNCHANGED <<disk, durable, pc, tx, synced, faults>> /\ Quiet

WriteFile(p) ==
    /\ pc = "idle"
    /\ node[p] # None
    /\ latest < MaxVersion
    /\ latest' = latest + 1
    /\ node' = [node EXCEPT ![p].version = latest + 1, ![p].backed = FALSE]
    /\ UNCHANGED <<disk, durable, pc, tx, todo, claims, synced, faults, crashes>>

-----------------------------------------------------------------------------
(* persist_path                                                            *)

\* read_all: a disk-backed node is read from the volume.
Readable(p) == node[p] # None /\ (node[p].backed => disk.dir[p] # None)
Current(p) == IF node[p].backed THEN Stored(disk, p) ELSE node[p].version

BeginPersist(p) ==
    /\ pc = "idle" /\ Readable(p)
    /\ pc' = "intent"
    /\ tx' = [NoTx EXCEPT !.path = p, !.version = Current(p), !.owner = node[p].owner]
    /\ claims' = [v \in Versions |-> claims[v] \cup (IF v = Current(p) THEN {node[p].owner} ELSE {})]
    /\ synced' = [synced EXCEPT ![p] = None]
    /\ UNCHANGED <<disk, durable, node, todo, latest, faults, crashes>>

AppendIntent ==
    Logged("intent",
           [disk EXCEPT !.journal[tx.path] = [version |-> tx.version, owner |-> tx.owner]],
           Room(disk.journal, tx.path, JOURNAL_CAPACITY), "pending")

WritePending ==
    Logged("pending", [disk EXCEPT !.wmd1[tx.path] = tx.owner],
           Room(disk.wmd1, tx.path, PATH_CAPACITY), "allocate")

\* create_file_in_directory: a new chain, its data, the entry, then the old chain.
RejectCreate == Rejected("allocate", \/ ~Intact(disk, disk.dir[tx.path])
                                     \/ tx.version # 0 /\ Free(disk) = {})

AllocateChain ==
    /\ pc = "allocate" /\ Intact(disk, disk.dir[tx.path])
    /\ \/ /\ tx.version = 0
          /\ tx' = [tx EXCEPT !.old = disk.dir[tx.path], !.new = 0]
          /\ pc' = "entry" /\ UNCHANGED <<disk, faults>>
       \/ /\ tx.version # 0
          /\ \E c \in Free(disk) :
                /\ NextFree(disk, c)
                /\ disk' = Allocated(disk, c)
                /\ tx' = [tx EXCEPT !.old = disk.dir[tx.path], !.new = c]
          /\ pc' = "data" /\ UNCHANGED faults
       \/ /\ Fault /\ Goto("fail")   \* an error on the second FAT copy leaves the first marked
          /\ \/ UNCHANGED disk
             \/ /\ tx.version # 0
                /\ \E c \in Free(disk) : NextFree(disk, c) /\ disk' = [disk EXCEPT !.fat = @ \cup {c}]
    /\ UNCHANGED <<durable, node, synced>> /\ Quiet

\* The chain is freed again when its data or its entry cannot be written; the
\* model has the rollback itself succeed.
OrRollBack(label, d, next) ==
    /\ pc = label
    /\ \/ disk' = d /\ Goto(next) /\ UNCHANGED faults
       \/ Fault /\ disk' = Freed(disk, tx.new) /\ Goto("fail")
    /\ UNCHANGED <<durable, node, synced>> /\ Quiet

WriteData == OrRollBack("data", [disk EXCEPT !.data[tx.new] = tx.version], "entry")
WriteEntry == OrRollBack("entry", [disk EXCEPT !.dir[tx.path] = tx.new], "replaced")
FreeReplaced == Cached("replaced", Freed(disk, tx.old), "flush")
FlushData == Logged("flush", disk, TRUE, "finalize")

ClearsEmptyMutant == Logged("finalize", disk, TRUE, IF tx.new = 0 THEN "clear" ELSE "inode")
FinalizePath == Logged("finalize", disk, TRUE, IF tx.new = 0 THEN "retire" ELSE "inode")
InodeWritten(d, c, owner, version) ==
    [d EXCEPT !.wmd2[c] = [owner |-> owner, of |-> version]]
WriteInode == Logged("inode", InodeWritten(disk, tx.new, tx.owner, tx.version),
                     Room(disk.wmd2, tx.new, INODE_CAPACITY), "clear")
ClearPath == Logged("clear", [disk EXCEPT !.wmd1[tx.path] = None], TRUE, "retire")

RetireIntent ==
    LET d == [disk EXCEPT !.journal[tx.path] = None]
    IN  /\ pc = "retire"
        /\ \/ /\ disk' = d /\ durable' = d
              /\ synced' = [synced EXCEPT ![tx.path] = [version |-> tx.version, owner |-> tx.owner]]
              /\ UNCHANGED faults
           \/ Fault /\ disk' \in {disk, d} /\ UNCHANGED <<durable, synced>>
        /\ Finish
        /\ UNCHANGED node /\ Quiet

PersistStep ==
    \/ AppendIntent \/ WritePending \/ RejectCreate \/ AllocateChain \/ WriteData \/ WriteEntry
    \/ FreeReplaced \/ FlushData \/ FinalizePath \/ WriteInode \/ ClearPath \/ RetireIntent

-----------------------------------------------------------------------------
(* delete_path: the entry, its chain, its records, one flush, then the VFS. *)

BeginUnlink(p) ==
    /\ pc = "idle" /\ node[p] # None
    /\ pc' = "unlink"
    /\ tx' = [NoTx EXCEPT !.path = p, !.old = disk.dir[p]]
    /\ synced' = [synced EXCEPT ![p] = None]
    /\ UNCHANGED <<disk, durable, node, faults>> /\ Quiet

RejectUnlink == Rejected("unlink", tx.old = None \/ ~Intact(disk, tx.old))
DeleteEntry == /\ pc = "unlink" /\ tx.old # None /\ Intact(disk, tx.old)
               /\ Cached("unlink", [disk EXCEPT !.dir[tx.path] = None], "unlink chain")
FreeDeleted == Cached("unlink chain", Freed(disk, tx.old), "unlink path")
RemovePath == Cached("unlink path", [disk EXCEPT !.wmd1[tx.path] = None], "unlink inode")
RemoveInode ==
    Cached("unlink inode",
           IF tx.old \in Clusters THEN [disk EXCEPT !.wmd2[tx.old] = None] ELSE disk,
           "unlink flush")

\* The last flush of an unlink or rename, and the change of the VFS if it succeeds.
FlushThen(label, files) ==
    /\ pc = label
    /\ \/ durable' = disk /\ node' = files /\ UNCHANGED faults
       \/ Fault /\ UNCHANGED <<durable, node>>
    /\ Finish
    /\ UNCHANGED <<disk, synced>> /\ Quiet

UnlinkStep ==
    \/ RejectUnlink \/ DeleteEntry \/ FreeDeleted \/ RemovePath \/ RemoveInode
    \/ FlushThen("unlink flush", [node EXCEPT ![tx.path] = None])

-----------------------------------------------------------------------------
(* rename_path to another directory, where the new name must be free.      *)

BeginRename(p, q) ==
    /\ pc = "idle" /\ node[p] # None /\ node[q] = None
    /\ pc' = "rename"
    /\ tx' = [NoTx EXCEPT !.path = p, !.to = q, !.old = disk.dir[p]]
    /\ synced' = [synced EXCEPT ![p] = None, ![q] = None]
    /\ UNCHANGED <<disk, durable, node, faults>> /\ Quiet

RejectRename == Rejected("rename", tx.old = None \/ disk.dir[tx.to] # None)
AddName == /\ pc = "rename" /\ tx.old # None /\ disk.dir[tx.to] = None
           /\ Cached("rename", [disk EXCEPT !.dir[tx.to] = tx.old], "rename old")

\* When the old name cannot be removed the new one is taken back.
KeepsBothMutant ==
    Cached("rename old", [disk EXCEPT !.dir[tx.path] = None], "rename record")
DropName ==
    /\ pc = "rename old"
    /\ \/ disk' = [disk EXCEPT !.dir[tx.path] = None] /\ Goto("rename record") /\ UNCHANGED faults
       \/ Fault /\ disk' = [disk EXCEPT !.dir[tx.to] = None] /\ Goto("fail")
    /\ UNCHANGED <<durable, node, synced>> /\ Quiet

RejectMove == Rejected("rename record", /\ disk.wmd1[tx.path] # None
                                        /\ ~Room(disk.wmd1, tx.to, PATH_CAPACITY))
MoveRecord ==
    /\ pc = "rename record"
    /\ disk.wmd1[tx.path] # None => Room(disk.wmd1, tx.to, PATH_CAPACITY)
    /\ IF disk.wmd1[tx.path] = None
       THEN Cached("rename record", disk, "rename flush")
       ELSE Cached("rename record", [disk EXCEPT !.wmd1[tx.to] = disk.wmd1[tx.path]], "rename drop")
DropRecord == Cached("rename drop", [disk EXCEPT !.wmd1[tx.path] = None], "rename flush")

RenameStep ==
    \/ RejectRename \/ AddName \/ DropName \/ RejectMove \/ MoveRecord \/ DropRecord
    \/ FlushThen("rename flush",
                 IF node[tx.to] # None THEN node   \* created meanwhile: only the disk has moved
                 ELSE [node EXCEPT ![tx.to] = node[tx.path], ![tx.path] = None])

-----------------------------------------------------------------------------
(* The cache and power loss.                                               *)

WriteBack ==
    /\ \/ \E table \in {"journal", "wmd1", "wmd2", "fat", "info"} :
             durable' = [durable EXCEPT ![table] = disk[table]]
       \/ \E p \in Paths : durable' = [durable EXCEPT !.dir[p] = disk.dir[p]]
       \/ \E c \in Clusters : durable' = [durable EXCEPT !.data[c] = disk.data[c]]
    /\ durable' # durable
    /\ UNCHANGED <<disk, node, pc, tx, synced, faults>> /\ Quiet

Crash ==
    /\ crashes < MaxCrashes
    /\ crashes' = crashes + 1
    /\ disk' = durable
    /\ node' = [p \in Paths |-> None]
    /\ pc' = "mount" /\ tx' = NoTx
    /\ todo' = {p \in Paths : durable.dir[p] # None}
    /\ synced' = [p \in Paths |-> None]
    /\ UNCHANGED <<durable, latest, claims, faults>>

-----------------------------------------------------------------------------
(* import_directory, for each file found: replay its intent if the data    *)
(* matches, then take its owner from the inode table or the path table.    *)

AnyIntentMutant(d, p) == d.journal[p] # None
Mismatch(d, p) == d.journal[p] # None /\ d.journal[p].version # Stored(d, p)

Replayed(d, p) ==
    IF d.journal[p] # None /\ ~Mismatch(d, p) /\ Room(d.wmd1, p, PATH_CAPACITY)
    THEN [d EXCEPT !.wmd1[p] = d.journal[p].owner, !.journal[p] = None]
    ELSE d

InodeOf(d, p) == IF d.dir[p] \in Clusters THEN d.wmd2[d.dir[p]] ELSE None
OwnerIn(d, p) ==
    IF InodeOf(d, p) # None THEN InodeOf(d, p).owner
    ELSE IF d.wmd1[p] # None THEN d.wmd1[p] ELSE "root"

\* A path record moves to the inode table, if the file has a cluster.
Migrates(d, p) == /\ d.dir[p] \in Clusters
                  /\ InodeOf(d, p) = None /\ d.wmd1[p] # None
                  /\ Room(d.wmd2, d.dir[p], INODE_CAPACITY)
DropsUnmovedMutant(d, p) ==
    [d EXCEPT !.wmd1[p] = None,
              !.wmd2 = IF Migrates(d, p)
                       THEN InodeWritten(d, d.dir[p], d.wmd1[p], Stored(d, p)).wmd2 ELSE @]
Adopted(d, p) ==
    IF Migrates(d, p)
    THEN [InodeWritten(d, d.dir[p], d.wmd1[p], Stored(d, p)) EXCEPT !.wmd1[p] = None]
    ELSE d

Imported(owner) == [version |-> 0, owner |-> owner, backed |-> TRUE]

Replay(p) ==
    /\ pc = "mount" /\ p \in todo
    /\ node' = [node EXCEPT ![p] = Imported("root")]
    /\ \/ /\ Mismatch(disk, p)
          /\ todo' = todo \ {p}
          /\ UNCHANGED <<disk, pc, tx>>
       \/ /\ ~Mismatch(disk, p)
          /\ disk' = Replayed(disk, p)
          /\ pc' = "adopt" /\ tx' = [NoTx EXCEPT !.path = p]
          /\ UNCHANGED todo
    /\ UNCHANGED <<durable, latest, claims, synced, faults, crashes>>

Adopt ==
    /\ pc = "adopt"
    /\ node' = [node EXCEPT ![tx.path] = Imported(OwnerIn(disk, tx.path))]
    /\ disk' = Adopted(disk, tx.path)
    /\ todo' = todo \ {tx.path}
    /\ pc' = "mount" /\ tx' = NoTx
    /\ UNCHANGED <<durable, latest, claims, synced, faults, crashes>>

Mounted ==
    /\ pc = "mount" /\ todo = {}
    /\ \/ durable' = disk /\ UNCHANGED faults
       \/ Fault /\ UNCHANGED durable
    /\ Finish
    /\ UNCHANGED <<disk, node, synced>> /\ Quiet

-----------------------------------------------------------------------------
Next ==
    \/ \E p \in Paths : \/ WriteFile(p) \/ BeginPersist(p) \/ BeginUnlink(p) \/ Replay(p)
                        \/ \E u \in Users : CreateFile(p, u)
                        \/ \E q \in Paths : BeginRename(p, q)
    \/ PersistStep \/ UnlinkStep \/ RenameStep \/ FlushFailed
    \/ WriteBack \/ Crash \/ Adopt \/ Mounted

Spec == Init /\ [][Next]_vars

-----------------------------------------------------------------------------
\* The state of the volume, the VFS and the operation in progress.
TypeOK ==
    /\ disk \in Volume /\ durable \in Volume
    /\ node \in [Paths -> File \cup {None}]
    /\ tx \in Tx /\ todo \subseteq Paths
    /\ latest \in 0 .. MaxVersion
    /\ claims \in [Versions -> SUBSET Owners]
    /\ synced \in [Paths -> Intent \cup {None}]
    /\ faults \in 0 .. MaxFaults /\ crashes \in 0 .. MaxCrashes

\* create_file_in_directory, delete_path, rename_path: until a crash, every
\* name's cluster is allocated and no two names share one, except the two
\* names of a rename in progress, whatever errors the device returns.
NoCrossLink ==
    crashes = 0 =>
        \A p, q \in Paths :
            /\ disk.dir[p] \in Clusters => disk.dir[p] \in disk.fat
            /\ p # q /\ disk.dir[p] \in Clusters /\ disk.dir[p] = disk.dir[q]
                 => pc = "rename old" /\ {p, q} = {tx.path, tx.to}

RecoveredOwner(d, p) ==
    IF Mismatch(d, p) THEN "root" ELSE OwnerIn(Replayed(d, p), p)

\* persist_path: what it reported stored stays stored.  Until another
\* operation uses the name, a power loss at any moment leaves an import that
\* gives the file the content and the owner it was persisted with.
SyncedSurvives ==
    crashes = 0 =>
        \A p \in Paths : synced[p] # None =>
            /\ durable.dir[p] # None
            /\ Stored(durable, p) = synced[p].version
            /\ RecoveredOwner(durable, p) = synced[p].owner

\* persist_path: once the data is flushed, a power loss before the records
\* are in place leaves an import that finishes the transaction, unless the
\* file's new cluster still has the inode record of an earlier file.
InterruptedFinishes ==
    crashes = 0 /\ pc \in {"finalize", "inode", "clear", "retire"}
        /\ (InodeOf(durable, tx.path) # None => InodeOf(durable, tx.path).of = tx.version)
      => /\ Stored(durable, tx.path) = tx.version
         /\ RecoveredOwner(durable, tx.path) = tx.owner

\* import_directory: a second mount finds the owner the first one found.
ImportStable ==
    \A p \in Paths : durable.dir[p] # None =>
        RecoveredOwner(Adopted(Replayed(durable, p), p), p) = RecoveredOwner(durable, p)

\* import_directory: an imported file has an owner its content was persisted
\* for, or none of the recorded ones.
OwnerMatchesData ==
    pc \in {"mount", "adopt"} =>
        \A p \in Paths : node[p] # None /\ Stored(disk, p) \in Versions =>
            node[p].owner \in claims[Stored(disk, p)] \cup {"root"}
=============================================================================

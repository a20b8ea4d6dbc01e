-------------------------------- MODULE Vfs ---------------------------------
(***************************************************************************)
(* The file system in memory and its disk (kernel/src/vfs.rs,              *)
(* kernel/src/page_cache.rs, the path operations of kernel/src/storage.rs  *)
(* and their callers in kernel/src/task.rs).                               *)
(*                                                                         *)
(* A node either holds its bytes or has a backing: the path under which    *)
(* the mounted volume holds them.  Every disk access runs without the      *)
(* registry's and the open-file table's locks, so a reader samples the     *)
(* node, reads by path through the page cache, and checks the node again;  *)
(* unlink, rename and mkdir change the disk and the registry in separate   *)
(* steps.                                                                  *)
(*                                                                         *)
(* Paths are sequences of names below /mnt; a file fits in one page.  The  *)
(* on-disk format and crashes are the subject of module Persistence: here  *)
(* the volume is a map from paths to files and directories.                *)
(***************************************************************************)
EXTENDS Naturals, Sequences, FiniteSets, FiniteSetsExt, SequencesExt

CONSTANTS
    Tasks,
    Paths,              \* the paths that are used, besides the mount point
    Imported,           \* the files that are on the volume when it is mounted
    Bytes,              \* what is written
    Calls,              \* the calls that are made
    NODE_CAPACITY,
    MAX_NODES,
    MAX_OPEN_FILES,
    CachePages,         \* N of PageCache<N>
    RETRIES             \* attempts of a read or a materialization

VARIABLES
    nodes,      \* Registry: nodes, versions and generations
    files,      \* OpenFileTable
    disk,       \* the mounted volume
    cache,      \* FILE_PAGES, most recently used first
    epoch,      \* PageCache::epoch
    fds,        \* each task's descriptor
    job,        \* where each task's call is
    truth,      \* ghost: the bytes each node's file has
    bypassed,   \* ghost: nodes whose mapping was written back past a backing
    crossed     \* ghost: two calls that change names have overlapped

vfsVars == <<nodes, files, disk, cache, epoch, fds, job, truth, bypassed, crossed>>

Mount == <<>>
NoPath == <<"unnamed">>
Nodes == 0 .. MAX_NODES - 1
Slots == 1 .. MAX_OPEN_FILES
NoId == [slot |-> 0, epoch |-> 0]
Absent == [kind |-> "absent", data |-> <<>>]
OnDisk(data) == [kind |-> "file", data |-> data]
DirOnDisk == [kind |-> "directory", data |-> <<>>]
Zeros(length) == [i \in 1 .. length |-> "zero"]   \* the data of a node with a backing

Node(path, kind, data, backing) ==
    [occupied |-> TRUE, path |-> path, kind |-> kind, data |-> data, backing |-> backing,
     writable |-> TRUE, version |-> 0, generation |-> 0]
FreeNode == [Node(NoPath, "file", <<>>, NoPath) EXCEPT !.occupied = FALSE]
FreeFile == [occupied |-> FALSE, node |-> 0, generation |-> 0, epoch |-> 0,
             offset |-> 0, refcount |-> 0]
Idle == [pc |-> "idle"]

(* Registry::boot, then mount_device: the files of the volume's root are   *)
(* imported.  A file's first bytes are its name.                           *)
FirstBytes(p) == <<Last(p), Last(p)>>

VfsInit ==
    /\ disk = [p \in Paths |-> IF p \in Imported THEN OnDisk(FirstBytes(p)) ELSE Absent]
    /\ LET path == SetToSeq(Imported)
       IN /\ nodes = [n \in Nodes |->
                        CASE n = 0 -> Node(Mount, "directory", <<>>, NoPath)
                          [] n \in DOMAIN path -> Node(path[n], "file", Zeros(2), path[n])
                          [] OTHER -> FreeNode]
          /\ truth = [n \in Nodes |-> IF n \in DOMAIN path THEN FirstBytes(path[n]) ELSE <<>>]
    /\ files = [s \in Slots |-> FreeFile]
    /\ cache = <<>> /\ epoch = 0
    /\ fds = [t \in Tasks |-> NoId]
    /\ job = [t \in Tasks |-> Idle]
    /\ bypassed = {} /\ crossed = FALSE

----------------------------------------------------------------------------
(***************************************************************************)
(* Registry.                                                               *)
(***************************************************************************)
Descendant(dir, p) == IsStrictPrefix(dir, p)
Named(p) == {n \in Nodes : nodes[n].occupied /\ nodes[n].path = p}
NodeAt(p) == CHOOSE n \in Named(p) : TRUE
IsDirectory(p) == \E n \in Named(p) : nodes[n].kind = "directory"
Unused == {n \in Nodes : ~nodes[n].occupied}

CanInsert(p) == Named(p) = {} /\ IsDirectory(Front(p)) /\ Unused # {}

(* insert and mkdir: the slot keeps its version and its generation.        *)
Inserted(p, kind, data, backing, writable) ==
    [nodes EXCEPT ![Min(Unused)] =
        [@ EXCEPT !.occupied = TRUE, !.path = p, !.kind = kind, !.data = data,
                  !.backing = backing, !.writable = writable]]

Removable(p) ==
    /\ Named(p) # {} /\ IsDirectory(Front(p))
    /\ \A n \in Nodes : nodes[n].occupied => ~Descendant(p, nodes[n].path)

Vacated(n) == [FreeNode EXCEPT !.version = nodes[n].version,
                               !.generation = nodes[n].generation + 1]

CanRename(old, new) ==
    /\ Named(old) # {}
    /\ old = new \/ ( /\ Named(new) = {}
                      /\ ~Descendant(old, new)
                      /\ IsDirectory(Front(new)) )

Moved(p, old, new) ==
    IF p = old THEN new
    ELSE IF Descendant(old, p) THEN new \o SubSeq(p, Len(old) + 1, Len(p)) ELSE p

\* Mutant: what is below a directory keeps its path.
ShallowMutant(old, new) ==
    [n \in Nodes |-> IF nodes[n].occupied /\ nodes[n].path = old
                     THEN [nodes[n] EXCEPT !.path = new, !.version = @ + 1] ELSE nodes[n]]

(* rename: the paths and the backings below the name move together.        *)
KeepBackingMutant(old, new) ==
    [n \in Nodes |->
        IF nodes[n].occupied THEN [nodes[n] EXCEPT !.path = Moved(@, old, new)] ELSE nodes[n]]

Renamed(old, new) ==
    [n \in Nodes |->
        LET node == nodes[n]
            path == Moved(node.path, old, new)
            backing == Moved(node.backing, old, new)
        IN IF ~node.occupied \/ <<path, backing>> = <<node.path, node.backing>> THEN node
           ELSE [node EXCEPT !.path = path, !.backing = backing, !.version = @ + 1]]

----------------------------------------------------------------------------
(***************************************************************************)
(* OpenFileTable.                                                          *)
(***************************************************************************)
Live(id) == id # NoId /\ files[id.slot].occupied /\ files[id.slot].epoch = id.epoch
FreeFiles == {s \in Slots : ~files[s].occupied}
IsOpen(n) == \E s \in Slots : files[s].occupied /\ files[s].node = n
Id(s) == [slot |-> s, epoch |-> files[s].epoch + 1]

Opened(n) ==
    LET s == Min(FreeFiles)
    IN [files EXCEPT ![s] = [occupied |-> TRUE, node |-> n, generation |-> nodes[n].generation,
                             epoch |-> @.epoch + 1, offset |-> 0, refcount |-> 1]]

\* Mutant: a close ends the description whoever else has it.
CloseForAllMutant(id) == [files EXCEPT ![id.slot] = [FreeFile EXCEPT !.epoch = id.epoch]]

(* close_open_file: the last close of an unnamed node frees the node.      *)
Dropped(id) ==
    [files EXCEPT ![id.slot] = IF @.refcount = 1 THEN [FreeFile EXCEPT !.epoch = id.epoch]
                               ELSE [@ EXCEPT !.refcount = @ - 1]]

Close(id) ==
    LET n == files[id.slot].node
        last == files[id.slot].refcount = 1
                /\ \A s \in Slots \ {id.slot} : files[s].occupied => files[s].node # n
    IN /\ files' = Dropped(id)
       /\ nodes' = IF last /\ nodes[n].occupied /\ nodes[n].path = NoPath
                   THEN [nodes EXCEPT ![n] = Vacated(n)]
                   ELSE nodes

Attached(id) ==     \* the description's node is still the one it was opened on
    LET f == files[id.slot]
    IN nodes[f.node].occupied /\ nodes[f.node].generation = f.generation

----------------------------------------------------------------------------
Goto(t, pc) == job' = [job EXCEPT ![t].pc = pc]
Finish(t) == job' = [job EXCEPT ![t] = Idle]
At(t, pc) == job[t].pc = pc
Starts(t, call) == At(t, "idle") /\ call \in Calls

(* ensure_path: what the disk has and the registry lacks is imported; a    *)
(* file's bytes stay on the disk.                                          *)
Import(t, p) ==
    /\ Starts(t, "import") /\ disk[p].kind # "absent" /\ CanInsert(p)
    /\ \E writable \in BOOLEAN :
         nodes' = IF disk[p].kind = "file"
                  THEN Inserted(p, "file", Zeros(Len(disk[p].data)), p, writable)
                  ELSE Inserted(p, "directory", <<>>, NoPath, TRUE)
    /\ truth' = [truth EXCEPT ![Min(Unused)] = disk[p].data]
    /\ bypassed' = bypassed \ {Min(Unused)}
    /\ UNCHANGED <<files, disk, cache, epoch, fds, job, crossed>>

(* open_current with O_CREAT: write_file of nothing when the name is free. *)
Create(t, p) ==
    /\ Starts(t, "create") /\ disk[p].kind = "absent" /\ CanInsert(p)
    /\ nodes' = Inserted(p, "file", <<>>, NoPath, TRUE)
    /\ truth' = [truth EXCEPT ![Min(Unused)] = <<>>]
    /\ bypassed' = bypassed \ {Min(Unused)}
    /\ UNCHANGED <<files, disk, cache, epoch, fds, job, crossed>>

Open(t, p) ==
    /\ Starts(t, "open") /\ fds[t] = NoId /\ FreeFiles # {}
    /\ Named(p) # {} /\ nodes[NodeAt(p)].kind = "file"
    /\ files' = Opened(NodeAt(p))
    /\ fds' = [fds EXCEPT ![t] = Id(Min(FreeFiles))]
    /\ UNCHANGED <<nodes, disk, cache, epoch, job, truth, bypassed, crossed>>

(* clone_open_file, at fork and dup.                                       *)
Clone(t, u) ==
    /\ Starts(t, "clone") /\ Live(fds[t]) /\ fds[u] = NoId
    /\ files' = [files EXCEPT ![fds[t].slot].refcount = @ + 1]
    /\ fds' = [fds EXCEPT ![u] = fds[t]]
    /\ UNCHANGED <<nodes, disk, cache, epoch, job, truth, bypassed, crossed>>

CloseFd(t) ==
    /\ Starts(t, "close") /\ Live(fds[t])
    /\ Close(fds[t])
    /\ fds' = [fds EXCEPT ![t] = NoId]
    /\ UNCHANGED <<disk, cache, epoch, job, truth, bypassed, crossed>>

(* Registry::write_file over an existing file (the shell's write).         *)
Overwrite(t, p) ==
    /\ Starts(t, "overwrite") /\ Named(p) # {}
    /\ nodes[NodeAt(p)].kind = "file" /\ nodes[NodeAt(p)].writable
    /\ \E b \in Bytes :
         /\ nodes' = [nodes EXCEPT ![NodeAt(p)] =
                        [@ EXCEPT !.data = <<b>>, !.backing = NoPath, !.version = @ + 1]]
         /\ truth' = [truth EXCEPT ![NodeAt(p)] = <<b>>]
         /\ bypassed' = bypassed \ {NodeAt(p)}
    /\ UNCHANGED <<files, disk, cache, epoch, fds, job, crossed>>

----------------------------------------------------------------------------
(***************************************************************************)
(* Reading a disk-backed node: sample under the locks, read without them,  *)
(* check under the locks again.  A call is [pc, why, ...]: why says what   *)
(* the bytes are for.                                                      *)
(***************************************************************************)
Call(pc, why, id, n, tries) ==
    [pc |-> pc, why |-> why, id |-> id, node |-> n, generation |-> nodes[n].generation,
     backing |-> nodes[n].backing, version |-> nodes[n].version,
     offset |-> IF id = NoId THEN 0 ELSE files[id.slot].offset,
     path |-> nodes[n].path, to |-> NoPath, at |-> epoch, bytes |-> <<>>, failed |-> FALSE,
     tries |-> tries]

Seeking(why) == why = "read"     \* the call uses the description's offset

(* The byte at the offset, and the offset behind it (vfs::read).           *)
ReadByte(id, data) ==
    files' = [files EXCEPT ![id.slot].offset = IF @ < Len(data) THEN @ + 1 ELSE @]

StartRead(t) ==
    /\ Starts(t, "read") /\ Live(fds[t]) /\ Attached(fds[t])
    /\ LET n == files[fds[t].slot].node
           atEnd == files[fds[t].slot].offset >= Len(nodes[n].data)
       IN IF nodes[n].backing = NoPath \/ atEnd
          THEN ReadByte(fds[t], nodes[n].data) /\ UNCHANGED job
          ELSE job' = [job EXCEPT ![t] = Call("lookup", "read", fds[t], n, RETRIES)]
               /\ UNCHANGED files
    /\ UNCHANGED <<nodes, disk, cache, epoch, fds, truth, bypassed, crossed>>

(* write: materialize_disk_node first.                                     *)
StartWrite(t) ==
    /\ Starts(t, "write") /\ Live(fds[t]) /\ Attached(fds[t])
    /\ LET n == files[fds[t].slot].node
           pc == IF nodes[n].backing = NoPath THEN "write" ELSE "lookup"
       IN /\ nodes[n].writable
          /\ job' = [job EXCEPT ![t] = Call(pc, "write", fds[t], n, RETRIES)]
    /\ UNCHANGED <<nodes, files, disk, cache, epoch, fds, truth, bypassed, crossed>>

(* read_disk_file: a hit moves the page to the front, a miss samples the   *)
(* epoch before the physical read.                                         *)
CachedAs(p) == {i \in 1 .. Len(cache) : cache[i].key = p}
Front1(i) == <<cache[i]>> \o RemoveAt(cache, i)

Lookup(t) ==
    /\ At(t, "lookup")
    /\ IF CachedAs(job[t].backing) # {}
       THEN \E i \in CachedAs(job[t].backing) :
              /\ cache' = Front1(i)
              /\ job' = [job EXCEPT ![t].pc = "check", ![t].bytes = cache[i].data]
       ELSE /\ job' = [job EXCEPT ![t].pc = "load", ![t].at = epoch]
            /\ UNCHANGED cache
    /\ UNCHANGED <<nodes, files, disk, epoch, fds, truth, bypassed, crossed>>

Load(t) ==
    /\ At(t, "load")
    /\ LET entry == disk[job[t].backing]
       IN IF entry.kind = "file"
          THEN job' = [job EXCEPT ![t].pc = "publish", ![t].bytes = entry.data]
          ELSE job' = [job EXCEPT ![t].pc = "check", ![t].failed = TRUE]
    /\ UNCHANGED <<nodes, files, disk, cache, epoch, fds, truth, bypassed, crossed>>

AnyEpochMutant(t) == TRUE
EpochUnchanged(t) == job[t].at = epoch

(* publish_loaded_page: the least recently used page makes room.           *)
PublishPage(t) ==
    /\ At(t, "publish")
    /\ IF EpochUnchanged(t)
       THEN /\ cache' = LET rest == SelectSeq(cache, LAMBDA e : e.key # job[t].backing)
                            room == SubSeq(rest, 1, Min({Len(rest), CachePages - 1}))
                        IN <<[key |-> job[t].backing, data |-> job[t].bytes]>> \o room
            /\ Goto(t, "check")
       ELSE job' = [job EXCEPT ![t].pc = "check", ![t].failed = TRUE] /\ UNCHANGED cache
    /\ UNCHANGED <<nodes, files, disk, epoch, fds, truth, bypassed, crossed>>

(* The locks are taken again: was the node replaced, or changed?           *)
Replaced(t) ==
    LET n == job[t].node
    IN ~nodes[n].occupied \/ nodes[n].generation # job[t].generation

UncheckedMutant(t) == FALSE
Changed(t) ==
    LET n == job[t].node
    IN \/ nodes[n].version # job[t].version
       \/ nodes[n].backing # job[t].backing
       \/ Seeking(job[t].why) /\ files[job[t].id.slot].offset # job[t].offset

Short(t) == job[t].failed \/ Len(job[t].bytes) # Len(nodes[job[t].node].data)

(* Where a call goes on once its bytes are there, and how it gives up.     *)
Then(why) == CASE why = "read" -> "reread"
               [] why = "write" -> "write"
               [] why = "share" -> "share"
               [] why = "unlink" -> "prepare"
               [] why = "remove" -> "remove"
               [] why = "persist" -> "close"

GiveUp(t) ==
    job' = [job EXCEPT ![t] = IF @.why = "persist"
                              THEN [@ EXCEPT !.pc = "close", !.failed = TRUE] ELSE Idle]

Resampled(t) ==
    LET n == job[t].node
        again == [Call("lookup", job[t].why, job[t].id, n, job[t].tries - 1)
                    EXCEPT !.path = job[t].path]
    IN IF nodes[n].backing # NoPath THEN again
       ELSE [again EXCEPT !.pc = Then(job[t].why), !.bytes = nodes[n].data]

Materialized(t) ==
    [nodes EXCEPT ![job[t].node] = [@ EXCEPT !.data = job[t].bytes, !.backing = NoPath]]

Check(t) ==
    /\ At(t, "check")
    /\ \/ /\ Replaced(t) \/ (Changed(t) /\ job[t].tries = 1) \/ (~Changed(t) /\ Short(t))
          /\ GiveUp(t) /\ UNCHANGED <<files, nodes>>
       \/ /\ ~Replaced(t) /\ Changed(t) /\ job[t].tries > 1
          /\ job' = [job EXCEPT ![t] = Resampled(t)]
          /\ UNCHANGED <<files, nodes>>
       \/ /\ ~Replaced(t) /\ ~Changed(t) /\ ~Short(t)
          /\ CASE job[t].why = "read" ->
                    ReadByte(job[t].id, job[t].bytes) /\ Finish(t) /\ UNCHANGED nodes
               [] job[t].why = "persist" -> Goto(t, "close") /\ UNCHANGED <<files, nodes>>
               [] OTHER ->
                    nodes' = Materialized(t) /\ Goto(t, Then(job[t].why)) /\ UNCHANGED files
    /\ UNCHANGED <<disk, cache, epoch, fds, truth, bypassed, crossed>>

(* A read whose node was materialized meanwhile takes the bytes from it.   *)
Reread(t) ==
    /\ At(t, "reread") /\ Finish(t)
    /\ IF Replaced(t) THEN UNCHANGED files
       ELSE ReadByte(job[t].id, nodes[job[t].node].data)
    /\ UNCHANGED <<nodes, disk, cache, epoch, fds, truth, bypassed, crossed>>

(* write: at the shared offset; a file that is full takes nothing.         *)
PutByte(data, offset, b) ==
    IF offset < Len(data) THEN [data EXCEPT ![offset + 1] = b]
    ELSE IF offset < NODE_CAPACITY THEN Append(data, b) ELSE data

WriteByte(t) ==
    LET n == job[t].node
        offset == files[job[t].id.slot].offset
    IN /\ At(t, "write")
       /\ IF Replaced(t) \/ ~nodes[n].writable \/ offset > Len(nodes[n].data)
          THEN Finish(t) /\ UNCHANGED <<nodes, files, truth>>
          ELSE \E b \in Bytes :
                 /\ Finish(t)
                 /\ nodes' = [nodes EXCEPT ![n].data = PutByte(@, offset, b),
                                           ![n].version = @ + 1]
                 /\ truth' = [truth EXCEPT ![n] = PutByte(@, offset, b)]
                 /\ files' = [files EXCEPT ![job[t].id.slot].offset = Min({@ + 1, NODE_CAPACITY})]
       /\ UNCHANGED <<disk, cache, epoch, fds, bypassed, crossed>>

----------------------------------------------------------------------------
(***************************************************************************)
(* A shared mapping: prepare_shared_file when it is made, and the          *)
(* write_mapping_at of each page that is written back.                     *)
(***************************************************************************)
StartShare(t) ==
    /\ Starts(t, "share") /\ Live(fds[t]) /\ Attached(fds[t])
    /\ LET n == files[fds[t].slot].node
       IN /\ ~nodes[n].writable /\ nodes[n].backing # NoPath
          /\ job' = [job EXCEPT ![t] = Call("lookup", "share", fds[t], n, RETRIES)]
    /\ UNCHANGED <<nodes, files, disk, cache, epoch, fds, truth, bypassed, crossed>>

MakeWritable(t) ==
    /\ At(t, "share") /\ Finish(t)
    /\ nodes' = IF Replaced(t) THEN nodes ELSE [nodes EXCEPT ![job[t].node].writable = TRUE]
    /\ UNCHANGED <<files, disk, cache, epoch, fds, truth, bypassed, crossed>>

(* A writable file may still have its backing: the bytes then go to data   *)
(* that the next materialization replaces, which the ghost records.        *)
WriteMapping(t) ==
    /\ Starts(t, "map") /\ Live(fds[t])
    /\ LET n == files[fds[t].slot].node
       IN /\ nodes[n].occupied /\ nodes[n].writable /\ Len(nodes[n].data) > 0
          /\ \E b \in Bytes :
               /\ nodes' = [nodes EXCEPT ![n].data[1] = b, ![n].version = @ + 1]
               /\ truth' = [truth EXCEPT ![n] = PutByte(@, 0, b)]
          /\ bypassed' = IF nodes[n].backing = NoPath THEN bypassed ELSE bypassed \cup {n}
    /\ UNCHANGED <<files, disk, cache, epoch, fds, job, crossed>>

----------------------------------------------------------------------------
(***************************************************************************)
(* persist_path: read_all opens, reads and closes; then the page cache is  *)
(* invalidated and the file written.                                       *)
(***************************************************************************)
StartPersist(t, p) ==
    /\ Starts(t, "persist") /\ FreeFiles # {}
    /\ Named(p) # {} /\ nodes[NodeAt(p)].kind = "file"
    /\ files' = Opened(NodeAt(p))
    /\ LET n == NodeAt(p)
           call == [Call("lookup", "persist", NoId, n, RETRIES) EXCEPT !.id = Id(Min(FreeFiles))]
       IN job' = [job EXCEPT ![t] = IF nodes[n].backing # NoPath THEN call
                                    ELSE [call EXCEPT !.pc = "close", !.bytes = nodes[n].data]]
    /\ UNCHANGED <<nodes, disk, cache, epoch, fds, truth, bypassed, crossed>>

CloseRead(t) ==
    /\ At(t, "close") /\ Close(job[t].id)
    /\ job' = [job EXCEPT ![t] = IF @.failed THEN Idle ELSE [@ EXCEPT !.pc = "invalidate"]]
    /\ UNCHANGED <<disk, cache, epoch, fds, truth, bypassed, crossed>>

(* FILE_PAGES.lock().invalidate(), before every change of the volume.      *)
Change(why) == CASE why = "persist" -> "store" [] why = "unlink" -> "delete"
                 [] why = "rename" -> "move" [] why = "mkdir" -> "make"

KeepPagesMutant(t) == cache' = cache /\ epoch' = epoch
DropPages(t) == cache' = <<>> /\ epoch' = epoch + 1

Invalidate(t) ==
    /\ At(t, "invalidate") /\ DropPages(t)
    /\ Goto(t, Change(job[t].why))
    /\ UNCHANGED <<nodes, files, disk, fds, truth, bypassed, crossed>>

(* create_path_file: missing directories are made on the way.              *)
Ancestors(p) == {q \in Paths : Descendant(q, p)}
Stored(p, entry) ==
    [q \in Paths |-> IF q = p THEN entry ELSE IF q \in Ancestors(p) THEN DirOnDisk ELSE disk[q]]
CanStore(p, kind) ==
    disk[p].kind \in {"absent", kind} /\ \A q \in Ancestors(p) : disk[q].kind # "file"

Store(t) ==
    /\ At(t, "store") /\ Finish(t)
    /\ IF CanStore(job[t].path, "file") THEN disk' = Stored(job[t].path, OnDisk(job[t].bytes))
       ELSE UNCHANGED disk
    /\ UNCHANGED <<nodes, files, cache, epoch, fds, truth, bypassed, crossed>>

----------------------------------------------------------------------------
(***************************************************************************)
(* unlink_current, rename_current and mkdir_path.                          *)
(***************************************************************************)
(* Does a call that changes names on the disk and then in the registry     *)
(* start while another is between the two?                                 *)
Renaming(t) == ~At(t, "idle") /\ job[t].why \in {"unlink", "remove", "rename", "mkdir"}

Begin(t, pc, why, p, q) ==
    /\ crossed' = (crossed \/ \E u \in Tasks : Renaming(u))
    /\ job' = [job EXCEPT ![t] = [Call(pc, why, NoId, 0, RETRIES) EXCEPT !.path = p, !.to = q]]

StartUnlink(t, p) ==
    /\ Starts(t, "unlink") /\ Removable(p)
    /\ Begin(t, "prepare", "unlink", p, NoPath)
    /\ UNCHANGED <<nodes, files, disk, cache, epoch, fds, truth, bypassed>>

NeedsBytes(p) ==
    LET n == NodeAt(p)
    IN nodes[n].kind = "file" /\ IsOpen(n) /\ nodes[n].backing # NoPath

FetchFor(t, why) ==
    job' = [job EXCEPT ![t] =
              [Call("lookup", why, NoId, NodeAt(job[t].path), RETRIES) EXCEPT !.path = job[t].path]]

(* prepare_remove: an open file keeps its bytes when its name goes.        *)
Prepare(t) ==
    /\ At(t, "prepare")
    /\ IF ~Removable(job[t].path) THEN Finish(t)
       ELSE IF NeedsBytes(job[t].path) THEN FetchFor(t, "unlink")
       ELSE Goto(t, "invalidate")
    /\ UNCHANGED <<nodes, files, disk, cache, epoch, fds, truth, bypassed, crossed>>

DeleteOnDisk(t) ==
    /\ At(t, "delete")
    /\ LET p == job[t].path
       IN IF disk[p].kind = "absent" \/ \E q \in Paths : Descendant(p, q) /\ disk[q].kind # "absent"
          THEN Finish(t) /\ UNCHANGED disk
          ELSE disk' = [disk EXCEPT ![p] = Absent] /\ Goto(t, "remove")
    /\ UNCHANGED <<nodes, files, cache, epoch, fds, truth, bypassed, crossed>>

(* vfs::remove: an open file stays as an unnamed node.                     *)
RemoveName(t) ==
    LET p == job[t].path
        n == NodeAt(p)
    IN /\ At(t, "remove")
       /\ IF Named(p) = {} THEN Finish(t) /\ UNCHANGED nodes
          ELSE IF NeedsBytes(p) THEN FetchFor(t, "remove") /\ UNCHANGED nodes
          ELSE /\ Finish(t)
               /\ nodes' = IF nodes[n].kind = "file" /\ IsOpen(n)
                           THEN [nodes EXCEPT ![n].path = NoPath]
                           ELSE IF Removable(p) THEN [nodes EXCEPT ![n] = Vacated(n)] ELSE nodes
       /\ UNCHANGED <<files, disk, cache, epoch, fds, truth, bypassed, crossed>>

StartRename(t, old, new) ==
    /\ Starts(t, "rename") /\ old # new /\ CanRename(old, new)
    /\ Begin(t, "invalidate", "rename", old, new)
    /\ UNCHANGED <<nodes, files, disk, cache, epoch, fds, truth, bypassed>>

(* storage::rename_path: fat32::rename_path moves the entry; the entries   *)
(* of a directory move with it.                                            *)
MoveOnDisk(t) ==
    LET old == job[t].path
        new == job[t].to
        movable == /\ disk[old].kind # "absent" /\ disk[new].kind = "absent"
                   /\ Len(new) = 1 \/ (Front(new) \in Paths /\ disk[Front(new)].kind = "directory")
                   /\ \A p \in Paths : disk[p].kind # "absent" => Moved(p, old, new) \in Paths
    IN /\ At(t, "move")
       /\ IF ~movable THEN Finish(t) /\ UNCHANGED disk
          ELSE /\ Goto(t, "rename")
               /\ disk' = [p \in Paths |->
                            LET from == Moved(p, new, old)
                            IN IF p # new /\ ~Descendant(new, p)
                               THEN IF p = old \/ Descendant(old, p) THEN Absent ELSE disk[p]
                               ELSE IF from \in Paths THEN disk[from] ELSE Absent]
       /\ UNCHANGED <<nodes, files, cache, epoch, fds, truth, bypassed, crossed>>

Rename(t) ==
    /\ At(t, "rename") /\ Finish(t)
    /\ nodes' = IF CanRename(job[t].path, job[t].to) THEN Renamed(job[t].path, job[t].to) ELSE nodes
    /\ UNCHANGED <<files, disk, cache, epoch, fds, truth, bypassed, crossed>>

(* mkdir_path: the registry first; the name goes again if the disk fails.  *)
StartMkdir(t, p) ==
    /\ Starts(t, "mkdir") /\ CanInsert(p)
    /\ nodes' = Inserted(p, "directory", <<>>, NoPath, TRUE)
    /\ Begin(t, "invalidate", "mkdir", p, NoPath)
    /\ truth' = [truth EXCEPT ![Min(Unused)] = <<>>]
    /\ bypassed' = bypassed \ {Min(Unused)}
    /\ UNCHANGED <<files, disk, cache, epoch, fds>>

MakeOnDisk(t) ==
    /\ At(t, "make")
    /\ IF CanStore(job[t].path, "directory")
       THEN disk' = Stored(job[t].path, DirOnDisk) /\ Finish(t)
       ELSE UNCHANGED disk /\ Goto(t, "remove")
    /\ UNCHANGED <<nodes, files, cache, epoch, fds, truth, bypassed, crossed>>

(* A call that starts, and a call that goes on.                            *)
VfsCall(t) ==
    \/ \E p \in Paths :
         \/ Import(t, p) \/ Create(t, p) \/ Open(t, p) \/ Overwrite(t, p)
         \/ StartPersist(t, p) \/ StartUnlink(t, p) \/ StartMkdir(t, p)
         \/ \E q \in Paths : StartRename(t, p, q)
    \/ \E u \in Tasks \ {t} : Clone(t, u)
    \/ CloseFd(t) \/ StartRead(t) \/ StartWrite(t) \/ StartShare(t) \/ WriteMapping(t)

VfsStep(t) ==
    \/ Lookup(t) \/ Load(t) \/ PublishPage(t) \/ Check(t) \/ Reread(t) \/ WriteByte(t)
    \/ MakeWritable(t) \/ CloseRead(t) \/ Invalidate(t) \/ Store(t) \/ Prepare(t)
    \/ DeleteOnDisk(t) \/ RemoveName(t) \/ MoveOnDisk(t) \/ Rename(t) \/ MakeOnDisk(t)

VfsNext == \E t \in Tasks : VfsCall(t) \/ VfsStep(t)

VfsSpec == VfsInit /\ [][VfsNext]_vfsVars

----------------------------------------------------------------------------
(* insert, mkdir, remove and rename: names are unique, every name but the  *)
(* mount point's is in a directory, and a node without a name is an open   *)
(* file that holds its own bytes.                                          *)
NamesFormTree ==
    \A n \in Nodes : nodes[n].occupied =>
        /\ nodes[n].path # NoPath =>
             Named(nodes[n].path) = {n} /\ (n = 0 \/ IsDirectory(Front(nodes[n].path)))
        /\ nodes[n].path = NoPath => IsOpen(n) /\ nodes[n].backing = NoPath

(* open, clone_open_file, close_open_file and remove: a description counts *)
(* its descriptors and the reads of persist_path, and its node is the one  *)
(* it was opened on, occupied, however names are removed and reused.       *)
OpenFilesAttached ==
    \A s \in Slots :
        LET users == {t \in Tasks : fds[t].slot = s}
            readers == {t \in Tasks : job[t].pc # "idle" /\ job[t].why = "persist"
                                        /\ job[t].pc \in {"lookup", "load", "publish", "check", "close"}
                                        /\ job[t].id.slot = s}
        IN /\ files[s].refcount = Cardinality(users) + Cardinality(readers)
           /\ files[s].occupied <=> users \cup readers # {}
           /\ files[s].occupied =>
                nodes[files[s].node].occupied
                /\ nodes[files[s].node].generation = files[s].generation

(* read_from and materialize_disk_node against unlink, rename, persist and *)
(* the page cache: the bytes a call accepts after its second look at the   *)
(* node are the file's, whatever happened to the name, the volume and the  *)
(* cache while no lock was held; a node without a backing holds them.      *)
(* This is up to the first overlap of two calls that change names, which   *)
(* can leave the volume and the registry with different names.             *)
ReadsServeFile ==
    crossed \/
    /\ \A n \in Nodes \ bypassed :
         nodes[n].occupied /\ nodes[n].backing = NoPath => nodes[n].data = truth[n]
    /\ \A t \in Tasks :
         At(t, "check") /\ ~Replaced(t) /\ ~Changed(t) /\ ~Short(t) /\ job[t].node \notin bypassed
         => job[t].bytes = truth[job[t].node]
=============================================================================

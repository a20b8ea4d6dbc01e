------------------------------- MODULE FatTree -------------------------------
(***************************************************************************)
(* Directories and cluster chains of a FAT32 volume (fat32.rs): a file of  *)
(* several clusters, a directory that grows by a cluster, a long name that *)
(* takes two slots, create, mkdir, delete and rename, and what each of     *)
(* them undoes when the device refuses a write.  A call has the disk to    *)
(* itself and is one action; the action picks which write the device       *)
(* refuses and whether it refuses the following ones as well.  Persistence *)
(* has the power losses and the ownership records.                         *)
(*                                                                         *)
(* A cluster is one sector of SLOTS directory slots; a sector of file data *)
(* holds the size of the file it belongs to.  FSInfo is advisory: a call   *)
(* may find any of Hints in it.  A long name has one record before its     *)
(* short entry.  The volume starts empty, and nothing in the code marks an *)
(* entry read-only, so the checks of that attribute never refuse one.      *)
(***************************************************************************)
EXTENDS Naturals, FiniteSets, Sequences, SequencesExt

CONSTANTS LastCluster,   \* clusters are 2 .. LastCluster, 2 the root directory
          SLOTS,         \* directory entries of a cluster
          ShortNames,    \* names that encode_short_name accepts
          LongNames,     \* names that need a long record
          Paths,         \* paths the calls are given
          Sizes,         \* clusters of a file, which also tell its content
          Hints,         \* where FSInfo may send the search for a free cluster
          Aliases,       \* WOVEN~1, WOVEN~2, ... in the order they are tried
          MaxWrites,     \* bound: writes of a call that may be refused
          MaxFaults,     \* bound: calls with a refused write
          None

VARIABLES fat,      \* the FAT, its first copy
          slot,     \* the slots of each cluster
          wounded,  \* history: a refused write that the code does not undo
          faults,   \* calls so far with a refused write
          amiss     \* history: what a call did that it should not have

fatVars == <<fat, slot, wounded, faults, amiss>>

Root == 2
Clusters == Root .. LastCluster
END == LastCluster + 1
Never == MaxWrites + 1

Unused == [kind |-> "end"]          \* first byte 0: no entry follows
Deleted == [kind |-> "deleted"]     \* first byte 0xe5
Record(name, alias) == [kind |-> "long", name |-> name, of |-> alias]
Entry(kind, name, first, size) == [kind |-> kind, name |-> name, first |-> first, size |-> size]
Data(size) == [i \in 1 .. SLOTS |-> [kind |-> "data", size |-> size]]
Zeroed == [i \in 1 .. SLOTS |-> Unused]
Dots(c, parent) == [Zeroed EXCEPT ![1] = Entry("dir", ".", c, 0), ![2] = Entry("dir", "..", parent, 0)]

FatInit == /\ fat = [c \in Clusters |-> IF c = Root THEN END ELSE 0]
           /\ slot = [c \in Clusters |-> Zeroed]
           /\ wounded = FALSE /\ faults = 0
           /\ amiss = {}

-----------------------------------------------------------------------------
(* A call works on the device d: `left' writes succeed before one is       *)
(* refused, and when the device is dead so are all that follow.            *)

Device(left, dead, hint) ==
    [fat |-> fat, slot |-> slot, hint |-> hint, left |-> left, dead |-> dead,
     ok |-> TRUE, hit |-> FALSE, wounded |-> FALSE, got |-> None]

Refused(d) == [d EXCEPT !.ok = FALSE]
Failed(d) == [d EXCEPT !.ok = FALSE, !.hit = TRUE, !.left = IF d.dead THEN 0 ELSE Never]
Spent(d, n) == IF d.left = Never THEN d ELSE [d EXCEPT !.left = @ - n]

\* Op applied to the value of x; `?' and the error arms of a match.
Bind(x, Op(_)) == CHOOSE y \in {Op(e) : e \in {x}} : TRUE
AndThen(d, Op(_)) == Bind(d, LAMBDA e : IF e.ok THEN Op(e) ELSE e)
OrElse(d, Undo(_)) == Bind(d, LAMBDA e : IF e.ok THEN e ELSE Refused(Undo([e EXCEPT !.ok = TRUE])))
Ignored(d) == [d EXCEPT !.ok = TRUE]          \* let _ = ...
Got(d, x) == [d EXCEPT !.got = x]

\* Every copy of the FAT in turn: an error of the second leaves the first changed.
write_fat_entry(d, c, x) ==
    LET e == [d EXCEPT !.fat[c] = x]
    IN  CASE d.left = 0 -> Failed(d)
          [] d.left = 1 -> Failed(e)
          [] OTHER -> Spent(e, 2)

write_raw_directory_slot(d, s, entry) ==
    IF d.left = 0 THEN Failed(d) ELSE Spent([d EXCEPT !.slot[s[1]][s[2]] = entry], 1)

WriteCluster(d, c, content) ==
    IF d.left = 0 THEN Failed(d) ELSE Spent([d EXCEPT !.slot[c] = content], 1)

-----------------------------------------------------------------------------
(* Chains.                                                                 *)

RECURSIVE Walk(_, _, _)
Walk(f, c, n) == IF n = 0 \/ c \notin Clusters THEN <<>> ELSE <<c>> \o Walk(f, f[c], n - 1)
Chain(f, c) == Walk(f, c, Cardinality(Clusters))

\* validate_cluster_chain: no loop, no free cluster, an end.
Valid(f, c) == Chain(f, c) # <<>> /\ f[Chain(f, c)[Len(Chain(f, c))]] = END

RECURSIVE FreeAll(_, _)
FreeAll(d, chain) ==
    IF chain = <<>> THEN d
    ELSE AndThen(write_fat_entry(d, Head(chain), 0), LAMBDA e : FreeAll(e, Tail(chain)))

free_cluster_chain(d, c) ==
    IF c = 0 THEN d
    ELSE IF ~Valid(d.fat, c) THEN Refused(d)
    ELSE AndThen(FreeAll(d, Chain(d.fat, c)), LAMBDA e : [e EXCEPT !.hint = c])

\* The first free cluster from the hint on, then from the start.
FreeFrom(d) ==
    LET free == {c \in Clusters : d.fat[c] = 0}
        above == {c \in free : c >= d.hint}
    IN  IF above # {} THEN above ELSE free
allocate_cluster(d) ==
    IF FreeFrom(d) = {} THEN Refused(d)
    ELSE LET c == CHOOSE x \in FreeFrom(d) : \A y \in FreeFrom(d) : x <= y
         IN  AndThen(write_fat_entry(d, c, END),
                     LAMBDA e : [e EXCEPT !.got = c, !.hint = IF c = LastCluster THEN Root ELSE c + 1])

RECURSIVE Extended(_, _, _, _)
Extended(d, first, previous, n) ==
    IF n = 0 THEN Got(d, first)
    ELSE AndThen(OrElse(allocate_cluster(d), LAMBDA u : free_cluster_chain(u, first)), LAMBDA e :
         AndThen(IF previous = 0 THEN e
                 ELSE OrElse(write_fat_entry(e, previous, e.got),
                             LAMBDA u : free_cluster_chain(Ignored(free_cluster_chain(u, e.got)), first)),
                 LAMBDA w : Extended(w, IF first = 0 THEN e.got ELSE first, e.got, n - 1)))
allocate_file_chain(d, n) == Extended(d, 0, 0, n)

RECURSIVE WriteAll(_, _, _)
WriteAll(d, chain, size) ==
    IF chain = <<>> THEN d
    ELSE AndThen(WriteCluster(d, Head(chain), Data(size)), LAMBDA e : WriteAll(e, Tail(chain), size))
write_file_data_chain(d, first, size) == WriteAll(d, Chain(d.fat, first), size)

-----------------------------------------------------------------------------
(* Directory slots.  A reservation names its slots and the clusters added  *)
(* to the directory for it.                                                *)

RECURSIVE SlotsOf(_)
SlotsOf(chain) ==
    IF chain = <<>> THEN <<>> ELSE [i \in 1 .. SLOTS |-> <<Head(chain), i>>] \o SlotsOf(Tail(chain))
Positions(f, dir) == SlotsOf(Chain(f, dir))
At(d, s) == d.slot[s[1]][s[2]]

\* The entries that a search meets: up to the first slot never used.
Met(d, dir) ==
    LET all == Positions(d.fat, dir)
        ends == {i \in DOMAIN all : At(d, all[i]).kind = "end"}
    IN  {i \in DOMAIN all : \A e \in ends : i < e}
IsEntry(e) == e.kind \in {"file", "dir"}

\* find_in_directory: the slot of a short name, None when there is none.
find_existing_directory_slot(d, dir, short) ==
    LET all == Positions(d.fat, dir)
        found == {i \in Met(d, dir) : IsEntry(At(d, all[i])) /\ At(d, all[i]).name = short}
    IN  IF found = {} THEN None ELSE all[CHOOSE i \in found : \A j \in found : i <= j]

\* The name a listing shows: that of the long record just before the entry.  Its
\* checksum is compared with that of the other records, not with the entry.
DisplayName(d, all, i) ==
    IF i > 1 /\ At(d, all[i - 1]).kind = "long" THEN At(d, all[i - 1]).name ELSE At(d, all[i]).name
find_in_directory_name(d, dir, name) ==
    LET all == Positions(d.fat, dir)
        found == {i \in Met(d, dir) : IsEntry(At(d, all[i])) /\ name \in {At(d, all[i]).name, DisplayName(d, all, i)}}
    IN  IF found = {} THEN None ELSE all[CHOOSE i \in found : \A j \in found : i <= j]

KeepLinkMutant(d, x) == free_cluster_chain(d, x.cluster)
rollback_directory_extension(d, x) ==
    AndThen(write_fat_entry(d, x.parent, END), LAMBDA e : free_cluster_chain(e, x.cluster))

\* A link refused by the second copy of the FAT stays in the first, and the
\* cluster it names is freed.
extend_directory_chain(d, tail) ==
    AndThen(allocate_cluster(d), LAMBDA new :
    AndThen(OrElse(WriteCluster(new, new.got, Zeroed), LAMBDA u : free_cluster_chain(u, new.got)), LAMBDA zeroed :
    Bind(OrElse(write_fat_entry(zeroed, tail, new.got), LAMBDA u : free_cluster_chain(u, new.got)), LAMBDA linked :
    IF linked.ok THEN Got(linked, [parent |-> tail, cluster |-> new.got])
    ELSE [linked EXCEPT !.wounded = @ \/ linked.fat[tail] # END])))

\* The entry of that name, else the first slot deleted or never used, else a new cluster.
find_directory_slot(d, dir, short) ==
    LET all == Positions(d.fat, dir)
        existing == find_existing_directory_slot(d, dir, short)
        free == {i \in DOMAIN all : At(d, all[i]).kind \in {"end", "deleted"}}
        more == extend_directory_chain(d, all[Len(all)][1])
    IN  IF existing # None THEN Got(d, [slots |-> <<existing>>, added |-> <<>>])
        ELSE IF free # {}
        THEN Got(d, [slots |-> <<all[CHOOSE i \in free : \A j \in free : i <= j]>>, added |-> <<>>])
        ELSE AndThen(more, LAMBDA e : Got(e, [slots |-> <<<<e.got.cluster, 1>>>>, added |-> <<e.got>>]))

\* Two free slots in a row, over as many added clusters as that takes.  An
\* error after a cluster was added leaves it in the directory.
RECURSIVE find_long_directory_slots(_, _, _)
find_long_directory_slots(d, dir, added) ==
    LET all == Positions(d.fat, dir)
        free(i) == At(d, all[i]).kind \in {"end", "deleted"}
        runs == {i \in 1 .. Len(all) - 1 : free(i) /\ free(i + 1)}
        more == extend_directory_chain(d, all[Len(all)][1])
    IN  IF runs # {}
        THEN LET i == CHOOSE x \in runs : \A y \in runs : x <= y
             IN  Got(d, [slots |-> <<all[i], all[i + 1]>>, added |-> added])
        ELSE AndThen(more, LAMBDA e : find_long_directory_slots(e, dir, Append(added, e.got)))

mark_directory_entry_deleted(d, s) == write_raw_directory_slot(d, s, Deleted)

\* The records before the entry in its sector.
mark_lfn_prefix_deleted(d, s) ==
    IF s[2] > 1 /\ d.slot[s[1]][s[2] - 1].kind = "long"
    THEN write_raw_directory_slot(d, <<s[1], s[2] - 1>>, Deleted) ELSE d

RECURSIVE DropAdded(_, _)
DropAdded(d, added) ==
    IF added = <<>> THEN d
    ELSE Bind(Ignored(rollback_directory_extension(d, added[Len(added)])),
              LAMBDA e : DropAdded(e, Front(added)))
rollback_reserved_slot(d, r) == DropAdded(d, r.added)

RECURSIVE DropSlots(_, _)
DropSlots(d, slots) ==
    IF slots = <<>> THEN d
    ELSE Bind(Ignored(mark_directory_entry_deleted(d, Head(slots))), LAMBDA e : DropSlots(e, Tail(slots)))
rollback_long_directory_reservation(d, r, used) ==
    DropAdded(DropSlots(d, SubSeq(r.slots, 1, used)), r.added)

-----------------------------------------------------------------------------
(* Creating files and directories.                                         *)

\* WOVEN~n: the first alias the directory does not use.
generate_short_alias(d, dir) ==
    LET unused == {i \in DOMAIN Aliases : find_existing_directory_slot(d, dir, Aliases[i]) = None}
    IN  IF unused = {} THEN Refused(d)
        ELSE Got(d, Aliases[CHOOSE i \in unused : \A j \in unused : i <= j])

create_long_file_in_directory(d, dir, name, size) ==
    AndThen(generate_short_alias(d, dir), LAMBDA a :
    AndThen(find_long_directory_slots(a, dir, <<>>), LAMBDA r :
    AndThen(OrElse(allocate_file_chain(r, size),
                   LAMBDA u : rollback_long_directory_reservation(u, r.got, 0)), LAMBDA c :
    AndThen(OrElse(write_file_data_chain(c, c.got, size),
                   LAMBDA u : free_cluster_chain(u, c.got)), LAMBDA w :
    AndThen(OrElse(write_raw_directory_slot(w, r.got.slots[1], Record(name, a.got)),
                   LAMBDA u : free_cluster_chain(rollback_long_directory_reservation(u, r.got, 1), c.got)), LAMBDA n :
    OrElse(write_raw_directory_slot(n, r.got.slots[2], Entry("file", a.got, c.got, size)),
           LAMBDA u : free_cluster_chain(rollback_long_directory_reservation(u, r.got, 2), c.got)))))))

\* The old chain is freed before the new one is written.
FreeFirstMutant(d, r, name, size) ==
    LET e == At(d, r.slots[1])
    IN  AndThen(free_cluster_chain(d, IF IsEntry(e) THEN e.first ELSE 0), LAMBDA f :
        AndThen(allocate_file_chain(f, size), LAMBDA c :
        AndThen(write_file_data_chain(c, c.got, size), LAMBDA w :
        write_raw_directory_slot(w, r.slots[1], Entry("file", name, c.got, size)))))

\* The new chain is complete before the entry names it, the old one is freed after.
ShortFile(d, r, name, size) ==
    LET s == r.slots[1]
        e == At(d, s)
        undo(u, first) == rollback_reserved_slot(Ignored(free_cluster_chain(u, first)), r)
        broken == e.kind = "file" /\ e.first # 0 /\ ~Valid(d.fat, e.first)
    IN  IF e.kind = "dir" \/ broken THEN Refused(d)
        ELSE AndThen(OrElse(allocate_file_chain(d, size), LAMBDA u : rollback_reserved_slot(u, r)), LAMBDA c :
             AndThen(OrElse(write_file_data_chain(c, c.got, size), LAMBDA u : undo(u, c.got)), LAMBDA w :
             AndThen(OrElse(write_raw_directory_slot(w, s, Entry("file", name, c.got, size)),
                            LAMBDA u : undo(u, c.got)), LAMBDA n :
             free_cluster_chain(n, IF IsEntry(e) THEN e.first ELSE 0))))

create_file_in_directory(d, dir, name, size) ==
    IF name \in LongNames THEN create_long_file_in_directory(d, dir, name, size)
    ELSE AndThen(find_directory_slot(d, dir, name), LAMBDA e : ShortFile(e, e.got, name, size))

NewDirectory(d, r, dir, name) ==
    LET undo(u, c) == rollback_reserved_slot(Ignored(free_cluster_chain(u, c)), r)
    IN  AndThen(OrElse(allocate_cluster(d), LAMBDA u : rollback_reserved_slot(u, r)), LAMBDA c :
        AndThen(OrElse(WriteCluster(c, c.got, Zeroed), LAMBDA u : undo(u, c.got)), LAMBDA z :
        AndThen(OrElse(WriteCluster(z, c.got, Dots(c.got, dir)), LAMBDA u : undo(u, c.got)), LAMBDA w :
        OrElse(write_raw_directory_slot(w, r.slots[1], Entry("dir", name, c.got, 0)),
               LAMBDA u : undo(u, c.got)))))

create_directory_in(d, dir, name) ==
    IF name \in LongNames THEN Refused(d)
    ELSE AndThen(find_directory_slot(d, dir, name), LAMBDA r :
         LET e == At(r, r.got.slots[1])
         IN  CASE e.kind = "dir" -> Got(r, e.first)
               [] e.kind = "file" -> Refused(r)
               [] OTHER -> NewDirectory(r, r.got, dir, name))

RECURSIVE Descend(_, _, _, _)
Descend(d, dir, names, create_missing) ==
    IF names = <<>> THEN Got(d, dir)
    ELSE Bind(find_in_directory_name(d, dir, Head(names)), LAMBDA s :
             IF s # None
             THEN IF At(d, s).kind = "dir" THEN Descend(d, At(d, s).first, Tail(names), create_missing)
                  ELSE Refused(d)
             ELSE IF ~create_missing THEN Refused(d)
             ELSE AndThen(create_directory_in(d, dir, Head(names)),
                          LAMBDA e : Descend(e, e.got, Tail(names), create_missing)))
resolve_parent_cluster(d, path, create_missing) == Descend(d, Root, Front(path), create_missing)

Leaf(path) == path[Len(path)]

create_path_file(d, path, size) ==
    AndThen(resolve_parent_cluster(d, path, TRUE),
            LAMBDA e : create_file_in_directory(e, e.got, Leaf(path), size))

mkdir_path(d, path) == Descend(d, Root, path, TRUE)

-----------------------------------------------------------------------------
(* Deleting and renaming.                                                  *)

directory_is_empty(d, dir) ==
    \A i \in Met(d, dir) : LET e == At(d, Positions(d.fat, dir)[i])
                           IN  IsEntry(e) => e.name \in {".", ".."}

DeleteIn(d, dir, name) ==
    Bind(find_in_directory_name(d, dir, name), LAMBDA s :
    IF s = None THEN Refused(d)
    ELSE LET e == At(d, s)
         IN  IF \/ e.kind = "dir" /\ ~directory_is_empty(d, e.first)
                \/ e.first # 0 /\ ~Valid(d.fat, e.first)
             THEN Refused(d)
             ELSE AndThen(mark_directory_entry_deleted(d, s), LAMBDA u :
                  AndThen(mark_lfn_prefix_deleted(u, s), LAMBDA w : free_cluster_chain(w, e.first))))
delete_path(d, path) ==
    AndThen(resolve_parent_cluster(d, path, FALSE), LAMBDA e : DeleteIn(e, e.got, Leaf(path)))

StaleParentMutant(d, dir, parent) == d
update_dotdot(d, dir, parent) == write_raw_directory_slot(d, <<dir, 2>>, Entry("dir", "..", parent, 0))
path_is_descendant(old, new) == IsStrictPrefix(old, new)

\* The new entry, then the parent of a directory, then the old entry.  What
\* fails after the new entry was written takes it back; `wounded' if the
\* device refuses that too.
Move(d, old, new, r, used, from, to) ==
    LET e == At(d, old)
        copy == [e EXCEPT !.name = new]
        s == r.slots[used]
        undo(u) == rollback_long_directory_reservation(u, r, used)
        back(u) == IF e.kind = "dir" THEN Ignored(update_dotdot(undo(u), e.first, from)) ELSE undo(u)
        torn(u) == ~u.ok /\ (At(u, s) = copy \/ (e.kind = "dir" /\ u.slot[e.first][2].first # from))
    IN  AndThen(OrElse(write_raw_directory_slot(d, s, copy),
                       LAMBDA u : rollback_long_directory_reservation(u, r, IF used = 2 THEN 2 ELSE 0)), LAMBDA w :
        AndThen(Bind(IF e.kind = "dir" THEN OrElse(update_dotdot(w, e.first, to), undo) ELSE w,
                     LAMBDA u : [u EXCEPT !.wounded = @ \/ torn(u)]), LAMBDA m :
        AndThen(Bind(OrElse(mark_directory_entry_deleted(m, old), back),
                     LAMBDA u : [u EXCEPT !.wounded = @ \/ torn(u)]), LAMBDA x :
        mark_lfn_prefix_deleted(x, old))))

RenameTo(d, old, from, to, name) ==
    AndThen(IF name \in LongNames THEN generate_short_alias(d, to) ELSE Got(d, name), LAMBDA a :
    IF from = to /\ At(d, old).name = a.got THEN a
    ELSE IF find_existing_directory_slot(a, to, a.got) # None THEN Refused(a)
    ELSE IF name \in LongNames
    THEN AndThen(find_long_directory_slots(a, to, <<>>), LAMBDA r :
         AndThen(OrElse(write_raw_directory_slot(r, r.got.slots[1], Record(name, a.got)),
                        LAMBDA u : rollback_long_directory_reservation(u, r.got, 1)), LAMBDA n :
         Move(n, old, a.got, r.got, 2, from, to)))
    ELSE IF from = to
    THEN AndThen(write_raw_directory_slot(a, old, [At(d, old) EXCEPT !.name = name]),
                 LAMBDA e : mark_lfn_prefix_deleted(e, old))
    ELSE AndThen(find_directory_slot(a, to, name), LAMBDA r : Move(r, old, name, r.got, 1, from, to)))

rename_path(d, path, new) ==
    AndThen(resolve_parent_cluster(d, path, FALSE), LAMBDA from :
    Bind(find_in_directory_name(from, from.got, Leaf(path)), LAMBDA old :
    IF old = None \/ (At(from, old).kind = "dir" /\ path_is_descendant(path, new)) THEN Refused(from)
    ELSE AndThen(resolve_parent_cluster(from, new, FALSE), LAMBDA to :
         IF to.got = from.got /\ Leaf(path) = Leaf(new) THEN to
         ELSE RenameTo(to, old, from.got, to.got, Leaf(new)))))

-----------------------------------------------------------------------------
(* What a reader of the volume sees.                                       *)

Volume == [fat |-> fat, slot |-> slot]
MaxDepth == LastCluster

\* The entries of a directory other than the dots: where, and under which name.
Entries(v, dir) ==
    LET all == Positions(v.fat, dir)
    IN  {[name |-> DisplayName(v, all, i), entry |-> At(v, all[i]), in |-> dir, at |-> all[i]] :
            i \in {j \in Met(v, dir) : IsEntry(At(v, all[j])) /\ At(v, all[j]).name \notin {".", ".."}}}

\* Every entry below a directory, with its path.
RECURSIVE Below(_, _, _, _)
Below(v, dir, prefix, depth) ==
    IF depth = 0 THEN {}
    ELSE LET here == Entries(v, dir)
         IN  {[path |-> Append(prefix, x.name), entry |-> x.entry, in |-> dir, at |-> x.at] : x \in here}
             \cup UNION {Below(v, x.entry.first, Append(prefix, x.name), depth - 1) :
                            x \in {y \in here : y.entry.kind = "dir"}}
All(v) == Below(v, Root, <<>>, MaxDepth)

Content(v, e) == LET chain == Chain(v.fat, e.first) IN [i \in DOMAIN chain |-> v.slot[chain[i]][1]]
Tree(v) == {[path |-> x.path, kind |-> x.entry.kind,
             content |-> IF x.entry.kind = "file" THEN Content(v, x.entry) ELSE <<>>] : x \in All(v)}

Directories(t, path) ==
    {[path |-> SubSeq(path, 1, n), kind |-> "dir", content |-> <<>>] : n \in 1 .. Len(path)}
FileNode(call) ==
    [path |-> call.path, kind |-> "file",
     content |-> [i \in 1 .. call.size |-> [kind |-> "data", size |-> call.size]]]
Moved(x, old, new) == [x EXCEPT !.path = new \o SubSeq(@, Len(old) + 1, Len(@))]

\* The tree a successful call leaves.
Expected(t, call) ==
    CASE call.op = "create" ->
           {x \in t : x.path # call.path} \cup Directories(t, Front(call.path)) \cup {FileNode(call)}
      [] call.op = "mkdir" -> t \cup Directories(t, call.path)
      [] call.op = "delete" -> {x \in t : x.path # call.path}
      [] call.op = "rename" ->
           {IF IsPrefix(call.path, x.path) THEN Moved(x, call.path, call.new) ELSE x : x \in t}

\* A failed create or mkdir may have made some of the directories on its way.
Partial(t, call) ==
    IF call.op \notin {"create", "mkdir"} THEN {t}
    ELSE {t \cup Directories(t, SubSeq(call.path, 1, n)) : n \in 0 .. Len(call.path) - 1}

\* The checker's report: chains and directories it could follow, and what it counted.
RECURSIVE check_directory_tree(_, _, _)
check_directory_tree(v, dir, depth) ==
    LET here == Entries(v, dir)
        dirs == {x \in here : x.entry.kind = "dir"}
        below == {check_directory_tree(v, x.entry.first, depth - 1) : x \in dirs}
    IN  IF depth = 0 THEN {}
        ELSE {[at |-> x.at, valid |-> x.entry.first = 0 \/ Valid(v.fat, x.entry.first)] : x \in here} \cup UNION below
space_info(v) == Cardinality({c \in Clusters : v.fat[c] = 0})
check_volume(v) ==
    LET seen == check_directory_tree(v, Root, MaxDepth)
    IN  [clean |-> Valid(v.fat, Root) /\ \A x \in seen : x.valid, entries |-> Cardinality(seen), free |-> space_info(v)]

\* What the call may leave, given whether it succeeded.
Allowed(call, d) ==
    LET before == Tree(Volume)
        after == Tree(d)
    IN  IF d.ok THEN after = Expected(before, call)
        ELSE after \in Partial(before, call) \cup {Expected(before, call)}

\* After a successful create the path names the new content.
Found(call, d) ==
    (d.ok /\ call.op = "create") =>
        LET parent == resolve_parent_cluster(d, call.path, FALSE)
        IN  Content(d, At(d, find_in_directory_name(d, parent.got, Leaf(call.path)))) = FileNode(call).content

-----------------------------------------------------------------------------
(* A call, with the write that the device refuses if it does.              *)

\* A link to a freed cluster, a name that the rollback of a rename could not take back,
\* or a long record that stayed when its entry went (mark_lfn_prefix_deleted stops at the
\* start of the sector): the next entry in that slot would take its name.
Wounded(d) ==
    \/ d.wounded
    \/ \E dir \in {Root} \cup {x.entry.first : x \in {y \in All(d) : y.entry.kind = "dir"}} :
         LET all == Positions(d.fat, dir)
         IN  \E i \in DOMAIN all :
               /\ At(d, all[i]).kind = "long"
               /\ ~(i < Len(all) /\ IsEntry(At(d, all[i + 1])) /\ At(d, all[i + 1]).name = At(d, all[i]).of)

Present(path) ==
    LET d == Device(Never, FALSE, Root)
        parent == resolve_parent_cluster(d, path, FALSE)
    IN  parent.ok /\ find_in_directory_name(d, parent.got, Leaf(path)) # None

\* create_long_file_in_directory and the long branch of rename_path look for the alias
\* they made up and not for the name: a name in use gets a second entry, and a lookup
\* finds the first.
Doubled(call) ==
    LET target == IF call.op = "rename" THEN call.new ELSE call.path
    IN  /\ call.op = "create" \/ (call.op = "rename" /\ call.new # call.path)
        /\ Leaf(target) \in LongNames /\ Present(target)

Ends(call, d, faulty) ==
    /\ fat' = d.fat /\ slot' = d.slot
    /\ wounded' = (Wounded(d) \/ Doubled(call))
    /\ faults' = IF faulty THEN faults + 1 ELSE faults
    /\ amiss' = IF wounded' THEN amiss
                ELSE amiss \cup (IF Allowed(call, d) THEN {} ELSE {"tree"})
                           \cup (IF Found(call, d) THEN {} ELSE {"content"})

Runs(call, Op(_)) ==
    /\ ~wounded
    /\ \E hint \in Hints :
         \/ \E d \in {Op(Device(Never, FALSE, hint))} : Ends(call, d, FALSE)
         \/ /\ faults < MaxFaults
            /\ \E left \in 0 .. MaxWrites, dead \in BOOLEAN :
                 \E d \in {Op(Device(left, dead, hint))} : d.hit /\ Ends(call, d, TRUE)

CreateFile(path, size) ==
    Runs([op |-> "create", path |-> path, size |-> size],
         LAMBDA d : create_path_file(d, path, size))
MakeDirectory(path) == Runs([op |-> "mkdir", path |-> path], LAMBDA d : mkdir_path(d, path))
DeletePath(path) == Runs([op |-> "delete", path |-> path], LAMBDA d : delete_path(d, path))
RenamePath(path, new) ==
    Runs([op |-> "rename", path |-> path, new |-> new], LAMBDA d : rename_path(d, path, new))

FatNext ==
    \E path \in Paths :
       \/ \E size \in Sizes : CreateFile(path, size)
       \/ MakeDirectory(path)
       \/ DeletePath(path)
       \/ \E new \in Paths : RenamePath(path, new)

FatSpec == FatInit /\ [][FatNext]_fatVars

-----------------------------------------------------------------------------
(* Properties.                                                             *)

\* The FAT and the directories agree (create_file_in_directory, create_directory_in,
\* delete_path, rename_path and their rollbacks): the chains of the root and of every
\* entry end, share no cluster, and are as long as the entry says; a directory lists no
\* name twice, holds no file data, and its ".." names the directory it is in; check_volume
\* finds every entry and no fault; and while the device refused no write the clusters it
\* counts as free are all that no chain reaches.
VolumeSound ==
    wounded \/
    LET v == Volume
        all == All(v)
        firsts == {x.entry.first : x \in {y \in all : y.entry.first # 0}}
        clusters(c) == ToSet(Chain(fat, c))
        used == clusters(Root) \cup UNION {clusters(c) : c \in firsts}
    IN  /\ \A c \in firsts \cup {Root} : Valid(fat, c)
        /\ \A x, y \in all : (x.at # y.at /\ x.entry.first # 0) =>
                clusters(x.entry.first) \cap clusters(y.entry.first) = {}
        /\ \A c \in firsts : clusters(c) \cap clusters(Root) = {}
        /\ \A x \in all : x.entry.kind = "file" => Len(Chain(fat, x.entry.first)) = x.entry.size
        /\ \A x, y \in all : x.path = y.path => x.at = y.at
        /\ \A x \in all : x.entry.kind = "dir" =>
                /\ slot[x.entry.first][2].name = ".." /\ slot[x.entry.first][2].first = x.in
                /\ \A s \in ToSet(Positions(fat, x.entry.first)) : At(v, s).kind # "data"
        /\ check_volume(v).clean /\ check_volume(v).entries = Cardinality(all)
        /\ faults = 0 => Cardinality(used) + check_volume(v).free = Cardinality(Clusters)

\* A call that succeeds does to the tree what its name says, and one that fails leaves
\* the tree as it was, or changed as if it had succeeded, or with some of the parent
\* directories made (rollback_reserved_slot, rollback_long_directory_reservation and the
\* order of the writes in create_file_in_directory, delete_path and rename_path).
AllOrNothing == "tree" \notin amiss

\* A create that succeeds leaves the new content under its path, whether the path named
\* a file before or not (create_path_file).
CreatedIsFound == "content" \notin amiss
=============================================================================

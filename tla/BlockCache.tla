------------------------------ MODULE BlockCache ------------------------------
(***************************************************************************)
(* The write-back sector cache between the file systems and the disk       *)
(* (block_cache.rs, CachedDevice).  Every call runs under the owner's lock *)
(* (ata.rs keeps one cache of 64 entries behind PRIMARY) and is one action; *)
(* the disk may refuse any transfer, at any of a call's steps, and power   *)
(* may be lost between calls.                                              *)
(***************************************************************************)
EXTENDS Naturals

CONSTANTS Lbas, Values,
          N,           \* entries of the cache
          MaxAge       \* u64::MAX: an age saturates

ASSUME CacheAssumption == N \in Nat \ {0} /\ MaxAge \in Nat \ {0}

VARIABLES entries, disk, answer

cacheVars == <<entries, disk, answer>>

Index == 1 .. N
CacheEntry == [lba : Lbas, data : Values, valid : BOOLEAN, dirty : BOOLEAN, age : 0 .. MaxAge]

CacheTypeOK ==
    /\ entries \in [Index -> CacheEntry]
    /\ disk \in [Lbas -> Values]

Empty(e) == ~e.valid /\ ~e.dirty /\ e.age = 0

CacheInit ==
    /\ disk \in [Lbas -> Values]
    /\ \E l \in Lbas, v \in Values :
          entries = [i \in Index |-> [lba |-> l, data |-> v, valid |-> FALSE, dirty |-> FALSE, age |-> 0]]
    /\ answer = <<>>

-----------------------------------------------------------------------------
(* Helpers of the cache.                                                   *)

\* saturating_add(1).
Older(a) == IF a < MaxAge THEN a + 1 ELSE a

touch(es, index) ==
    [i \in Index |-> [es[i] EXCEPT !.age = IF i = index THEN 0 ELSE IF es[i].valid THEN Older(@) ELSE @]]

Holds(i, l) == entries[i].valid /\ entries[i].lba = l

\* find: the first entry that holds the sector.
find(l, index) == Holds(index, l) /\ \A i \in Index : Holds(i, l) => index <= i
Missing(l) == \A i \in Index : ~Holds(i, l)

\* The first free entry, or the oldest one (max_by_key takes the last of equals).
victim(index) ==
    IF \E i \in Index : ~entries[i].valid
    THEN ~entries[index].valid /\ \A i \in Index : ~entries[i].valid => index <= i
    ELSE \A i \in Index : \/ entries[i].age < entries[index].age
                          \/ entries[i].age = entries[index].age /\ i <= index

Pending(i) == entries[i].valid /\ entries[i].dirty

\* Mutant: the victim is replaced without writing it back.
NoWriteBackMutant(targets) == disk

\* write_back of some entries: each dirty one reaches the disk and is clean.
Written(targets) ==
    [l \in Lbas |-> IF \E i \in targets : Pending(i) /\ entries[i].lba = l
                    THEN entries[CHOOSE i \in targets : Pending(i) /\ entries[i].lba = l].data
                    ELSE disk[l]]
Cleaned(targets) ==
    [i \in Index |-> IF i \in targets THEN [entries[i] EXCEPT !.dirty = entries[i].dirty /\ ~entries[i].valid] ELSE entries[i]]

Loaded(es, index, l, v, d) ==
    touch([es EXCEPT ![index] = [lba |-> l, data |-> v, valid |-> TRUE, dirty |-> d, age |-> 0]], index)

-----------------------------------------------------------------------------
(* The calls.                                                              *)

\* read_sector, hit.
ReadHit(l, index) ==
    /\ find(l, index)
    /\ answer' = <<"read", entries[index].data>>
    /\ entries' = touch(entries, index)
    /\ UNCHANGED disk

\* read_sector, miss: the victim is written back, then the sector is read.
ReadMiss(l, index) ==
    /\ Missing(l) /\ victim(index)
    /\ disk' = Written({index})
    /\ answer' = <<"read", disk[l]>>
    /\ entries' = Loaded(entries, index, l, disk[l], FALSE)

\* The device refuses the read: the victim stays, already written back.
ReadRefused(l, index) ==
    /\ Missing(l) /\ victim(index)
    /\ disk' = Written({index})
    /\ entries' = Cleaned({index})
    /\ answer' = <<>>

\* write_sector: a miss installs the sector without reading it.
WriteHit(l, v, index) ==
    /\ find(l, index)
    /\ entries' = touch([entries EXCEPT ![index].data = v, ![index].dirty = TRUE], index)
    /\ answer' = <<"written">>
    /\ UNCHANGED disk

WriteMiss(l, v, index) ==
    /\ Missing(l) /\ victim(index)
    /\ disk' = Written({index})
    /\ entries' = Loaded(entries, index, l, v, TRUE)
    /\ answer' = <<"written">>

\* The device refuses the victim's write: neither call changes anything.
VictimRefused(l, index) ==
    /\ Missing(l) /\ victim(index) /\ Pending(index)
    /\ answer' = <<>>
    /\ UNCHANGED <<entries, disk>>

\* flush writes the entries back in order and stops at the first refusal, which may also
\* be that of the device's own flush.
flush ==
    /\ disk' = Written(Index)
    /\ entries' = Cleaned(Index)
    /\ answer' \in {<<"flushed">>, <<>>}

FlushRefused(index) ==
    /\ Pending(index)
    /\ disk' = Written(1 .. index - 1)
    /\ entries' = Cleaned(1 .. index - 1)
    /\ answer' = <<>>

\* Environment: the cache is volatile.
PowerLoss ==
    /\ entries' = [i \in Index |-> [entries[i] EXCEPT !.valid = FALSE, !.dirty = FALSE, !.age = 0]]
    /\ answer' = <<>>
    /\ UNCHANGED disk

CacheNext ==
    \/ \E l \in Lbas, index \in Index :
          \/ ReadHit(l, index) \/ ReadMiss(l, index) \/ ReadRefused(l, index)
          \/ VictimRefused(l, index)
          \/ \E v \in Values : WriteHit(l, v, index) \/ WriteMiss(l, v, index)
    \/ flush
    \/ \E index \in Index : FlushRefused(index)
    \/ PowerLoss

CacheSpec == CacheInit /\ [][CacheNext]_cacheVars

-----------------------------------------------------------------------------
(* Properties.                                                             *)

\* A sector is in one entry at most, and an entry that is not dirty agrees with the disk:
\* what eviction and flush rely on when they drop or skip it (load, write_back).
CacheCoherent ==
    /\ \A i, j \in Index : entries[i].valid /\ entries[j].valid /\ entries[i].lba = entries[j].lba => i = j
    /\ \A i \in Index : entries[i].valid /\ ~entries[i].dirty => entries[i].data = disk[entries[i].lba]

\* What a read of a sector answers.
Content ==
    [l \in Lbas |-> IF Missing(l) THEN disk[l] ELSE entries[CHOOSE i \in Index : Holds(i, l)].data]

Store == INSTANCE SectorStore WITH content <- Content

\* The cache is the store its users assume: reads see the last write whatever was evicted
\* or refused in between, a successful flush leaves everything on the disk, and power loss
\* takes back only what was not written (block_cache.rs:1-5).
ImplementsStore == Store!Spec
=============================================================================

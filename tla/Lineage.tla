------------------------------ MODULE Lineage ------------------------------
(***************************************************************************)
(* The registry of capability lineages (kernel/src/wovenguard.rs): a        *)
(* bounded table of delegation nodes named by a slot and a generation.      *)
(* Each operation of LineageRegistry runs under one lock, so it is an       *)
(* operator from a registry to a registry.  A registry is a function from   *)
(* slots to nodes.  The counter of live nodes is left out: it is the number *)
(* of active slots.  So is the refusal at 65535 children, which a table of  *)
(* 64 slots cannot reach.                                                   *)
(***************************************************************************)
EXTENDS Integers, FiniteSets

CONSTANTS
  MaxLineages,        \* MAX_CAPABILITY_LINEAGES
  GenerationModulus   \* LINEAGE_GENERATION_MASK + 1

ASSUME LineageAssumption ==
  MaxLineages \in Nat \ {0} /\ GenerationModulus \in Nat \ {0, 1}

LineageSlots == 1 .. MaxLineages

NoLineage == <<0, 0>>                               \* Option::None

EmptySlot ==
  [active |-> FALSE, gen |-> 1, parent |-> NoLineage, owner |-> 0,
   rights |-> {}, children |-> 0]

\* Mutant: a slot is reused in the generation it had.
SameGenerationMutant(g) == g

NextGeneration(g) ==
  IF (g + 1) % GenerationModulus = 0 THEN 1 ELSE (g + 1) % GenerationModulus

LineageIdOf(r, s) == <<s, r[s].gen>>

(* lookup_index: the slot is active and still in the generation of the id. *)
LiveLineage(r, id) ==
  id[1] \in LineageSlots /\ r[id[1]].active /\ r[id[1]].gen = id[2]

Authorizes(r, id, cap) == LiveLineage(r, id) /\ cap \in r[id[1]].rights

ActiveSlots(r) == {s \in LineageSlots : r[s].active}

FirstInactive(r) ==
  CHOOSE s \in LineageSlots \ ActiveSlots(r) :
    \A t \in LineageSlots \ ActiveSlots(r) : s <= t

CanAllocate(r, rights) == rights # {} /\ ActiveSlots(r) # LineageSlots

(* The id and the registry that allocate leaves.                           *)
AllocatedId(r) == LineageIdOf(r, FirstInactive(r))

Allocated(r, parent, owner, rights) ==
  [r EXCEPT ![FirstInactive(r)] =
     [active |-> TRUE, gen |-> @.gen, parent |-> parent, owner |-> owner,
      rights |-> rights, children |-> 0]]

(* derive: only the owner of a live parent, and never more rights.         *)
CanDerive(r, actor, parent, rights) ==
  /\ LiveLineage(r, parent)
  /\ r[parent[1]].owner = actor
  /\ rights \subseteq r[parent[1]].rights
  /\ CanAllocate(r, rights)

Derived(r, parent, newOwner, rights) ==
  LET q == Allocated(r, parent, newOwner, rights)
  IN  [q EXCEPT ![parent[1]].children = @ + 1]

ChildrenIn(r, s) ==
  {t \in ActiveSlots(r) : r[t].parent = LineageIdOf(r, s)}

(* The slots revoke_subtree marks: the target and everything below it.  The *)
(* code walks at most MAX_CAPABILITY_LINEAGES parents up from every active  *)
(* node, which reaches each of its ancestors; this is the least set that    *)
(* has the target and is closed under children.                             *)
Subtree(r, target) ==
  {s \in ActiveSlots(r) :
     \A C \in SUBSET ActiveSlots(r) :
       (target[1] \in C /\ \A t \in C : ChildrenIn(r, t) \subseteq C) => s \in C}

(* clear_for_reuse for every marked slot; a surviving parent loses one      *)
(* child for each marked child.                                             *)
ClearedSlot(n) == [EmptySlot EXCEPT !.gen = NextGeneration(n.gen)]

\* Mutant: a surviving parent's counter keeps the children that went.
KeepCountsMutant(r, gone) ==
  [s \in LineageSlots |-> IF s \in gone THEN ClearedSlot(r[s]) ELSE r[s]]

Cleared(r, gone) ==
  [s \in LineageSlots |->
     IF s \in gone THEN ClearedSlot(r[s])
     ELSE [r[s] EXCEPT !.children = @ - Cardinality(ChildrenIn(r, s) \cap gone)]]

(* The owners revoke_subtree accepts: of the target or of an ancestor.     *)
OwnersAbove(r, target) ==
  {r[s].owner : s \in {a \in ActiveSlots(r) :
                         target[1] \in Subtree(r, LineageIdOf(r, a))}}

RevokedSubtree(r, actor, target) ==
  IF LiveLineage(r, target) /\ actor \in OwnersAbove(r, target)
  THEN Cleared(r, Subtree(r, target)) ELSE r

(* The controller acts with the authority of the target's owner.           *)
RevokedByController(r, target) ==
  IF LiveLineage(r, target)
  THEN RevokedSubtree(r, r[target[1]].owner, target) ELSE r

(* release: a leaf, by its owner.                                          *)
CanRelease(r, actor, id) ==
  LiveLineage(r, id) /\ r[id[1]].owner = actor /\ r[id[1]].children = 0

Released(r, id) == Cleared(r, {id[1]})

(* The loop over the nodes an owner has, each with its subtree.            *)
RevokedAllOwned(r, owner) ==
  Cleared(r, UNION {Subtree(r, LineageIdOf(r, s)) :
                      s \in {t \in ActiveSlots(r) : r[t].owner = owner}})

(* What every user of the registry relies on.  A live node's parent is live *)
(* and has at least its rights, so recalling a node leaves nothing usable   *)
(* below it; and the child counter, which alone keeps release from freeing  *)
(* a parent, is exact.                                                      *)
WellFormed(r) ==
  \A s \in ActiveSlots(r) :
    /\ r[s].rights # {}
    /\ r[s].parent # NoLineage =>
         /\ LiveLineage(r, r[s].parent)
         /\ r[s].rights \subseteq r[r[s].parent[1]].rights
    /\ r[s].children = Cardinality(ChildrenIn(r, s))
=============================================================================

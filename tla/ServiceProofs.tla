--------------------------- MODULE ServiceProofs ----------------------------
(***************************************************************************)
(* Proofs about the tables whose entries are named by a slot and a         *)
(* generation: the capability layer first, then the thread registry; and   *)
(* at the end about the record queue of a completion port.                 *)
(*                                                                         *)
(* The capability layer, for any number of lineages, tasks, capabilities   *)
(* and domains: a delegation has a live parent with its rights, an exact   *)
(* child counter and an owner that is present, and no task acts above the  *)
(* ceiling of its domain.                                                  *)
(*                                                                         *)
(* The registry's operations are shown one by one to keep a well-formed    *)
(* registry well formed.  Allocation takes an inactive slot, which no live *)
(* node can have for a parent; what a revocation clears is closed under    *)
(* children, so no survivor loses its parent, and a surviving parent's     *)
(* counter falls by exactly the children that went.                        *)
(***************************************************************************)
EXTENDS Authority, Threads, CompletionQueue, FiniteSetTheorems,
        WellFoundedInduction, TLAPS

AuthorityConstants ==
    /\ KernelTask \in TaskIds
    /\ Kernel \in Domains /\ SystemService \in Domains
    /\ User \in Domains /\ Restricted \in Domains
    /\ Ceiling \in [Domains -> SUBSET Caps]

Node == [active : BOOLEAN, gen : Nat, parent : Nat \X Nat, owner : TaskIds \cup {0},
         rights : SUBSET Caps, children : Int]

Registry == [LineageSlots -> Node]

\* A set of nodes that has every child of each of its members.
Closed(r, gone) ==
    gone \subseteq ActiveSlots(r) /\ \A s \in gone : ChildrenIn(r, s) \subseteq gone

\* A node has finitely many children.
LEMMA SlotsFinite ==
    ASSUME NEW r, NEW s
    PROVE  IsFiniteSet(ChildrenIn(r, s))
<1>1. IsFiniteSet(LineageSlots)
  BY LineageAssumption, FS_Interval DEF LineageSlots
<1>2. ChildrenIn(r, s) \in SUBSET LineageSlots
  BY DEF ChildrenIn, ActiveSlots
<1> QED BY <1>1, <1>2, FS_Subset

\* allocate takes the first slot that is not active.
LEMMA FirstSlot ==
    ASSUME NEW r, ActiveSlots(r) # LineageSlots
    PROVE  FirstInactive(r) \in LineageSlots /\ ~r[FirstInactive(r)].active
<1> DEFINE F == LineageSlots \ ActiveSlots(r)
<1>1. F \in SUBSET Nat /\ F # {}
  BY LineageAssumption DEF LineageSlots, ActiveSlots
<1> HIDE DEF F
<1>2. \E x \in F : \A y \in F : ~(<<y, x>> \in OpToRel(<, Nat))
  BY <1>1, NatLessThanWellFounded, WFMin
<1>3. \A x, y \in Nat : y < x => <<y, x>> \in OpToRel(<, Nat)
  BY Zenon DEF OpToRel
<1>4. PICK x \in F : \A y \in F : ~(y < x)
  BY <1>1, <1>2, <1>3, Zenon
<1>5. \A y \in F : x <= y
  BY <1>1, <1>4
<1>6. FirstInactive(r) \in F
  BY <1>5 DEF FirstInactive, F
<1> QED BY <1>6 DEF F, ActiveSlots

\* A live node never has an inactive slot for a parent.
LEMMA NoOrphans ==
    ASSUME NEW r \in Registry, WellFormed(r), NEW n \in LineageSlots, ~r[n].active
    PROVE  ChildrenIn(r, n) = {}
<1>1. ASSUME NEW t \in ActiveSlots(r), r[t].parent = <<n, r[n].gen>> PROVE FALSE
  <2>1. r[t].parent # NoLineage
    BY <1>1, LineageAssumption DEF LineageSlots, NoLineage
  <2>2. LiveLineage(r, r[t].parent)
    BY <2>1 DEF WellFormed
  <2> QED BY <1>1, <2>2 DEF LiveLineage
<1> QED BY <1>1 DEF ChildrenIn, LineageIdOf

\* A registry that differs from a well-formed one only in a slot it activates.
LEMMA Activation ==
    ASSUME NEW r \in Registry, WellFormed(r), NEW q \in Registry,
           NEW n \in LineageSlots, ~r[n].active,
           NEW parent \in Nat \X Nat,
           parent = NoLineage \/ LiveLineage(r, parent),
           q[n].active, q[n].gen = r[n].gen, q[n].parent = parent, q[n].children = 0,
           q[n].rights # {},
           parent # NoLineage => q[n].rights \subseteq r[parent[1]].rights,
           \A s \in LineageSlots \ {n} :
              /\ q[s].active = r[s].active /\ q[s].gen = r[s].gen
              /\ q[s].parent = r[s].parent /\ q[s].rights = r[s].rights
              /\ q[s].children = r[s].children + (IF parent # NoLineage /\ s = parent[1] THEN 1 ELSE 0)
    PROVE  WellFormed(q)
<1>1. ActiveSlots(q) = ActiveSlots(r) \cup {n} /\ n \notin ActiveSlots(r)
  BY DEF ActiveSlots
<1>2. ASSUME NEW id, LiveLineage(r, id) PROVE LiveLineage(q, id) /\ id[1] # n
  BY <1>2 DEF LiveLineage
<1>3. ASSUME NEW s \in ActiveSlots(q)
      PROVE  /\ q[s].rights # {}
             /\ q[s].parent # NoLineage =>
                  /\ LiveLineage(q, q[s].parent)
                  /\ q[s].rights \subseteq q[q[s].parent[1]].rights
  <2>1. CASE s = n
    <3>1. parent # NoLineage => LiveLineage(q, parent) /\ parent[1] # n /\ parent[1] \in LineageSlots
      BY <1>2 DEF LiveLineage
    <3> QED BY <2>1, <3>1
  <2>2. CASE s # n
    <3>1. s \in ActiveSlots(r) /\ s \in LineageSlots
      BY <1>1, <2>2 DEF ActiveSlots
    <3>2. /\ r[s].rights # {}
          /\ r[s].parent # NoLineage => /\ LiveLineage(r, r[s].parent)
                                        /\ r[s].rights \subseteq r[r[s].parent[1]].rights
      BY <3>1 DEF WellFormed
    <3>3. r[s].parent # NoLineage =>
            /\ LiveLineage(q, r[s].parent) /\ r[s].parent[1] # n /\ r[s].parent[1] \in LineageSlots
      BY <1>2, <3>2 DEF LiveLineage
    <3> QED BY <2>2, <3>1, <3>2, <3>3
  <2> QED BY <2>1, <2>2
<1>4. \A s \in LineageSlots : LineageIdOf(q, s) = LineageIdOf(r, s)
  BY DEF LineageIdOf
<1>5. \A t \in ActiveSlots(r) : q[t].parent = r[t].parent
  BY <1>1 DEF ActiveSlots
<1>6. ASSUME NEW s \in LineageSlots
      PROVE  ChildrenIn(q, s) = IF parent = LineageIdOf(r, s) THEN ChildrenIn(r, s) \cup {n}
                                ELSE ChildrenIn(r, s)
  BY <1>1, <1>4, <1>5 DEF ChildrenIn
<1>7. ASSUME NEW s \in ActiveSlots(q)
      PROVE  q[s].children = Cardinality(ChildrenIn(q, s))
  <2>0. s \in LineageSlots
    BY <1>7 DEF ActiveSlots
  <2>1. CASE s = n
    <3>1. ChildrenIn(r, n) = {}
      BY NoOrphans
    <3>2. parent # LineageIdOf(r, n)
      <4>1. LineageIdOf(r, n) # NoLineage
        BY LineageAssumption DEF LineageIdOf, NoLineage, LineageSlots
      <4>2. LineageIdOf(r, n)[1] = n
        BY DEF LineageIdOf
      <4> QED BY <1>2, <4>1, <4>2
    <3> QED BY Zenon, <1>6, <2>1, <3>1, <3>2, FS_EmptySet
  <2>2. CASE s # n /\ parent = LineageIdOf(r, s)
    <3>1. parent[1] = s /\ parent # NoLineage
      BY <2>0, <2>2, LineageAssumption DEF LineageIdOf, NoLineage, LineageSlots
    <3>2. n \notin ChildrenIn(r, s)
      BY <1>1 DEF ChildrenIn
    <3>3. Cardinality(ChildrenIn(q, s)) = Cardinality(ChildrenIn(r, s)) + 1
      BY <1>6, <2>0, <2>2, <3>2, SlotsFinite, FS_AddElement
    <3>4. r[s].children = Cardinality(ChildrenIn(r, s))
      BY <1>1, <2>2 DEF WellFormed
    <3> QED BY <2>0, <2>2, <3>1, <3>3, <3>4
  <2>3. CASE s # n /\ parent # LineageIdOf(r, s)
    <3>1. parent # NoLineage => parent[1] # s
      BY <2>3 DEF LiveLineage, LineageIdOf
    <3>2. r[s].children = Cardinality(ChildrenIn(r, s))
      BY <1>1, <2>3 DEF WellFormed
    <3>3. q[s].children = r[s].children + 0 /\ r[s].children \in Int
      BY <2>0, <2>3, <3>1 DEF Registry, Node
    <3> QED BY <1>6, <2>0, <2>3, <3>2, <3>3
  <2> QED BY <2>1, <2>2, <2>3
<1> QED BY <1>3, <1>7 DEF WellFormed

\* Storing a child counter.
LEMMA CounterStored ==
    ASSUME NEW e \in Node, NEW k \in Int
    PROVE  LET f == [e EXCEPT !.children = k]
           IN  /\ f \in Node /\ f.active = e.active /\ f.gen = e.gen
               /\ f.parent = e.parent /\ f.owner = e.owner /\ f.rights = e.rights
               /\ f.children = k
  BY DEF Node

\* allocate for a root, and for a child whose parent is live.
LEMMA AllocatedNode ==
    ASSUME NEW r \in Registry, NEW parent \in Nat \X Nat, NEW owner \in TaskIds,
           NEW rights \in SUBSET Caps, ActiveSlots(r) # LineageSlots
    PROVE  LET q == Allocated(r, parent, owner, rights)
               n == FirstInactive(r)
           IN  /\ q \in Registry /\ q[n].active /\ q[n].gen = r[n].gen
               /\ q[n].parent = parent /\ q[n].owner = owner /\ q[n].rights = rights
               /\ q[n].children = 0
               /\ \A s \in LineageSlots \ {n} : q[s] = r[s]
<1> DEFINE n == FirstInactive(r)
           e == [active |-> TRUE, gen |-> r[n].gen, parent |-> parent, owner |-> owner,
                 rights |-> rights, children |-> 0]
           q == Allocated(r, parent, owner, rights)
<1>1. n \in LineageSlots
  BY FirstSlot
<1>2. e \in Node
  BY <1>1 DEF Node, Registry
<1>3. q = [r EXCEPT ![n] = e]
  BY DEF Allocated
<1>4. /\ e.active /\ e.gen = r[n].gen /\ e.parent = parent /\ e.owner = owner
      /\ e.rights = rights /\ e.children = 0
  OBVIOUS
<1> HIDE DEF n, e, q
<1>5. q \in Registry /\ q[n] = e /\ \A s \in LineageSlots \ {n} : q[s] = r[s]
  BY <1>1, <1>2, <1>3 DEF Registry
<1> QED BY <1>4, <1>5 DEF n, q

\* allocate without a parent: a new root, and nothing else changes.
LEMMA RootIssued ==
    ASSUME NEW r \in Registry, WellFormed(r), NEW owner \in TaskIds,
           NEW rights \in SUBSET Caps, CanAllocate(r, rights)
    PROVE  /\ Allocated(r, NoLineage, owner, rights) \in Registry
           /\ WellFormed(Allocated(r, NoLineage, owner, rights))
           /\ \A s \in LineageSlots \ {FirstInactive(r)} :
                 Allocated(r, NoLineage, owner, rights)[s] = r[s]
           /\ Allocated(r, NoLineage, owner, rights)[FirstInactive(r)].owner = owner
<1> DEFINE q == Allocated(r, NoLineage, owner, rights)
           n == FirstInactive(r)
<1>1. NoLineage \in Nat \X Nat
  BY DEF NoLineage
<1>2. n \in LineageSlots /\ ~r[n].active /\ rights # {}
  BY FirstSlot DEF CanAllocate
<1>3. /\ q \in Registry /\ q[n].active /\ q[n].gen = r[n].gen
      /\ q[n].parent = NoLineage /\ q[n].owner = owner /\ q[n].rights = rights /\ q[n].children = 0
      /\ \A s \in LineageSlots \ {n} : q[s] = r[s]
  BY <1>1, AllocatedNode DEF CanAllocate
<1>4. \A s \in LineageSlots : r[s].children \in Int
  BY DEF Registry, Node
<1> HIDE DEF q, n
<1>5. \A s \in LineageSlots \ {n} : q[s].children = r[s].children + (IF NoLineage # NoLineage /\ s = NoLineage[1] THEN 1 ELSE 0)
  BY <1>3, <1>4
<1>6. WellFormed(q)
  BY <1>1, <1>2, <1>3, <1>5, Activation
<1> QED BY <1>3, <1>6 DEF q, n

\* derive: a child below its parent, whose counter alone changes.
LEMMA ChildDerived ==
    ASSUME NEW r \in Registry, WellFormed(r), NEW parent \in Nat \X Nat, NEW actor,
           NEW owner \in TaskIds, NEW rights \in SUBSET Caps,
           CanDerive(r, actor, parent, rights)
    PROVE  /\ Derived(r, parent, owner, rights) \in Registry
           /\ WellFormed(Derived(r, parent, owner, rights))
           /\ \A s \in LineageSlots \ {FirstInactive(r)} :
                 /\ Derived(r, parent, owner, rights)[s].active = r[s].active
                 /\ Derived(r, parent, owner, rights)[s].owner = r[s].owner
                 /\ Derived(r, parent, owner, rights)[s].gen = r[s].gen
                 /\ Derived(r, parent, owner, rights)[s].rights = r[s].rights
           /\ LET e == Derived(r, parent, owner, rights)[FirstInactive(r)]
              IN  e.owner = owner /\ e.active /\ e.gen = r[FirstInactive(r)].gen /\ e.rights = rights
<1> DEFINE a == Allocated(r, parent, owner, rights)
           q == Derived(r, parent, owner, rights)
           n == FirstInactive(r)
           p == parent[1]
<1>1. /\ LiveLineage(r, parent) /\ rights \subseteq r[p].rights /\ rights # {}
      /\ ActiveSlots(r) # LineageSlots
  BY DEF CanDerive, CanAllocate
<1>2. n \in LineageSlots /\ ~r[n].active
  BY <1>1, FirstSlot
<1>3. p \in LineageSlots /\ p # n
  BY <1>1, <1>2 DEF LiveLineage
<1>4. /\ a \in Registry /\ a[n].active /\ a[n].gen = r[n].gen
      /\ a[n].parent = parent /\ a[n].owner = owner /\ a[n].rights = rights /\ a[n].children = 0
      /\ \A s \in LineageSlots \ {n} : a[s] = r[s]
  BY <1>1, AllocatedNode
<1>5. q = [a EXCEPT ![p].children = @ + 1]
  BY DEF Derived
<1> HIDE DEF a, q, n, p
<1>6. a[p] \in Node /\ a[p] = r[p] /\ r[p].children \in Int
  BY <1>3, <1>4 DEF Registry, Node
<1>7. /\ q \in Registry
      /\ q[p].active = r[p].active /\ q[p].gen = r[p].gen /\ q[p].parent = r[p].parent
      /\ q[p].owner = r[p].owner /\ q[p].rights = r[p].rights /\ q[p].children = r[p].children + 1
      /\ \A s \in LineageSlots \ {p} : q[s] = a[s]
  <2> DEFINE e == [a[p] EXCEPT !.children = a[p].children + 1]
  <2>1. a[p].children + 1 \in Int
    BY <1>6
  <2>2. /\ e \in Node /\ e.active = r[p].active /\ e.gen = r[p].gen /\ e.parent = r[p].parent
        /\ e.owner = r[p].owner /\ e.rights = r[p].rights /\ e.children = r[p].children + 1
    BY <1>6, <2>1, CounterStored
  <2>3. q = [a EXCEPT ![p] = e]
    BY <1>5
  <2> HIDE DEF e
  <2>4. q \in Registry /\ q[p] = e /\ \A s \in LineageSlots \ {p} : q[s] = a[s]
    BY <1>3, <1>4, <2>2, <2>3 DEF Registry
  <2> QED BY <2>2, <2>4
<1>8. parent # NoLineage
  BY <1>3, LineageAssumption DEF p, NoLineage, LineageSlots
<1>9. q[n] = a[n]
  BY <1>2, <1>3, <1>7
<1>10. \A s \in LineageSlots : r[s].children \in Int
  BY DEF Registry, Node
<1>11. ASSUME NEW s \in LineageSlots \ {n}
       PROVE  /\ q[s].active = r[s].active /\ q[s].gen = r[s].gen
              /\ q[s].parent = r[s].parent /\ q[s].rights = r[s].rights /\ q[s].owner = r[s].owner
              /\ q[s].children = r[s].children + (IF parent # NoLineage /\ s = parent[1] THEN 1 ELSE 0)
  <2>1. CASE s = p
    BY <1>7, <1>8, <2>1 DEF p
  <2>2. CASE s # p
    BY <1>4, <1>7, <1>10, <2>2 DEF p
  <2> QED BY <2>1, <2>2
<1>12. WellFormed(q)
  BY <1>1, <1>2, <1>4, <1>7, <1>8, <1>9, <1>11, Activation DEF p
<1> QED BY <1>4, <1>7, <1>9, <1>11, <1>12 DEF q, n

\* Clearing a set of nodes that is closed under children.
LEMMA ClearedNodes ==
    ASSUME NEW r \in Registry, WellFormed(r), NEW gone, Closed(r, gone)
    PROVE  /\ Cleared(r, gone) \in Registry
           /\ WellFormed(Cleared(r, gone))
           /\ ActiveSlots(Cleared(r, gone)) = ActiveSlots(r) \ gone
           /\ \A s \in ActiveSlots(r) \ gone : Cleared(r, gone)[s].owner = r[s].owner
           /\ \A s \in LineageSlots \ gone : /\ Cleared(r, gone)[s].gen = r[s].gen
                                            /\ Cleared(r, gone)[s].rights = r[s].rights
<1> DEFINE q == Cleared(r, gone)
           went(s) == Cardinality(ChildrenIn(r, s) \cap gone)
<1>1. ASSUME NEW s \in LineageSlots PROVE went(s) \in Nat
  BY Zenon, SlotsFinite, FS_Intersection, FS_CardinalityType
<1>2. ASSUME NEW s \in LineageSlots
      PROVE  ClearedSlot(r[s]) \in Node /\ ClearedSlot(r[s]).active = FALSE
  <2>1. r[s].gen \in Nat
    BY DEF Registry, Node
  <2>2. NextGeneration(r[s].gen) \in Nat
    <3>1. \A x \in Nat : x % GenerationModulus \in 0 .. GenerationModulus - 1
      BY LineageAssumption, Z3
    <3>2. \A x \in Nat : x % GenerationModulus \in Nat
      BY <3>1, LineageAssumption
    <3>3. r[s].gen + 1 \in Nat
      BY <2>1
    <3> QED BY <3>2, <3>3 DEF NextGeneration
  <2>3. EmptySlot \in Node /\ EmptySlot.active = FALSE
    <3>1. NoLineage \in Nat \X Nat
      BY DEF NoLineage
    <3> QED BY <3>1 DEF EmptySlot, Node
  <2> DEFINE g == NextGeneration(r[s].gen)
  <2>4. ClearedSlot(r[s]) = [EmptySlot EXCEPT !.gen = g]
    BY DEF ClearedSlot
  <2> HIDE DEF g
  <2> QED BY <2>2, <2>3, <2>4 DEF Node, g
<1> HIDE DEF went
<1>3. ASSUME NEW s \in LineageSlots
      PROVE  LET e == [r[s] EXCEPT !.children = @ - went(s)]
             IN  /\ e \in Node /\ e.active = r[s].active /\ e.gen = r[s].gen
                 /\ e.parent = r[s].parent /\ e.owner = r[s].owner /\ e.rights = r[s].rights
                 /\ e.children = r[s].children - went(s)
  <2>1. r[s] \in Node /\ r[s].children - went(s) \in Int
    BY <1>1 DEF Registry, Node
  <2> QED BY <2>1, CounterStored
<1>4. q = [s \in LineageSlots |-> IF s \in gone THEN ClearedSlot(r[s])
                                  ELSE [r[s] EXCEPT !.children = @ - went(s)]]
  BY DEF Cleared, went
<1> HIDE DEF q
<1>5. q \in Registry
  BY Zenon, <1>2, <1>3, <1>4 DEF Registry
<1>6. ASSUME NEW s \in LineageSlots, s \notin gone
      PROVE  /\ q[s].active = r[s].active /\ q[s].gen = r[s].gen
             /\ q[s].parent = r[s].parent /\ q[s].owner = r[s].owner /\ q[s].rights = r[s].rights
             /\ q[s].children = r[s].children - went(s)
  BY Zenon, <1>3, <1>4, <1>6
<1>7. ActiveSlots(q) = ActiveSlots(r) \ gone
  BY Zenon, <1>2, <1>4, <1>6 DEF ActiveSlots
<1>8. ASSUME NEW s \in ActiveSlots(q)
      PROVE  /\ q[s].rights # {}
             /\ q[s].parent # NoLineage =>
                  /\ LiveLineage(q, q[s].parent)
                  /\ q[s].rights \subseteq q[q[s].parent[1]].rights
  <2>1. s \in ActiveSlots(r) /\ s \in LineageSlots /\ s \notin gone
    BY <1>7 DEF ActiveSlots
  <2>2. /\ r[s].rights # {}
        /\ r[s].parent # NoLineage => /\ LiveLineage(r, r[s].parent)
                                      /\ r[s].rights \subseteq r[r[s].parent[1]].rights
    BY <2>1 DEF WellFormed
  <2>3. ASSUME r[s].parent # NoLineage
        PROVE  r[s].parent[1] \in LineageSlots /\ r[s].parent[1] \notin gone
    <3>1. LiveLineage(r, r[s].parent) /\ r[s].parent \in Nat \X Nat
      BY <2>1, <2>2, <2>3 DEF Registry, Node
    <3>2. r[s].parent[1] \in LineageSlots /\ r[s].parent = LineageIdOf(r, r[s].parent[1])
      BY <3>1 DEF LiveLineage, LineageIdOf
    <3>3. s \in ChildrenIn(r, r[s].parent[1])
      BY <2>1, <3>2 DEF ChildrenIn
    <3> QED BY <2>1, <3>2, <3>3 DEF Closed
  <2> QED BY <1>6, <2>1, <2>2, <2>3 DEF LiveLineage
<1>9. ASSUME NEW s \in ActiveSlots(q)
      PROVE  q[s].children = Cardinality(ChildrenIn(q, s))
  <2>1. s \in ActiveSlots(r) /\ s \in LineageSlots /\ s \notin gone
    BY <1>7 DEF ActiveSlots
  <2>2. LineageIdOf(q, s) = LineageIdOf(r, s)
    BY <1>6, <2>1 DEF LineageIdOf
  <2>3. \A t \in ActiveSlots(q) : q[t].parent = r[t].parent
    BY <1>6, <1>7 DEF ActiveSlots
  <2>4. ChildrenIn(q, s) = ChildrenIn(r, s) \ gone
    BY <1>7, <2>2, <2>3 DEF ChildrenIn
  <2>5. Cardinality(ChildrenIn(q, s)) = Cardinality(ChildrenIn(r, s)) - went(s)
    BY Zenon, <2>4, SlotsFinite, FS_Difference DEF went
  <2>6. r[s].children = Cardinality(ChildrenIn(r, s))
    BY <2>1 DEF WellFormed
  <2> QED BY <1>6, <2>1, <2>5, <2>6
<1>10. WellFormed(q)
  BY <1>8, <1>9 DEF WellFormed
<1>11. \A s \in ActiveSlots(r) \ gone : q[s].owner = r[s].owner
  BY <1>6 DEF ActiveSlots
<1>12. \A s \in LineageSlots \ gone : q[s].gen = r[s].gen /\ q[s].rights = r[s].rights
  BY <1>6
<1> QED BY <1>5, <1>7, <1>10, <1>11, <1>12 DEF q

\* What revoke_subtree marks is closed, and holds the target.
LEMMA SubtreeClosed ==
    ASSUME NEW r, NEW target
    PROVE  Closed(r, Subtree(r, target))
<1>1. ASSUME NEW s \in Subtree(r, target), NEW t \in ChildrenIn(r, s) PROVE t \in Subtree(r, target)
  BY <1>1 DEF Subtree, ChildrenIn
<1> QED BY <1>1 DEF Closed, Subtree

\* A union of subtrees is closed under children.
LEMMA SubtreesClosed ==
    ASSUME NEW r, NEW T
    PROVE  Closed(r, UNION {Subtree(r, LineageIdOf(r, s)) : s \in T})
  BY SubtreeClosed DEF Closed

\* A live node is in its own subtree.
LEMMA TargetMarked ==
    ASSUME NEW r, NEW s \in ActiveSlots(r)
    PROVE  s \in Subtree(r, LineageIdOf(r, s))
  BY DEF Subtree, LineageIdOf

\* release: a node with a zero counter has no children.
LEMMA LeafClosed ==
    ASSUME NEW r, WellFormed(r), NEW actor, NEW id, CanRelease(r, actor, id)
    PROVE  Closed(r, {id[1]})
<1>1. id[1] \in ActiveSlots(r) /\ r[id[1]].children = 0
  BY DEF CanRelease, LiveLineage, ActiveSlots
<1>2. Cardinality(ChildrenIn(r, id[1])) = 0
  BY <1>1 DEF WellFormed
<1>3. ChildrenIn(r, id[1]) = {}
  BY <1>2, SlotsFinite, FS_EmptySet
<1> QED BY <1>1, <1>3 DEF Closed

-----------------------------------------------------------------------------
(* The invariant of the capability layer.                                  *)

Task == [state : {"unborn", "forming", "live", "dead", "gone"}, caps : SUBSET Caps,
         lin : [Caps -> Nat \X Nat], domain : Domains, profile : SUBSET Caps, by : TaskIds]

OwnersIn(r) == \A s \in ActiveSlots(r) : r[s].owner \in TaskIds /\ Present(r[s].owner)

AuthInv ==
    /\ tasks \in [TaskIds -> Task] /\ lineages \in Registry
    /\ WellFormed(lineages) /\ OwnersIn(lineages)
    /\ \A t \in TaskIds : ValidFor(tasks[t].profile, tasks[t].domain)

\* Two task tables that differ in capability bits and bindings alone.
SameTasks(T, U) ==
    \A t \in TaskIds : /\ U[t].state = T[t].state /\ U[t].domain = T[t].domain
                       /\ U[t].profile = T[t].profile

\* The id of the node that is about to be allocated.
LEMMA IdTyped ==
    ASSUME NEW r \in Registry, ActiveSlots(r) # LineageSlots
    PROVE  AllocatedId(r) \in Nat \X Nat
<1>1. FirstInactive(r) \in Nat /\ r[FirstInactive(r)].gen \in Nat
  BY FirstSlot, LineageAssumption DEF LineageSlots, Registry, Node
<1> QED BY <1>1 DEF AllocatedId, LineageIdOf

\* Storing bits and a binding of one task.
LEMMA BindingStored ==
    ASSUME NEW T \in [TaskIds -> Task], NEW t \in TaskIds, NEW c \in Caps,
           NEW id \in Nat \X Nat, NEW bits \in SUBSET Caps
    PROVE  LET U == [T EXCEPT ![t].caps = bits, ![t].lin[c] = id]
               V == [T EXCEPT ![t].lin[c] = id]
           IN  /\ U \in [TaskIds -> Task] /\ SameTasks(T, U)
               /\ V \in [TaskIds -> Task] /\ SameTasks(T, V)
<1> DEFINE lin == [T[t].lin EXCEPT ![c] = id]
           e == [T[t] EXCEPT !.caps = bits, !.lin = lin]
           f == [T[t] EXCEPT !.lin = lin]
           U == [T EXCEPT ![t].caps = bits, ![t].lin[c] = id]
           V == [T EXCEPT ![t].lin[c] = id]
<1>1. T[t] \in Task
  OBVIOUS
<1>2. lin \in [Caps -> Nat \X Nat]
  BY <1>1 DEF Task
<1>3. U = [T EXCEPT ![t] = e] /\ V = [T EXCEPT ![t] = f]
  BY Zenon
<1> HIDE DEF lin
<1>4. /\ e \in Task /\ e.state = T[t].state /\ e.domain = T[t].domain /\ e.profile = T[t].profile
      /\ f \in Task /\ f.state = T[t].state /\ f.domain = T[t].domain /\ f.profile = T[t].profile
  BY Zenon, <1>1, <1>2 DEF Task
<1> HIDE DEF e, f, U, V
<1>5. /\ U \in [TaskIds -> Task] /\ U[t] = e /\ \A u \in TaskIds \ {t} : U[u] = T[u]
      /\ V \in [TaskIds -> Task] /\ V[t] = f /\ \A u \in TaskIds \ {t} : V[u] = T[u]
  BY <1>3, <1>4
<1>6. SameTasks(T, U) /\ SameTasks(T, V)
  BY <1>4, <1>5 DEF SameTasks
<1> QED BY <1>5, <1>6 DEF U, V

\* The kernel task alone, and no lineage.
LEMMA AuthStart ==
    ASSUME AuthorityConstants, AuthInit
    PROVE  AuthInv
<1>1. NoLineage \in Nat \X Nat
  BY DEF NoLineage
<1>2. NoBindings \in [Caps -> Nat \X Nat]
  BY <1>1 DEF NoBindings
<1>3. EmptyTask \in Task /\ EmptyTask.profile = Ceiling[EmptyTask.domain]
  BY <1>2 DEF EmptyTask, Task, AuthorityConstants
<1>4. /\ NewTask(Kernel, Ceiling[Kernel], Ceiling[Kernel]) \in Task
      /\ NewTask(Kernel, Ceiling[Kernel], Ceiling[Kernel]).profile = Ceiling[Kernel]
      /\ NewTask(Kernel, Ceiling[Kernel], Ceiling[Kernel]).domain = Kernel
  BY <1>2 DEF NewTask, Task, AuthorityConstants
<1>5. /\ tasks \in [TaskIds -> Task]
      /\ \A t \in TaskIds : ValidFor(tasks[t].profile, tasks[t].domain)
  BY <1>3, <1>4 DEF AuthInit, ValidFor
<1>6. EmptySlot \in Node /\ EmptySlot.active = FALSE
  BY <1>1 DEF EmptySlot, Node
<1>7. lineages \in Registry /\ ActiveSlots(lineages) = {}
  BY <1>6 DEF AuthInit, Registry, ActiveSlots
<1> QED BY <1>5, <1>7 DEF AuthInv, WellFormed, OwnersIn

\* What a step that keeps states, domains and profiles has to show.
LEMMA StepKeeps ==
    ASSUME AuthInv, tasks' \in [TaskIds -> Task], SameTasks(tasks, tasks'),
           lineages' \in Registry, WellFormed(lineages'), OwnersIn(lineages')
    PROVE  AuthInv'
<1>1. \A t \in TaskIds : Present(t)' <=> Present(t)
  BY DEF Present, SameTasks
<1>2. \A t \in TaskIds : ValidFor(tasks[t].profile, tasks[t].domain)'
  BY DEF AuthInv, ValidFor, SameTasks
<1>3. WellFormed(lineages)'
  BY Zenon DEF WellFormed, LiveLineage, ActiveSlots, ChildrenIn, LineageIdOf
<1>4. OwnersIn(lineages)'
  BY <1>1 DEF OwnersIn, ActiveSlots
<1> QED BY <1>2, <1>3, <1>4 DEF AuthInv

\* The end of a grant: the target gets the capability with a node below the giver's.
LEMMA Delegates ==
    ASSUME AuthInv, NEW a \in TaskIds, NEW t \in TaskIds, NEW c \in Caps, Present(t),
           NEW reg \in Registry, WellFormed(reg), OwnersIn(reg),
           NEW parent \in Nat \X Nat,
           NEW bound \in [TaskIds -> Task], SameTasks(tasks, bound),
           DelegateFrom(a, t, c, reg, parent, bound)
    PROVE  AuthInv'
<1>1. CASE ~CanDerive(reg, a, parent, {c})
  <2>1. lineages' = reg /\ tasks' = bound
    BY <1>1 DEF DelegateFrom
  <2> QED BY <2>1, StepKeeps
<1>2. CASE CanDerive(reg, a, parent, {c})
  <2> DEFINE q == Derived(reg, parent, t, {c})
             n == FirstInactive(reg)
  <2>1. lineages' = q /\ tasks' = [bound EXCEPT ![t].caps = @ \cup {c}, ![t].lin[c] = AllocatedId(reg)]
    BY <1>2 DEF DelegateFrom
  <2>2. ActiveSlots(reg) # LineageSlots
    BY <1>2 DEF CanDerive, CanAllocate
  <2>3. AllocatedId(reg) \in Nat \X Nat /\ bound[t].caps \cup {c} \in SUBSET Caps
    BY <2>2, IdTyped DEF Task
  <2>4. tasks' \in [TaskIds -> Task] /\ SameTasks(bound, tasks')
    BY Zenon, <2>1, <2>3, BindingStored
  <2>5. SameTasks(tasks, tasks')
    BY <2>4 DEF SameTasks
  <2>6. /\ q \in Registry /\ WellFormed(q) /\ q[n].owner = t
        /\ \A s \in LineageSlots \ {n} : q[s].active = reg[s].active /\ q[s].owner = reg[s].owner
    <3> DEFINE rights == {c}
    <3>1. rights \in SUBSET Caps /\ CanDerive(reg, a, parent, rights)
      BY Zenon, <1>2
    <3> HIDE DEF rights
    <3>2. /\ Derived(reg, parent, t, rights) \in Registry
          /\ WellFormed(Derived(reg, parent, t, rights))
          /\ \A s \in LineageSlots \ {FirstInactive(reg)} :
                /\ Derived(reg, parent, t, rights)[s].active = reg[s].active
                /\ Derived(reg, parent, t, rights)[s].owner = reg[s].owner
          /\ Derived(reg, parent, t, rights)[FirstInactive(reg)].owner = t
      BY <3>1, ChildDerived
    <3>3. q = Derived(reg, parent, t, rights)
      BY DEF rights
    <3> QED BY Zenon, <3>2, <3>3
  <2> HIDE DEF q, n
  <2>7. OwnersIn(q)
    BY <2>6 DEF OwnersIn, ActiveSlots
  <2> QED BY <2>1, <2>4, <2>5, <2>6, <2>7, StepKeeps
<1> QED BY <1>1, <1>2

\* A grant, with a root issued first to a giver that has none.
LEMMA Grants ==
    ASSUME AuthInv, NEW a \in TaskIds, NEW t \in TaskIds, NEW c \in Caps, Grant(a, t, c)
    PROVE  AuthInv'
<1>1. SameTasks(tasks, tasks) /\ Present(t) /\ Present(a)
  BY DEF SameTasks, Grant, Running, Present
<1>2. tasks[a].lin[c] \in Nat \X Nat
  BY Zenon DEF AuthInv, Task
<1>3. CASE DelegateFrom(a, t, c, lineages, tasks[a].lin[c], tasks)
  BY Zenon, <1>1, <1>2, <1>3, Delegates DEF AuthInv
<1>4. CASE /\ CanAllocate(lineages, {c})
           /\ DelegateFrom(a, t, c, Allocated(lineages, NoLineage, a, {c}), AllocatedId(lineages),
                           [tasks EXCEPT ![a].lin[c] = AllocatedId(lineages)])
  <2> DEFINE reg == Allocated(lineages, NoLineage, a, {c})
             n == FirstInactive(lineages)
             bound == [tasks EXCEPT ![a].lin[c] = AllocatedId(lineages)]
  <2>1. /\ reg \in Registry /\ WellFormed(reg) /\ reg[n].owner = a
        /\ \A s \in LineageSlots \ {n} : reg[s] = lineages[s]
    <3>1. {c} \in SUBSET Caps
      OBVIOUS
    <3> QED BY Zenon, <1>4, <3>1, RootIssued DEF AuthInv
  <2>2. AllocatedId(lineages) \in Nat \X Nat
    BY <1>4, IdTyped DEF AuthInv, CanAllocate
  <2>3. bound \in [TaskIds -> Task] /\ SameTasks(tasks, bound)
    BY Zenon, <2>2, BindingStored DEF AuthInv
  <2>4. DelegateFrom(a, t, c, reg, AllocatedId(lineages), bound)
    BY <1>4
  <2> HIDE DEF reg, n, bound
  <2>5. OwnersIn(reg)
    BY <1>1, <2>1 DEF OwnersIn, ActiveSlots, AuthInv
  <2> QED BY <1>1, <2>1, <2>2, <2>3, <2>4, <2>5, Delegates
<1> QED BY <1>3, <1>4 DEF Grant

\* A step that clears a closed set of nodes and keeps the states of tasks.
LEMMA Clears ==
    ASSUME AuthInv, NEW r \in Registry, WellFormed(r), OwnersIn(r), NEW gone, Closed(r, gone)
    PROVE  LET q == Cleared(r, gone)
           IN  q \in Registry /\ WellFormed(q) /\ OwnersIn(q)
<1> DEFINE q == Cleared(r, gone)
<1>1. /\ q \in Registry /\ WellFormed(q) /\ ActiveSlots(q) = ActiveSlots(r) \ gone
      /\ \A s \in ActiveSlots(r) \ gone : q[s].owner = r[s].owner
  BY ClearedNodes
<1> HIDE DEF q
<1>2. OwnersIn(q)
  BY <1>1 DEF OwnersIn
<1> QED BY <1>1, <1>2 DEF q

\* A revocation clears a subtree and the bits that were bound to it.
LEMMA Revokes ==
    ASSUME AuthInv, NEW a \in TaskIds, NEW t \in TaskIds, NEW c \in Caps, Revoke(a, t, c)
    PROVE  AuthInv'
<1> DEFINE id == tasks[t].lin[c]
           after == RevokedByController(lineages, id)
           parent == IF LiveLineage(lineages, id) THEN lineages[id[1]].parent ELSE NoLineage
           release == /\ parent # NoLineage
                      /\ CanRelease(after, a, parent)
                      /\ after[parent[1]].parent = NoLineage
           mine == IF release /\ tasks[a].lin[c] = parent
                   THEN [tasks EXCEPT ![a].lin[c] = NoLineage] ELSE tasks
<1>1. /\ lineages' = IF release THEN Released(after, parent) ELSE after
      /\ tasks' = [mine EXCEPT ![t].caps = @ \ {c}, ![t].lin[c] = NoLineage]
  BY Zenon DEF Revoke
<1>2. after \in Registry /\ WellFormed(after) /\ OwnersIn(after)
  <2>1. after = lineages \/ after = Cleared(lineages, Subtree(lineages, id))
    BY DEF RevokedByController, RevokedSubtree
  <2>2. Closed(lineages, Subtree(lineages, id))
    BY SubtreeClosed
  <2> HIDE DEF after, id
  <2> QED BY Zenon, <2>1, <2>2, Clears DEF AuthInv
<1>3. NoLineage \in Nat \X Nat
  BY DEF NoLineage
<1>4. mine \in [TaskIds -> Task] /\ SameTasks(tasks, mine)
  <2>1. SameTasks(tasks, tasks)
    BY DEF SameTasks
  <2>2. /\ [tasks EXCEPT ![a].lin[c] = NoLineage] \in [TaskIds -> Task]
        /\ SameTasks(tasks, [tasks EXCEPT ![a].lin[c] = NoLineage])
    BY Zenon, <1>3, BindingStored DEF AuthInv
  <2> HIDE DEF release, parent
  <2>3. tasks \in [TaskIds -> Task]
    BY DEF AuthInv
  <2> QED BY <2>1, <2>2, <2>3
<1>5. lineages' \in Registry /\ WellFormed(lineages') /\ OwnersIn(lineages')
  <2> HIDE DEF after, parent
  <2>1. CASE release
    <3>1. Closed(after, {parent[1]})
      BY <1>2, <2>1, LeafClosed
    <3>2. lineages' = Cleared(after, {parent[1]})
      BY Zenon, <1>1, <2>1 DEF Released
    <3> QED BY <1>2, <3>1, <3>2, Clears
  <2>2. CASE ~release
    BY <1>1, <1>2, <2>2
  <2> QED BY <2>1, <2>2
<1> HIDE DEF mine
<1>6. tasks' \in [TaskIds -> Task] /\ SameTasks(mine, tasks')
  <2>1. mine[t].caps \ {c} \in SUBSET Caps
    BY <1>4 DEF Task
  <2> QED BY Zenon, <1>1, <1>3, <1>4, <2>1, BindingStored
<1>7. SameTasks(tasks, tasks')
  BY <1>4, <1>6 DEF SameTasks
<1> QED BY <1>5, <1>6, <1>7, StepKeeps

\* A profile only takes capabilities away.
LEMMA Binds ==
    ASSUME AuthInv, NEW a \in TaskIds, NEW t \in TaskIds, NEW profile \in SUBSET Caps,
           BindSandboxProfile(a, t, profile)
    PROVE  AuthInv'
<1> DEFINE lin == [c \in Caps |-> IF c \in profile THEN tasks[t].lin[c] ELSE NoLineage]
           caps == tasks[t].caps \cap profile
           e == [tasks[t] EXCEPT !.caps = caps, !.lin = lin, !.profile = profile]
<1>1. tasks[t] \in Task /\ tasks \in [TaskIds -> Task]
  BY DEF AuthInv
<1>2. lin \in [Caps -> Nat \X Nat] /\ caps \in SUBSET Caps
  BY <1>1 DEF Task, NoLineage
<1>3. tasks' = [tasks EXCEPT ![t] = e]
  BY Zenon, <1>1 DEF BindSandboxProfile
<1> HIDE DEF lin, caps
<1>4. /\ e \in Task /\ e.state = tasks[t].state /\ e.domain = tasks[t].domain
      /\ e.profile = profile
  BY Zenon, <1>1, <1>2 DEF Task
<1> HIDE DEF e
<1>5. /\ tasks' \in [TaskIds -> Task] /\ tasks'[t] = e
      /\ \A u \in TaskIds \ {t} : tasks'[u] = tasks[u]
  BY <1>1, <1>3, <1>4
<1>6. \A u \in TaskIds : Present(u)' <=> Present(u)
  BY <1>4, <1>5 DEF Present
<1>7. profile \subseteq Ceiling[tasks[t].domain]
  BY Zenon DEF BindSandboxProfile, AuthorizeSandboxBind, ValidFor
<1>8. \A u \in TaskIds : ValidFor(tasks[u].profile, tasks[u].domain)'
  BY <1>4, <1>5, <1>7 DEF AuthInv, ValidFor
<1>9. lineages' \in Registry /\ WellFormed(lineages') /\ OwnersIn(lineages')
  <2>1. lineages' = Cleared(lineages, UNION {Subtree(lineages, LineageIdOf(lineages, s)) : s \in BoundAbove(t, profile)})
    BY Zenon DEF BindSandboxProfile
  <2> QED BY <2>1, SubtreesClosed, Clears DEF AuthInv
<1>10. WellFormed(lineages)'
  BY Zenon, <1>9 DEF WellFormed, LiveLineage, ActiveSlots, ChildrenIn, LineageIdOf
<1>11. OwnersIn(lineages)'
  BY <1>6, <1>9 DEF OwnersIn, ActiveSlots
<1> QED BY <1>5, <1>8, <1>9, <1>10, <1>11 DEF AuthInv

\* Spawn, a fork and Exit leave the registry alone.
LEMMA TaskStored ==
    ASSUME AuthInv, NEW t \in TaskIds, NEW e \in Task, lineages' = lineages,
           tasks' = [tasks EXCEPT ![t] = e],
           Present(t) => e.state \in {"live", "dead"},
           ValidFor(e.profile, e.domain)
    PROVE  AuthInv'
<1>1. /\ tasks' \in [TaskIds -> Task] /\ tasks'[t] = e
      /\ \A u \in TaskIds \ {t} : tasks'[u] = tasks[u]
  BY DEF AuthInv
<1>2. \A u \in TaskIds : Present(u) => Present(u)'
  BY <1>1 DEF Present
<1>3. \A u \in TaskIds : ValidFor(tasks[u].profile, tasks[u].domain)'
  BY <1>1 DEF AuthInv, ValidFor
<1>4. WellFormed(lineages)'
  BY Zenon DEF AuthInv, WellFormed, LiveLineage, ActiveSlots, ChildrenIn, LineageIdOf
<1>5. OwnersIn(lineages)'
  BY <1>2 DEF AuthInv, OwnersIn, ActiveSlots
<1> QED BY <1>1, <1>3, <1>4, <1>5 DEF AuthInv

\* A task is created with no lineage and at most its domain's ceiling.
LEMMA Spawns ==
    ASSUME AuthorityConstants, AuthInv, NEW t \in TaskIds, Spawn(t)
    PROVE  AuthInv'
<1>1. ~Present(t) /\ lineages' = lineages
  BY DEF Spawn, NextId, Present
<1>2. NoBindings \in [Caps -> Nat \X Nat]
  BY DEF NoBindings, NoLineage
<1>3. ASSUME NEW d \in Domains, NEW caps \in SUBSET Caps, NEW profile \in SUBSET Ceiling[d],
             tasks' = [tasks EXCEPT ![t] = NewTask(d, caps, profile)]
      PROVE  AuthInv'
  <2>1. /\ NewTask(d, caps, profile) \in Task
        /\ NewTask(d, caps, profile).domain = d /\ NewTask(d, caps, profile).profile = profile
    BY <1>2 DEF NewTask, Task, AuthorityConstants
  <2> QED BY Zenon, <1>1, <1>3, <2>1, TaskStored DEF ValidFor
<1>4. Ceiling[SystemService] \in SUBSET Caps /\ Ceiling[User] \in SUBSET Caps
  BY DEF AuthorityConstants
<1> QED BY <1>3, <1>4 DEF Spawn, AuthorityConstants

\* Reaping frees the slot after the subtrees of its lineages are gone.
LEMMA Reaps ==
    ASSUME AuthorityConstants, AuthInv, NEW t \in TaskIds, ReapDead(t)
    PROVE  AuthInv'
<1> DEFINE owned == {s \in ActiveSlots(lineages) : lineages[s].owner = t}
           gone == UNION {Subtree(lineages, LineageIdOf(lineages, s)) : s \in owned}
           e == [EmptyTask EXCEPT !.state = "gone"]
           q == Cleared(lineages, gone)
<1>1. lineages' = q /\ tasks' = [tasks EXCEPT ![t] = e]
  BY DEF ReapDead, RevokedAllOwned
<1>2. Closed(lineages, gone)
  BY Zenon, SubtreesClosed
<1>3. \A s \in ActiveSlots(lineages) : lineages[s].owner = t => s \in gone
  BY TargetMarked
<1>4. e \in Task /\ e.profile = Ceiling[e.domain]
  <2>1. NoBindings \in [Caps -> Nat \X Nat]
    BY DEF NoBindings, NoLineage
  <2> QED BY <2>1 DEF EmptyTask, Task, AuthorityConstants
<1> HIDE DEF e, gone
<1>5. /\ tasks' \in [TaskIds -> Task] /\ tasks'[t] = e
      /\ \A u \in TaskIds \ {t} : tasks'[u] = tasks[u]
  BY <1>1, <1>4 DEF AuthInv
<1>6. \A u \in TaskIds : ValidFor(tasks[u].profile, tasks[u].domain)'
  BY <1>4, <1>5 DEF AuthInv, ValidFor
<1>7. /\ q \in Registry /\ WellFormed(q) /\ ActiveSlots(q) = ActiveSlots(lineages) \ gone
      /\ \A s \in ActiveSlots(lineages) \ gone : q[s].owner = lineages[s].owner
  BY <1>2, ClearedNodes DEF AuthInv
<1> HIDE DEF q
<1>8. \A u \in TaskIds \ {t} : Present(u) => tasks'[u].state \in {"live", "dead"}
  BY Zenon, <1>5 DEF Present
<1>9. ASSUME NEW s \in ActiveSlots(q) PROVE q[s].owner \in TaskIds /\ tasks'[q[s].owner].state \in {"live", "dead"}
  <2>1. s \in ActiveSlots(lineages) /\ q[s].owner = lineages[s].owner /\ lineages[s].owner # t
    BY <1>3, <1>7
  <2> QED BY <1>8, <2>1 DEF AuthInv, OwnersIn
<1>10. OwnersIn(lineages)'
  BY <1>1, <1>9 DEF OwnersIn, ActiveSlots, Present
<1>11. WellFormed(lineages)'
  BY Zenon, <1>1, <1>7 DEF WellFormed, LiveLineage, ActiveSlots, ChildrenIn, LineageIdOf
<1> QED BY <1>1, <1>5, <1>6, <1>7, <1>10, <1>11 DEF AuthInv

\* Every operation keeps the invariant.
LEMMA AuthStep ==
    ASSUME AuthorityConstants, AuthInv, [AuthNext]_authVars
    PROVE  AuthInv'
<1>1. ASSUME NEW p \in TaskIds, NEW t \in TaskIds, BeginFork(p, t) PROVE AuthInv'
  <2> DEFINE e == [tasks[p] EXCEPT !.state = "forming", !.by = p]
  <2>1. tasks[p] \in Task /\ ValidFor(tasks[p].profile, tasks[p].domain) /\ ~Present(t)
    BY <1>1 DEF BeginFork, NextId, Present, AuthInv
  <2>2. e \in Task /\ e.profile = tasks[p].profile /\ e.domain = tasks[p].domain
    BY <2>1 DEF Task
  <2>3. tasks' = [tasks EXCEPT ![t] = e] /\ lineages' = lineages
    BY <1>1 DEF BeginFork
  <2> HIDE DEF e
  <2> QED BY Zenon, <2>1, <2>2, <2>3, TaskStored
<1>4. ASSUME NEW t \in TaskIds, FinishFork(t) PROVE AuthInv'
  <2> DEFINE e == [tasks[t] EXCEPT !.state = "live", !.by = KernelTask]
  <2>1. tasks[t] \in Task /\ ValidFor(tasks[t].profile, tasks[t].domain) /\ KernelTask \in TaskIds
    BY DEF AuthInv, AuthorityConstants
  <2>2. e \in Task /\ e.state = "live" /\ e.profile = tasks[t].profile /\ e.domain = tasks[t].domain
    BY <2>1 DEF Task
  <2>3. tasks' = [tasks EXCEPT ![t] = e] /\ lineages' = lineages
    BY <1>4 DEF FinishFork
  <2> HIDE DEF e
  <2> QED BY Zenon, <2>1, <2>2, <2>3, TaskStored
<1>5. ASSUME NEW t \in TaskIds, ForkFails(t) PROVE AuthInv'
  <2>1. NoBindings \in [Caps -> Nat \X Nat]
    BY DEF NoBindings, NoLineage
  <2>2. EmptyTask \in Task /\ ValidFor(EmptyTask.profile, EmptyTask.domain)
    BY <2>1 DEF EmptyTask, Task, ValidFor, AuthorityConstants
  <2>3. tasks' = [tasks EXCEPT ![t] = EmptyTask] /\ lineages' = lineages /\ ~Present(t)
    BY <1>5 DEF ForkFails, Present
  <2> QED BY Zenon, <2>2, <2>3, TaskStored
<1>2. ASSUME NEW t \in TaskIds, Exit(t) PROVE AuthInv'
  <2> DEFINE e == [tasks[t] EXCEPT !.state = "dead"]
  <2>1. tasks[t] \in Task /\ Present(t) /\ ValidFor(tasks[t].profile, tasks[t].domain)
    BY <1>2 DEF Exit, Present, AuthInv
  <2>2. e \in Task /\ e.state = "dead" /\ e.profile = tasks[t].profile /\ e.domain = tasks[t].domain
    BY <2>1 DEF Task
  <2>3. tasks' = [tasks EXCEPT ![t] = e] /\ lineages' = lineages
    BY <1>2 DEF Exit
  <2> HIDE DEF e
  <2> QED BY Zenon, <2>1, <2>2, <2>3, TaskStored
<1>3. CASE UNCHANGED authVars
  <2>1. SameTasks(tasks, tasks')
    BY <1>3 DEF authVars, SameTasks
  <2> QED BY <1>3, <2>1, StepKeeps DEF authVars, AuthInv
<1> QED BY <1>1, <1>2, <1>3, <1>4, <1>5, Grants, Revokes, Binds, Spawns, Reaps DEF AuthNext

\* grant, revoke, bind_sandbox_profile and reap_dead: a recorded delegation has a
\* live parent with at least its rights, the exact number of its children and an owner
\* that is present; a task acts only under the ceiling of its domain.
THEOREM AuthorityAlwaysBounded ==
    ASSUME AuthorityConstants
    PROVE  AuthSpec => []AuthorityBounded
<1>1. AuthInit => AuthInv
  BY AuthStart
<1>2. AuthInv /\ [AuthNext]_authVars => AuthInv'
  BY AuthStep
<1>3. AuthInv => LineageTree
  BY DEF AuthInv, OwnersIn, LineageTree
<1>4. AuthInv => CeilingsHold
  BY DEF AuthInv, CeilingsHold, ValidFor, Effective
<1>5. AuthInv => AuthorityBounded
  BY <1>3, <1>4 DEF AuthorityBounded
<1> QED BY <1>1, <1>2, <1>5, PTL DEF AuthSpec

-----------------------------------------------------------------------------
(* No step brings back a capability that nobody holds.  The generation of a *)
(* lineage slot has 24 bits and wraps (LINEAGE_GENERATION_MASK); until it    *)
(* does, a binding is either of the slot's present node, which then has the *)
(* capability, or of an earlier generation, which no later node repeats.    *)

NoWrap ==
    \A s \in LineageSlots :
      lineages[s].active /\ ~lineages'[s].active => lineages[s].gen < lineages'[s].gen

Current(r, b, c) ==
    b # NoLineage =>
      /\ b[1] \in LineageSlots /\ b[2] <= r[b[1]].gen
      /\ b[2] = r[b[1]].gen => r[b[1]].active /\ c \in r[b[1]].rights

DelegInv ==
    /\ AuthInv
    /\ \A t \in TaskIds, c \in Caps : Current(lineages, tasks[t].lin[c], c)
    /\ \A t \in TaskIds : tasks[t].caps \subseteq tasks[t].profile

\* Registries before and after nodes were added, and before and after some went.
Grew(r, q) ==
    \A s \in LineageSlots :
      q[s].gen = r[s].gen /\ (r[s].active => q[s].active /\ q[s].rights = r[s].rights)

Shrunk(r, q) ==
    \A s \in LineageSlots :
      /\ q[s].active => r[s].active
      /\ q[s].active \/ ~r[s].active => q[s].gen = r[s].gen /\ q[s].rights = r[s].rights

Advances(r, q) ==
    \A s \in LineageSlots :
      /\ ~r[s].active => q[s].gen = r[s].gen
      /\ r[s].active /\ q[s].active => q[s].gen = r[s].gen /\ q[s].rights = r[s].rights
      /\ r[s].active /\ ~q[s].active => r[s].gen < q[s].gen

\* A binding that is current stays current and is not widened as nodes come and go.
LEMMA BindingKept ==
    ASSUME NEW r \in Registry, NEW q \in Registry, Advances(r, q),
           NEW b \in Nat \X Nat, NEW c, Current(r, b, c), b # NoLineage
    PROVE  Current(q, b, c) /\ (Authorizes(q, b, c) => Authorizes(r, b, c))
<1> DEFINE s == b[1]
<1>1. s \in LineageSlots /\ b[2] \in Nat /\ b[2] <= r[s].gen
  BY DEF Current
<1>2. r[s].gen \in Nat /\ q[s].gen \in Nat /\ r[s].active \in BOOLEAN /\ q[s].active \in BOOLEAN
  BY <1>1 DEF Registry, Node
<1>3. /\ ~r[s].active => q[s].gen = r[s].gen
      /\ r[s].active /\ q[s].active => q[s].gen = r[s].gen /\ q[s].rights = r[s].rights
      /\ r[s].active /\ ~q[s].active => r[s].gen < q[s].gen
  BY <1>1 DEF Advances
<1>4. b[2] = r[s].gen => r[s].active /\ c \in r[s].rights
  BY DEF Current
<1> HIDE DEF s
<1>5. b[2] <= q[s].gen
  BY <1>1, <1>2, <1>3
<1>6. b[2] = q[s].gen => r[s].active /\ q[s].active /\ r[s].gen = b[2] /\ q[s].rights = r[s].rights
  BY SMTT(30), <1>1, <1>2, <1>3, <1>4
<1> QED BY <1>1, <1>4, <1>5, <1>6 DEF Current, Authorizes, LiveLineage, s

\* A task's bit that the step does not set, with a binding it does not store or drops.
Quiet(t, c) ==
    \/ c \notin tasks'[t].caps /\ tasks'[t].lin[c] = NoLineage
    \/ /\ tasks'[t].lin[c] = tasks[t].lin[c]
       /\ c \in tasks'[t].caps => c \in tasks[t].caps

Granted(t, c) ==
    \/ Effective(t, c) \/ ~Present(t)
    \/ \E a \in TaskIds : Running(a) /\ Effective(a, c) /\ Effective(a, TaskControl)

\* A step that leaves bindings alone or grants one, as OnlyDelegated asks.
LEMMA StepDelegates ==
    ASSUME DelegInv, AuthInv', Advances(lineages, lineages'),
           \A t \in TaskIds : tasks'[t].caps \subseteq tasks'[t].profile,
           \A t \in TaskIds, c \in Caps :
              \/ Quiet(t, c)
              \/ Current(lineages', tasks'[t].lin[c], c) /\ Granted(t, c)
    PROVE  DelegInv' /\ OnlyDelegated
<1>1. lineages \in Registry /\ lineages' \in Registry
  BY DEF DelegInv, AuthInv
<1>2. ASSUME NEW t \in TaskIds, NEW c \in Caps
      PROVE  Current(lineages', tasks'[t].lin[c], c) /\ (Effective(t, c)' => Granted(t, c))
  <2>1. CASE c \notin tasks'[t].caps /\ tasks'[t].lin[c] = NoLineage
    BY <2>1 DEF Current, Effective
  <2>2. CASE /\ tasks'[t].lin[c] = tasks[t].lin[c]
             /\ c \in tasks'[t].caps => c \in tasks[t].caps
    <3> DEFINE b == tasks[t].lin[c]
    <3>1. b \in Nat \X Nat /\ Current(lineages, b, c)
      BY Zenon DEF DelegInv, AuthInv, Task
    <3>2. c \in tasks[t].caps => c \in tasks[t].profile
      BY DEF DelegInv
    <3>3. CASE b = NoLineage
      BY Zenon, <2>2, <3>2, <3>3 DEF Current, Effective, Granted
    <3>4. CASE b # NoLineage
      <4>1. Current(lineages', b, c) /\ (Authorizes(lineages', b, c) => Authorizes(lineages, b, c))
        BY Zenon, <1>1, <3>1, <3>4, BindingKept
      <4>2. Effective(t, c)' => c \in tasks'[t].caps /\ Authorizes(lineages', b, c)
        BY Zenon, <2>2, <3>4 DEF Effective, Authorizes, LiveLineage
      <4>3. Effective(t, c)' => Effective(t, c)
        BY Zenon, <2>2, <3>2, <4>1, <4>2 DEF Effective
      <4> QED BY Zenon, <2>2, <4>1, <4>3 DEF Granted
    <3> QED BY <3>3, <3>4
  <2> QED BY Zenon, <2>1, <2>2 DEF Quiet
<1>3. OnlyDelegated
  BY ZenonT(30), <1>2 DEF OnlyDelegated, Granted
<1>4. \A t \in TaskIds, c \in Caps : Current(lineages, tasks[t].lin[c], c)'
  BY <1>2 DEF Current
<1> QED BY Zenon, <1>3, <1>4 DEF DelegInv

\* A registry that gained a node has advanced.
LEMMA GrewAdvances ==
    ASSUME NEW r, NEW q, Grew(r, q)
    PROVE  Advances(r, q)
  BY DEF Grew, Advances

\* A registry that lost nodes has advanced, unless a generation wrapped.
LEMMA ShrunkAdvances ==
    ASSUME Shrunk(lineages, lineages'), NoWrap
    PROVE  Advances(lineages, lineages')
  BY DEF Shrunk, Advances, NoWrap

\* Clearing a closed set of nodes only takes nodes away.
LEMMA ClearedShrinks ==
    ASSUME NEW r \in Registry, WellFormed(r), NEW gone, Closed(r, gone)
    PROVE  Shrunk(r, Cleared(r, gone))
<1> DEFINE q == Cleared(r, gone)
<1>1. /\ ActiveSlots(q) = ActiveSlots(r) \ gone
      /\ \A s \in LineageSlots \ gone : q[s].gen = r[s].gen /\ q[s].rights = r[s].rights
  BY ClearedNodes
<1> HIDE DEF q
<1>2. gone \subseteq ActiveSlots(r)
  BY DEF Closed
<1>3. Shrunk(r, q)
  BY <1>1, <1>2 DEF Shrunk, ActiveSlots
<1> QED BY <1>3 DEF q

\* allocate adds a node, and its id is current for its capability.
LEMMA AllocatedGrows ==
    ASSUME NEW r \in Registry, NEW parent \in Nat \X Nat, NEW owner \in TaskIds,
           NEW c \in Caps, ActiveSlots(r) # LineageSlots
    PROVE  /\ Grew(r, Allocated(r, parent, owner, {c}))
           /\ Current(Allocated(r, parent, owner, {c}), AllocatedId(r), c)
<1> DEFINE rights == {c}
           q == Allocated(r, parent, owner, rights)
           n == FirstInactive(r)
<1>1. rights \in SUBSET Caps /\ c \in rights
  OBVIOUS
<1> HIDE DEF rights
<1>2. /\ q \in Registry /\ q[n].active /\ q[n].gen = r[n].gen /\ q[n].rights = rights
      /\ \A s \in LineageSlots \ {n} : q[s] = r[s]
  BY <1>1, AllocatedNode
<1>3. n \in LineageSlots /\ ~r[n].active
  BY FirstSlot
<1>4. AllocatedId(r) = <<n, r[n].gen>> /\ r[n].gen \in Nat
  BY <1>3 DEF AllocatedId, LineageIdOf, Registry, Node
<1> HIDE DEF q, n
<1>5. Grew(r, q)
  BY <1>2, <1>3 DEF Grew
<1>6. Current(q, AllocatedId(r), c)
  BY SMTT(30), <1>1, <1>2, <1>3, <1>4 DEF Current
<1> QED BY <1>5, <1>6 DEF q, rights

\* derive adds a node, and its id is current for its capability.
LEMMA DerivedGrows ==
    ASSUME NEW r \in Registry, WellFormed(r), NEW parent \in Nat \X Nat, NEW actor,
           NEW owner \in TaskIds, NEW c \in Caps, CanDerive(r, actor, parent, {c})
    PROVE  /\ Grew(r, Derived(r, parent, owner, {c}))
           /\ Current(Derived(r, parent, owner, {c}), AllocatedId(r), c)
           /\ Derived(r, parent, owner, {c}) \in Registry
<1> DEFINE rights == {c}
           q == Derived(r, parent, owner, rights)
           n == FirstInactive(r)
<1>1. rights \in SUBSET Caps /\ c \in rights /\ CanDerive(r, actor, parent, rights)
  BY Zenon
<1> HIDE DEF rights
<1>2. /\ q \in Registry /\ q[n].active /\ q[n].gen = r[n].gen /\ q[n].rights = rights
      /\ \A s \in LineageSlots \ {n} :
            q[s].active = r[s].active /\ q[s].gen = r[s].gen /\ q[s].rights = r[s].rights
  BY SMTT(30), <1>1, ChildDerived
<1>3. n \in LineageSlots /\ ~r[n].active
  BY <1>1, FirstSlot DEF CanDerive, CanAllocate
<1>4. AllocatedId(r) = <<n, r[n].gen>> /\ r[n].gen \in Nat
  BY <1>3 DEF AllocatedId, LineageIdOf, Registry, Node
<1> HIDE DEF q, n
<1>5. Grew(r, q)
  BY Zenon, <1>2, <1>3 DEF Grew
<1>6. Current(q, AllocatedId(r), c)
  BY SMTT(30), <1>1, <1>2, <1>3, <1>4 DEF Current
<1> QED BY <1>2, <1>5, <1>6 DEF q, rights

\* grant: the target's bit and binding, and the binding of an actor made a root's owner.
LEMMA DelegatesTo ==
    ASSUME DelegInv, AuthInv', NEW a \in TaskIds, NEW t \in TaskIds, NEW c \in Caps,
           Running(a), AuthorizeGrant(a, t, c),
           NEW reg \in Registry, WellFormed(reg), Grew(lineages, reg),
           NEW parent \in Nat \X Nat, NEW bound \in [TaskIds -> Task], SameTasks(tasks, bound),
           \A u \in TaskIds : bound[u].caps = tasks[u].caps,
           \A u \in TaskIds, d \in Caps :
              \/ bound[u].lin[d] = tasks[u].lin[d]
              \/ u = a /\ d = c /\ Current(reg, bound[u].lin[d], d) /\ bound[u].lin[d] # NoLineage,
           DelegateFrom(a, t, c, reg, parent, bound)
    PROVE  DelegInv' /\ OnlyDelegated
<1>1. \A u \in TaskIds : Granted(u, c)
  BY Zenon DEF Granted, AuthorizeGrant
<1>2. \A u \in TaskIds : bound[u].caps \subseteq bound[u].profile
  BY DEF DelegInv, SameTasks
<1>3. CASE ~CanDerive(reg, a, parent, {c})
  <2>1. lineages' = reg /\ tasks' = bound
    BY Zenon, <1>3 DEF DelegateFrom
  <2>2. Advances(lineages, lineages')
    BY Zenon, <2>1, GrewAdvances
  <2>3. ASSUME NEW u \in TaskIds, NEW d \in Caps
        PROVE  Quiet(u, d) \/ (Current(lineages', tasks'[u].lin[d], d) /\ Granted(u, d))
    BY Zenon, <1>1, <2>1 DEF Quiet
  <2>4. \A u \in TaskIds : tasks'[u].caps \subseteq tasks'[u].profile
    BY Zenon, <1>2, <2>1
  <2> QED BY Zenon, <2>2, <2>3, <2>4, StepDelegates
<1>4. CASE CanDerive(reg, a, parent, {c})
  <2> DEFINE q == Derived(reg, parent, t, {c})
             id == AllocatedId(reg)
             bits == bound[t].caps \cup {c}
  <2>1. lineages' = q /\ tasks' = [bound EXCEPT ![t].caps = bits, ![t].lin[c] = id]
    BY Zenon, <1>4 DEF DelegateFrom
  <2>2. Grew(reg, q) /\ Current(q, id, c) /\ q \in Registry
    BY Zenon, <1>4, DerivedGrows
  <2>3. id \in Nat \X Nat /\ bits \in SUBSET Caps
    <3>1. ActiveSlots(reg) # LineageSlots
      BY Zenon, <1>4 DEF CanDerive, CanAllocate
    <3> QED BY <3>1, IdTyped DEF Task
  <2> HIDE DEF q, id
  <2>4. /\ tasks'[t].caps = bits /\ tasks'[t].lin[c] = id
        /\ \A d \in Caps \ {c} : tasks'[t].lin[d] = bound[t].lin[d]
        /\ \A u \in TaskIds \ {t} : tasks'[u] = bound[u]
    <3>1. bound[t] \in Task /\ bound[t].lin \in [Caps -> Nat \X Nat]
      BY Zenon DEF Task
    <3> HIDE DEF bits
    <3> QED BY Zenon, <2>1, <3>1 DEF Task
  <2>5. SameTasks(bound, tasks')
    BY Zenon, <2>1, <2>3, BindingStored
  <2>6. Grew(lineages, q) /\ Advances(reg, q)
    <3>1. Grew(lineages, q)
      BY <2>2 DEF Grew
    <3> QED BY Zenon, <2>2, <3>1, GrewAdvances
  <2>7. Advances(lineages, lineages')
    BY Zenon, <2>1, <2>6, GrewAdvances
  <2>8. ASSUME NEW u \in TaskIds PROVE tasks'[u].caps \subseteq tasks'[u].profile
    <3>1. c \in tasks[t].profile
      BY Zenon DEF AuthorizeGrant
    <3>2. tasks'[u].profile = tasks[u].profile /\ bound[u].profile = tasks[u].profile
      BY <2>5 DEF SameTasks
    <3> QED BY SMTT(30), <1>2, <2>4, <3>1, <3>2
  <2>9. ASSUME NEW u \in TaskIds, NEW d \in Caps
        PROVE  Quiet(u, d) \/ (Current(lineages', tasks'[u].lin[d], d) /\ Granted(u, d))
    <3>1. CASE u = t /\ d = c
      BY SMTT(30), <1>1, <2>1, <2>2, <2>4, <3>1
    <3>2. CASE ~(u = t /\ d = c)
      <4>1. tasks'[u].lin[d] = bound[u].lin[d]
        BY Zenon, <2>4, <3>2
      <4>2. d \in tasks'[u].caps => d \in tasks[u].caps
        BY <2>4, <3>2
      <4>3. CASE bound[u].lin[d] = tasks[u].lin[d]
        BY Zenon, <4>1, <4>2, <4>3 DEF Quiet
      <4>4. CASE u = a /\ d = c /\ Current(reg, bound[u].lin[d], d) /\ bound[u].lin[d] # NoLineage
        <5>1. bound[u].lin[d] \in Nat \X Nat
          BY DEF Task
        <5>2. Current(q, bound[u].lin[d], d)
          BY ZenonT(30), <2>2, <2>6, <4>4, <5>1, BindingKept
        <5> QED BY ZenonT(30), <1>1, <2>1, <4>1, <4>4, <5>2
      <4> QED BY Zenon, <4>3, <4>4
    <3> QED BY Zenon, <3>1, <3>2
  <2> QED BY Zenon, <2>7, <2>8, <2>9, StepDelegates
<1> QED BY Zenon, <1>3, <1>4

\* What grant has done before it derives: the giver may have got a root of its own.
Rooted(reg, bound, a, c) ==
    /\ reg \in Registry /\ WellFormed(reg) /\ Grew(lineages, reg)
    /\ bound \in [TaskIds -> Task] /\ SameTasks(tasks, bound)
    /\ \A u \in TaskIds : bound[u].caps = tasks[u].caps
    /\ \A u \in TaskIds, d \in Caps :
          \/ bound[u].lin[d] = tasks[u].lin[d]
          \/ u = a /\ d = c /\ Current(reg, bound[u].lin[d], d) /\ bound[u].lin[d] # NoLineage

\* The same of a registry and of bindings that the grant has just prepared.
LEMMA RootedDelegates ==
    ASSUME DelegInv, AuthInv', NEW a \in TaskIds, NEW t \in TaskIds, NEW c \in Caps,
           Running(a), AuthorizeGrant(a, t, c), NEW reg, NEW bound, Rooted(reg, bound, a, c),
           NEW parent \in Nat \X Nat, DelegateFrom(a, t, c, reg, parent, bound)
    PROVE  DelegInv' /\ OnlyDelegated
  BY SMTT(30), DelegatesTo DEF Rooted

\* A grant is a delegation by a running task that has the right.
LEMMA GrantsDelegate ==
    ASSUME DelegInv, AuthInv', NEW a \in TaskIds, NEW t \in TaskIds, NEW c \in Caps, Grant(a, t, c)
    PROVE  DelegInv' /\ OnlyDelegated
<1>1. /\ AuthInv /\ SameTasks(tasks, tasks) /\ Running(a) /\ AuthorizeGrant(a, t, c)
      /\ lineages \in Registry /\ WellFormed(lineages) /\ tasks \in [TaskIds -> Task]
      /\ Grew(lineages, lineages)
  BY DEF SameTasks, Grant, DelegInv, AuthInv, Grew
<1>2. tasks[a].lin[c] \in Nat \X Nat
  BY <1>1 DEF Task
<1>3. CASE DelegateFrom(a, t, c, lineages, tasks[a].lin[c], tasks)
  BY Zenon, <1>1, <1>2, <1>3, DelegatesTo
<1>4. CASE /\ CanAllocate(lineages, {c})
           /\ DelegateFrom(a, t, c, Allocated(lineages, NoLineage, a, {c}), AllocatedId(lineages),
                           [tasks EXCEPT ![a].lin[c] = AllocatedId(lineages)])
  <2> DEFINE reg == Allocated(lineages, NoLineage, a, {c})
             id == AllocatedId(lineages)
             bound == [tasks EXCEPT ![a].lin[c] = id]
  <2>1. {c} \in SUBSET Caps /\ NoLineage \in Nat \X Nat /\ ActiveSlots(lineages) # LineageSlots
    BY <1>4 DEF NoLineage, CanAllocate
  <2>2. reg \in Registry /\ WellFormed(reg)
    BY <1>1, <1>4, <2>1, RootIssued
  <2>3. Grew(lineages, reg) /\ Current(reg, id, c)
    BY <1>1, <2>1, AllocatedGrows
  <2>4. id \in Nat \X Nat /\ id # NoLineage
    <3>1. FirstInactive(lineages) \in LineageSlots
      BY <2>1, FirstSlot
    <3>2. id # NoLineage
      BY <3>1, LineageAssumption DEF AllocatedId, LineageIdOf, NoLineage, LineageSlots
    <3> QED BY <1>1, <2>1, <3>2, IdTyped
  <2>5. DelegateFrom(a, t, c, reg, id, bound)
    BY <1>4
  <2> HIDE DEF reg, id
  <2>6. bound \in [TaskIds -> Task] /\ SameTasks(tasks, bound)
    BY Zenon, <1>1, <2>4, BindingStored
  <2>7. /\ bound[a].caps = tasks[a].caps /\ bound[a].lin[c] = id
        /\ \A d \in Caps \ {c} : bound[a].lin[d] = tasks[a].lin[d]
        /\ \A u \in TaskIds \ {a} : bound[u] = tasks[u]
    <3>1. bound = [tasks EXCEPT ![a].lin[c] = id]
      OBVIOUS
    <3>2. tasks[a] \in Task /\ tasks[a].lin \in [Caps -> Nat \X Nat]
      BY <1>1 DEF Task
    <3> HIDE DEF bound
    <3> QED BY <1>1, <3>1, <3>2 DEF Task
  <2> HIDE DEF bound
  <2>8. \A u \in TaskIds : bound[u].caps = tasks[u].caps
    BY <2>7
  <2>9. \A u \in TaskIds, d \in Caps :
              \/ bound[u].lin[d] = tasks[u].lin[d]
              \/ u = a /\ d = c /\ Current(reg, bound[u].lin[d], d) /\ bound[u].lin[d] # NoLineage
    BY <2>3, <2>4, <2>7
  <2>10. Rooted(reg, bound, a, c)
    BY Zenon, <2>2, <2>3, <2>6, <2>8, <2>9 DEF Rooted
  <2> QED BY Zenon, <1>1, <2>4, <2>5, <2>10, RootedDelegates
<1> QED BY <1>3, <1>4 DEF Grant

\* A revocation gives nobody a capability.
LEMMA RevokesDelegate ==
    ASSUME DelegInv, AuthInv', NoWrap, NEW a \in TaskIds, NEW t \in TaskIds, NEW c \in Caps,
           Revoke(a, t, c)
    PROVE  DelegInv' /\ OnlyDelegated
<1> DEFINE id == tasks[t].lin[c]
           after == RevokedByController(lineages, id)
           parent == IF LiveLineage(lineages, id) THEN lineages[id[1]].parent ELSE NoLineage
           release == /\ parent # NoLineage
                      /\ CanRelease(after, a, parent)
                      /\ after[parent[1]].parent = NoLineage
           mine == IF release /\ tasks[a].lin[c] = parent
                   THEN [tasks EXCEPT ![a].lin[c] = NoLineage] ELSE tasks
<1>1. /\ lineages' = IF release THEN Released(after, parent) ELSE after
      /\ tasks' = [mine EXCEPT ![t].caps = @ \ {c}, ![t].lin[c] = NoLineage]
  BY Zenon DEF Revoke
<1>2. /\ AuthInv /\ lineages \in Registry /\ WellFormed(lineages) /\ OwnersIn(lineages)
      /\ tasks \in [TaskIds -> Task] /\ NoLineage \in Nat \X Nat
  BY DEF DelegInv, AuthInv, NoLineage
<1>3. after \in Registry /\ WellFormed(after) /\ Shrunk(lineages, after)
  <2>1. after = lineages \/ after = Cleared(lineages, Subtree(lineages, id))
    BY DEF RevokedByController, RevokedSubtree
  <2>2. Closed(lineages, Subtree(lineages, id))
    BY SubtreeClosed
  <2>3. Shrunk(lineages, lineages)
    BY DEF Shrunk
  <2> HIDE DEF after, id
  <2> QED BY Zenon, <1>2, <2>1, <2>2, <2>3, Clears, ClearedShrinks
<1>4. Shrunk(lineages, lineages')
  <2> HIDE DEF after, parent
  <2>1. CASE release
    <3>1. Closed(after, {parent[1]}) /\ lineages' = Cleared(after, {parent[1]})
      BY <1>1, <1>3, <2>1, LeafClosed DEF Released
    <3>2. Shrunk(after, lineages')
      BY ZenonT(30), <1>3, <3>1, ClearedShrinks
    <3> QED BY Zenon, <1>3, <3>2 DEF Shrunk
  <2>2. CASE ~release
    BY <1>1, <1>3, <2>2
  <2> QED BY <2>1, <2>2
<1>5. Advances(lineages, lineages')
  BY Zenon, <1>4, ShrunkAdvances
<1>6. release /\ tasks[a].lin[c] = parent => Authorizes(lineages, tasks[a].lin[c], c)
  <2> SUFFICES ASSUME release, tasks[a].lin[c] = parent
               PROVE  Authorizes(lineages, parent, c)
    BY Zenon
  <2>1. parent # NoLineage /\ LiveLineage(lineages, id) /\ parent = lineages[id[1]].parent
    BY Zenon
  <2>2. Current(lineages, id, c)
    BY Zenon DEF DelegInv
  <2>3. id[1] \in ActiveSlots(lineages) /\ id # NoLineage
    <3> HIDE DEF id, parent, release
    <3>1. id[1] \in LineageSlots /\ lineages[id[1]].active
      BY <2>1 DEF LiveLineage
    <3>2. NoLineage[1] \notin LineageSlots
      BY LineageAssumption DEF NoLineage, LineageSlots
    <3> QED BY <3>1, <3>2 DEF ActiveSlots
  <2>4. c \in lineages[id[1]].rights
    BY Zenon, <2>1, <2>2, <2>3 DEF Current, LiveLineage
  <2> HIDE DEF id, parent
  <2>5. LiveLineage(lineages, parent) /\ lineages[id[1]].rights \subseteq lineages[parent[1]].rights
    BY Zenon, <1>2, <2>1, <2>3 DEF WellFormed
  <2> QED BY <2>4, <2>5 DEF Authorizes
<1>7. /\ mine \in [TaskIds -> Task] /\ SameTasks(tasks, mine)
      /\ \A u \in TaskIds : mine[u].caps = tasks[u].caps
      /\ \A u \in TaskIds, d \in Caps :
            \/ mine[u].lin[d] = tasks[u].lin[d]
            \/ /\ u = a /\ d = c /\ mine[u].lin[d] = NoLineage
               /\ Authorizes(lineages, tasks[u].lin[d], d)
  <2> DEFINE U == [tasks EXCEPT ![a].lin[c] = NoLineage]
  <2>1. U \in [TaskIds -> Task] /\ SameTasks(tasks, U)
    BY Zenon, <1>2, BindingStored
  <2>2. /\ U[a].caps = tasks[a].caps /\ U[a].lin[c] = NoLineage
        /\ \A d \in Caps \ {c} : U[a].lin[d] = tasks[a].lin[d]
        /\ \A u \in TaskIds \ {a} : U[u] = tasks[u]
    <3>1. U = [tasks EXCEPT ![a].lin[c] = NoLineage]
      OBVIOUS
    <3>2. tasks[a] \in Task /\ tasks[a].lin \in [Caps -> Nat \X Nat]
      BY <1>2 DEF Task
    <3> HIDE DEF U
    <3> QED BY <1>2, <3>1, <3>2 DEF Task
  <2> HIDE DEF U, release, parent
  <2>3. CASE release /\ tasks[a].lin[c] = parent
    <3>1. mine = U
      BY <2>3 DEF U
    <3> QED BY Zenon, <1>6, <2>1, <2>2, <2>3, <3>1
  <2>4. CASE ~(release /\ tasks[a].lin[c] = parent)
    <3>1. mine = tasks
      BY <2>4
    <3> QED BY Zenon, <1>2, <3>1 DEF SameTasks
  <2> QED BY <2>3, <2>4
<1> HIDE DEF mine
<1>8. mine[t].caps \ {c} \in SUBSET Caps
  BY <1>7 DEF Task
<1>9. /\ tasks'[t].caps = mine[t].caps \ {c} /\ tasks'[t].lin[c] = NoLineage
      /\ \A d \in Caps \ {c} : tasks'[t].lin[d] = mine[t].lin[d]
      /\ \A u \in TaskIds \ {t} : tasks'[u] = mine[u]
  <2> DEFINE bits == mine[t].caps \ {c}
  <2>1. tasks' = [mine EXCEPT ![t].caps = bits, ![t].lin[c] = NoLineage]
    BY Zenon, <1>1
  <2>2. /\ tasks'[t].caps = bits /\ tasks'[t].lin[c] = NoLineage
        /\ \A d \in Caps \ {c} : tasks'[t].lin[d] = mine[t].lin[d]
        /\ \A u \in TaskIds \ {t} : tasks'[u] = mine[u]
    <3>1. mine[t] \in Task /\ mine[t].lin \in [Caps -> Nat \X Nat]
      BY <1>7 DEF Task
    <3> HIDE DEF bits
    <3> QED BY Zenon, <1>7, <2>1, <3>1 DEF Task
  <2> QED BY <2>2
<1>10. SameTasks(mine, tasks')
  BY Zenon, <1>1, <1>2, <1>7, <1>8, BindingStored
<1>11. ASSUME NEW u \in TaskIds PROVE tasks'[u].caps \subseteq tasks'[u].profile
  <2>1. tasks'[u].profile = tasks[u].profile /\ tasks'[u].caps \subseteq tasks[u].caps
    BY <1>7, <1>9, <1>10 DEF SameTasks
  <2> QED BY Zenon, <2>1 DEF DelegInv
<1>12. ASSUME NEW u \in TaskIds, NEW d \in Caps
       PROVE  Quiet(u, d) \/ (Current(lineages', tasks'[u].lin[d], d) /\ Granted(u, d))
  <2>1. CASE u = t /\ d = c
    BY Zenon, <1>9, <2>1 DEF Quiet
  <2>2. CASE ~(u = t /\ d = c)
    <3>1. tasks'[u].lin[d] = mine[u].lin[d] /\ (d \in tasks'[u].caps => d \in tasks[u].caps)
      BY Zenon, <1>7, <1>9, <2>2
    <3>2. CASE mine[u].lin[d] = tasks[u].lin[d]
      BY Zenon, <3>1, <3>2 DEF Quiet
    <3>3. CASE mine[u].lin[d] = NoLineage /\ Authorizes(lineages, tasks[u].lin[d], d)
      <4>1. Current(lineages', tasks'[u].lin[d], d)
        BY <3>1, <3>3 DEF Current
      <4>2. CASE d \in tasks'[u].caps
        BY Zenon, <3>1, <3>3, <4>1, <4>2 DEF Granted, Effective, DelegInv
      <4>3. CASE d \notin tasks'[u].caps
        BY Zenon, <3>1, <3>3, <4>3 DEF Quiet
      <4> QED BY Zenon, <4>1, <4>2, <4>3
    <3> QED BY Zenon, <1>7, <3>2, <3>3
  <2> QED BY <2>1, <2>2
<1> QED BY <1>5, <1>11, <1>12, StepDelegates

\* bind_sandbox_profile: every bit and binding above the new ceiling goes.
LEMMA BindsDelegate ==
    ASSUME DelegInv, AuthInv', NoWrap, NEW a \in TaskIds, NEW t \in TaskIds,
           NEW profile \in SUBSET Caps, BindSandboxProfile(a, t, profile)
    PROVE  DelegInv' /\ OnlyDelegated
<1> DEFINE lin == [c \in Caps |-> IF c \in profile THEN tasks[t].lin[c] ELSE NoLineage]
           caps == tasks[t].caps \cap profile
           e == [tasks[t] EXCEPT !.caps = caps, !.lin = lin, !.profile = profile]
           gone == UNION {Subtree(lineages, LineageIdOf(lineages, s)) : s \in BoundAbove(t, profile)}
<1>1. tasks[t] \in Task /\ tasks \in [TaskIds -> Task] /\ lineages \in Registry /\ WellFormed(lineages)
  BY DEF DelegInv, AuthInv
<1>2. tasks' = [tasks EXCEPT ![t] = e] /\ lineages' = Cleared(lineages, gone)
  BY Zenon, <1>1 DEF BindSandboxProfile
<1>3. Shrunk(lineages, lineages')
  BY <1>1, <1>2, SubtreesClosed, ClearedShrinks
<1> HIDE DEF gone
<1>4. Advances(lineages, lineages')
  BY <1>3, ShrunkAdvances
<1>5. /\ \A c \in Caps \cap profile : lin[c] = tasks[t].lin[c]
      /\ \A c \in Caps \ profile : lin[c] = NoLineage /\ c \notin caps
      /\ caps \subseteq tasks[t].caps /\ caps \subseteq profile
  OBVIOUS
<1> HIDE DEF lin, caps
<1>6. e.caps = caps /\ e.lin = lin /\ e.profile = profile
  BY <1>1 DEF Task
<1> HIDE DEF e
<1>7. tasks'[t] = e /\ \A u \in TaskIds \ {t} : tasks'[u] = tasks[u]
  BY Zenon, <1>1, <1>2
<1>8. \A u \in TaskIds : tasks'[u].caps \subseteq tasks'[u].profile
  BY <1>5, <1>6, <1>7 DEF DelegInv
<1>9. ASSUME NEW u \in TaskIds, NEW d \in Caps PROVE Quiet(u, d)
  <2>1. CASE u # t
    BY <1>7, <2>1 DEF Quiet
  <2>2. CASE u = t /\ d \in profile
    BY <1>5, <1>6, <1>7, <2>2 DEF Quiet
  <2>3. CASE u = t /\ d \notin profile
    BY Zenon, <1>5, <1>6, <1>7, <2>3 DEF Quiet
  <2> QED BY Zenon, <2>1, <2>2, <2>3
<1> QED BY Zenon, <1>4, <1>8, <1>9, StepDelegates

\* Spawn, the steps of a fork, Exit and ReapDead store one task record.
LEMMA RecordDelegate ==
    ASSUME DelegInv, AuthInv', Advances(lineages, lineages'), NEW t \in TaskIds, NEW e,
           tasks' = [tasks EXCEPT ![t] = e], e.caps \subseteq e.profile,
           \A d \in Caps :
              \/ d \notin e.caps /\ e.lin[d] = NoLineage
              \/ e.lin[d] = tasks[t].lin[d] /\ e.caps = tasks[t].caps
              \/ Current(lineages', e.lin[d], d) /\ ~Present(t)
    PROVE  DelegInv' /\ OnlyDelegated
<1>1. tasks'[t] = e /\ \A u \in TaskIds \ {t} : tasks'[u] = tasks[u]
  BY Zenon DEF DelegInv, AuthInv
<1>2. \A u \in TaskIds : tasks'[u].caps \subseteq tasks'[u].profile
  BY Zenon, <1>1 DEF DelegInv
<1>3. ASSUME NEW u \in TaskIds, NEW d \in Caps
      PROVE  Quiet(u, d) \/ (Current(lineages', tasks'[u].lin[d], d) /\ Granted(u, d))
  <2>1. CASE u # t
    BY Zenon, <1>1, <2>1 DEF Quiet
  <2>2. CASE u = t
    BY <1>1, <2>2 DEF Quiet, Granted
  <2> QED BY Zenon, <2>1, <2>2
<1> QED BY Zenon, <1>2, <1>3, StepDelegates

\* Every operation keeps the invariant and gives a capability only by delegation.
LEMMA DelegStep ==
    ASSUME AuthorityConstants, DelegInv, [AuthNext]_authVars, [NoWrap]_authVars
    PROVE  DelegInv' /\ [OnlyDelegated]_authVars
<1>1. AuthInv /\ AuthInv'
  BY AuthStep DEF DelegInv
<1>2. lineages' = lineages => Advances(lineages, lineages')
  BY DEF Advances
<1>3. CASE UNCHANGED authVars
  BY Zenon, <1>3 DEF authVars, DelegInv, AuthInv, Current, WellFormed, OwnersIn, Present, LiveLineage,
              ActiveSlots, ChildrenIn, LineageIdOf
<1>4. ASSUME NEW t \in TaskIds, Spawn(t) PROVE DelegInv' /\ OnlyDelegated
  <2>1. ~Present(t) /\ lineages' = lineages
    BY <1>4 DEF Spawn, NextId, Present
  <2>2. ASSUME NEW d, NEW caps, NEW profile, caps \subseteq profile,
               tasks' = [tasks EXCEPT ![t] = NewTask(d, caps, profile)]
        PROVE  DelegInv' /\ OnlyDelegated
    <3>1. /\ NewTask(d, caps, profile).caps = caps /\ NewTask(d, caps, profile).profile = profile
          /\ \A c \in Caps : NewTask(d, caps, profile).lin[c] = NoLineage
      BY Zenon DEF NewTask, NoBindings
    <3>2. \A c \in Caps : Current(lineages', NewTask(d, caps, profile).lin[c], c)
      BY <3>1 DEF Current
    <3> DEFINE e == NewTask(d, caps, profile)
    <3>3. /\ tasks' = [tasks EXCEPT ![t] = e] /\ e.caps \subseteq e.profile
          /\ \A c \in Caps : Current(lineages', e.lin[c], c) /\ ~Present(t)
      BY Zenon, <2>1, <2>2, <3>1, <3>2
    <3> HIDE DEF e
    <3> QED BY Zenon, <1>1, <1>2, <2>1, <3>3, RecordDelegate
  <2>3. ASSUME tasks' = [tasks EXCEPT ![t] = NewTask(SystemService, {}, Ceiling[SystemService])]
        PROVE  DelegInv' /\ OnlyDelegated
    <3>1. PICK none : none = {}
      BY Zenon
    <3>2. none \subseteq Ceiling[SystemService]
      BY <3>1
    <3>3. tasks' = [tasks EXCEPT ![t] = NewTask(SystemService, none, Ceiling[SystemService])]
      BY Zenon, <2>3, <3>1
    <3> QED BY Zenon, <2>2, <3>2, <3>3
  <2>4. ASSUME tasks' = [tasks EXCEPT ![t] = NewTask(User, Ceiling[User], Ceiling[User])]
        PROVE  DelegInv' /\ OnlyDelegated
    BY Zenon, <2>2, <2>4
  <2>5. ASSUME NEW caps, tasks' = [tasks EXCEPT ![t] = NewTask(SystemService, caps, caps)]
        PROVE  DelegInv' /\ OnlyDelegated
    BY Zenon, <2>2, <2>5
  <2> QED BY Zenon, <1>4, <2>3, <2>4, <2>5 DEF Spawn
<1>5. ASSUME NEW p \in TaskIds, NEW t \in TaskIds, BeginFork(p, t) PROVE DelegInv' /\ OnlyDelegated
  <2> DEFINE e == [tasks[p] EXCEPT !.state = "forming", !.by = p]
  <2>1. ~Present(t) /\ lineages' = lineages /\ tasks' = [tasks EXCEPT ![t] = e]
    BY <1>5 DEF BeginFork, NextId, Present
  <2>2. e.caps = tasks[p].caps /\ e.lin = tasks[p].lin /\ e.profile = tasks[p].profile
    BY <1>1 DEF AuthInv, Task
  <2>3. \A d \in Caps : Current(lineages', tasks[p].lin[d], d)
    BY <2>1 DEF DelegInv
  <2>4. e.caps \subseteq e.profile
    BY <2>2 DEF DelegInv
  <2> HIDE DEF e
  <2> QED BY Zenon, <1>1, <1>2, <2>1, <2>2, <2>3, <2>4, RecordDelegate
<1>9. ASSUME NEW t \in TaskIds, FinishFork(t) PROVE DelegInv' /\ OnlyDelegated
  <2> DEFINE e == [tasks[t] EXCEPT !.state = "live", !.by = KernelTask]
  <2>1. lineages' = lineages /\ tasks' = [tasks EXCEPT ![t] = e]
    BY <1>9 DEF FinishFork
  <2>2. e.caps = tasks[t].caps /\ e.lin = tasks[t].lin /\ e.profile = tasks[t].profile
    BY <1>1 DEF AuthInv, Task
  <2>3. e.caps \subseteq e.profile
    BY <2>2 DEF DelegInv
  <2> HIDE DEF e
  <2> QED BY Zenon, <1>1, <1>2, <2>1, <2>2, <2>3, RecordDelegate
<1>10. ASSUME NEW t \in TaskIds, ForkFails(t) PROVE DelegInv' /\ OnlyDelegated
  <2>1. lineages' = lineages /\ tasks' = [tasks EXCEPT ![t] = EmptyTask]
    BY <1>10 DEF ForkFails
  <2>2. EmptyTask.caps = {} /\ \A d \in Caps : EmptyTask.lin[d] = NoLineage
    BY DEF EmptyTask, NoBindings
  <2> QED BY Zenon, <1>1, <1>2, <2>1, <2>2, RecordDelegate
<1>6. ASSUME NEW t \in TaskIds, Exit(t) PROVE DelegInv' /\ OnlyDelegated
  <2> DEFINE e == [tasks[t] EXCEPT !.state = "dead"]
  <2>1. lineages' = lineages /\ tasks' = [tasks EXCEPT ![t] = e]
    BY <1>6 DEF Exit
  <2>2. e.caps = tasks[t].caps /\ e.lin = tasks[t].lin /\ e.profile = tasks[t].profile
    BY <1>1 DEF AuthInv, Task
  <2>3. e.caps \subseteq e.profile
    BY <2>2 DEF DelegInv
  <2> HIDE DEF e
  <2> QED BY Zenon, <1>1, <1>2, <2>1, <2>2, <2>3, RecordDelegate
<1>7. ASSUME NEW t \in TaskIds, ReapDead(t), NoWrap PROVE DelegInv' /\ OnlyDelegated
  <2> DEFINE e == [EmptyTask EXCEPT !.state = "gone"]
             gone == UNION {Subtree(lineages, LineageIdOf(lineages, s)) :
                              s \in {u \in ActiveSlots(lineages) : lineages[u].owner = t}}
  <2>1. lineages' = Cleared(lineages, gone) /\ tasks' = [tasks EXCEPT ![t] = e]
    BY <1>7 DEF ReapDead, RevokedAllOwned
  <2>2. Shrunk(lineages, lineages')
    BY Zenon, <1>1, <2>1, SubtreesClosed, ClearedShrinks DEF AuthInv
  <2>3. Advances(lineages, lineages')
    BY <1>7, <2>2, ShrunkAdvances
  <2>4. e.caps = {} /\ \A d \in Caps : e.lin[d] = NoLineage
    BY DEF EmptyTask, NoBindings
  <2> HIDE DEF e
  <2> QED BY Zenon, <1>1, <2>1, <2>3, <2>4, RecordDelegate
<1>8. CASE ~UNCHANGED authVars
  <2>1. NoWrap /\ AuthNext
    BY <1>8
  <2> QED BY Zenon, <1>1, <1>4, <1>5, <1>6, <1>7, <1>9, <1>10, <2>1, GrantsDelegate, RevokesDelegate, BindsDelegate
          DEF AuthNext
<1> QED BY <1>3, <1>8

\* grant and bind_sandbox_profile: until a lineage slot's generation wraps, a task gains
\* a capability only while some live controller holds it, whatever slots were reused,
\* sandboxes changed and parents recalled in between.
THEOREM OnlyDelegationGives ==
    ASSUME AuthorityConstants
    PROVE  AuthSpec /\ [][NoWrap]_authVars => OnlyDelegation
<1>1. AuthInit => DelegInv
  <2> SUFFICES ASSUME AuthInit PROVE DelegInv
    OBVIOUS
  <2>1. AuthInv
    BY Zenon, AuthStart
  <2>2. ASSUME NEW t \in TaskIds
        PROVE  /\ \A c \in Caps : tasks[t].lin[c] = NoLineage
               /\ tasks[t].caps \subseteq tasks[t].profile
    BY DEF AuthInit, NewTask, EmptyTask, NoBindings
  <2> QED BY <2>1, <2>2 DEF DelegInv, Current
<1>2. DelegInv /\ [AuthNext]_authVars /\ [NoWrap]_authVars => DelegInv' /\ [OnlyDelegated]_authVars
  BY DelegStep
<1> QED BY <1>1, <1>2, PTL DEF AuthSpec, OnlyDelegation

-----------------------------------------------------------------------------
(***************************************************************************)
(* Proofs about the thread registry, for any table, any set of processes   *)
(* and any largest generation: an id below the last generation never names *)
(* two threads.                                                            *)
(*                                                                         *)
(* The invariant says why: an id that was given out is of a generation its *)
(* slot has reached, and one of the slot's current generation can only     *)
(* have been given out while the record is in use, except at the last      *)
(* generation, where the counter saturates.                                *)
(***************************************************************************)
ThreadConstants == MAX_THREADS \in Nat /\ MaxGeneration \in Nat \ {0}

Record == [state : {"Free", "Running", "Exited"}, generation : 1 .. MaxGeneration,
           owner : Owners \cup {0}, exit : Values \cup {0}, tls : Values \cup {0}]

Given == [owner : Owners, again : BOOLEAN]

ThreadsTypeOK ==
    /\ record \in [Slots -> Record]
    /\ DOMAIN given \subseteq Id /\ given \in [DOMAIN given -> Given]
    /\ DOMAIN stored = DOMAIN given /\ stored \in [DOMAIN given -> Values \cup {0}]

ThreadsInv ==
    /\ ThreadsTypeOK
    /\ \A id \in DOMAIN given :
          /\ id.generation <= record[id.slot].generation
          /\ id.generation = record[id.slot].generation /\ id.generation < MaxGeneration =>
                record[id.slot].state # "Free"
    /\ IdsNameOneThread

\* The slot that create takes.
LEMMA FirstFree ==
    ASSUME ThreadConstants, FreeSlots # {}
    PROVE  Min(FreeSlots) \in FreeSlots
<1>1. FreeSlots \in SUBSET Nat
  BY DEF ThreadConstants, FreeSlots, Slots
<1>2. \E x \in FreeSlots : \A y \in FreeSlots : ~(<<y, x>> \in OpToRel(<, Nat))
  BY <1>1, NatLessThanWellFounded, WFMin
<1>3. \A x, y \in Nat : y < x => <<y, x>> \in OpToRel(<, Nat)
  BY Zenon DEF OpToRel
<1>4. PICK x \in FreeSlots : \A y \in FreeSlots : ~(y < x)
  BY <1>1, <1>2, <1>3, Zenon
<1>5. \A y \in FreeSlots : x <= y
  BY <1>1, <1>4
<1> QED BY <1>5 DEF Min

\* The empty table.
LEMMA ThreadsStart ==
    ASSUME ThreadConstants, ThreadsInit
    PROVE  ThreadsInv
<1>1. EmptyRecord \in Record
  BY DEF ThreadConstants, EmptyRecord, Record
<1>2. DOMAIN given = {} /\ DOMAIN stored = {}
  BY DEF ThreadsInit
<1>3. given \in [DOMAIN given -> Given] /\ stored \in [DOMAIN given -> Values \cup {0}]
  BY SMTT(30), <1>2 DEF ThreadsInit
<1> QED BY <1>1, <1>2, <1>3 DEF ThreadsInit, ThreadsInv, ThreadsTypeOK, IdsNameOneThread

\* Every operation but create leaves the histories' domain alone, moves a
\* slot's generation only when it frees the record, and then forward.
LEMMA RecordSteps ==
    ASSUME ThreadConstants, ThreadsInv, given' = given,
           record' \in [Slots -> Record],
           DOMAIN stored' = DOMAIN given, stored' \in [DOMAIN given -> Values \cup {0}],
           \A s \in Slots :
              \/ /\ record'[s].generation = record[s].generation
                 /\ record[s].state # "Free" => record'[s].state # "Free"
                 /\ record'[s].owner = record[s].owner
                 /\ \A id \in DOMAIN given :
                       id.slot = s /\ Lookup(id) =>
                          \/ record'[s].tls = stored'[id]
                          \/ record'[s].tls = record[s].tls /\ stored'[id] = stored[id]
                 /\ record'[s].state # "Free" => record[s].state # "Free"
              \/ record'[s].generation = NextThreadGeneration(record[s].generation) /\ record'[s].state = "Free"
    PROVE  ThreadsInv'
<1>1. ThreadsTypeOK'
  BY DEF ThreadsInv, ThreadsTypeOK
<1>2. ASSUME NEW id \in DOMAIN given
      PROVE  /\ id.slot \in Slots /\ id.generation \in 1 .. MaxGeneration
             /\ record[id.slot].generation \in 1 .. MaxGeneration
             /\ id.generation <= record[id.slot].generation
             /\ id.generation = record[id.slot].generation /\ id.generation < MaxGeneration =>
                   record[id.slot].state # "Free"
             /\ id.generation < MaxGeneration => ~given[id].again
             /\ id.generation < MaxGeneration /\ Lookup(id) =>
                   record[id.slot].owner = given[id].owner /\ record[id.slot].tls = stored[id]
  BY Zenon, <1>2 DEF ThreadsInv, ThreadsTypeOK, IdsNameOneThread, Id, Record
<1>3. ASSUME NEW id \in DOMAIN given
      PROVE  /\ id.generation <= record'[id.slot].generation
             /\ id.generation = record'[id.slot].generation /\ id.generation < MaxGeneration =>
                   record'[id.slot].state # "Free"
             /\ id.generation < MaxGeneration =>
                   /\ ~given[id].again
                   /\ Lookup(id)' => /\ record'[id.slot].owner = given[id].owner
                                     /\ record'[id.slot].tls = stored'[id]
  <2>1. CASE record'[id.slot].generation = NextThreadGeneration(record[id.slot].generation) /\ record'[id.slot].state = "Free"
    BY SMTT(30), <1>2, <2>1 DEF NextThreadGeneration, Lookup, ThreadConstants
  <2>2. CASE /\ record'[id.slot].generation = record[id.slot].generation
             /\ record[id.slot].state # "Free" => record'[id.slot].state # "Free"
             /\ record'[id.slot].owner = record[id.slot].owner
             /\ Lookup(id) => \/ record'[id.slot].tls = stored'[id]
                              \/ record'[id.slot].tls = record[id.slot].tls /\ stored'[id] = stored[id]
             /\ record'[id.slot].state # "Free" => record[id.slot].state # "Free"
    BY Zenon, <1>2, <2>2 DEF Lookup
  <2> QED BY Zenon, <1>2, <2>1, <2>2
<1> QED BY <1>1, <1>3 DEF ThreadsInv, IdsNameOneThread

\* create: the id it gives out is new, unless the generation has saturated.
LEMMA Created ==
    ASSUME ThreadConstants, ThreadsInv, NEW p \in Owners, CreateThread(p)
    PROVE  ThreadsInv'
<1> DEFINE s == Min(FreeSlots)
           id == [slot |-> s, generation |-> record[s].generation]
<1>1. s \in Slots /\ record[s].state = "Free"
  BY FirstFree DEF CreateThread, FreeSlots
<1>2. record[s] \in Record /\ record \in [Slots -> Record]
  BY <1>1 DEF ThreadsInv, ThreadsTypeOK
<1>3. /\ record' = [record EXCEPT ![s] = [record[s] EXCEPT !.state = "Running", !.owner = p, !.exit = 0, !.tls = 0]]
      /\ given' = With(given, id, [owner |-> p, again |-> id \in DOMAIN given])
      /\ stored' = With(stored, id, 0)
  BY Zenon DEF CreateThread
<1>4. /\ record' \in [Slots -> Record]
      /\ record'[s].state = "Running" /\ record'[s].owner = p /\ record'[s].tls = 0
      /\ record'[s].generation = record[s].generation
      /\ \A t \in Slots \ {s} : record'[t] = record[t]
  BY Zenon, <1>1, <1>2, <1>3 DEF Record
<1> DEFINE g == [owner |-> p, again |-> id \in DOMAIN given]
<1>g. g \in Given /\ g.owner = p /\ g.again = (id \in DOMAIN given)
  <2> HIDE DEF id
  <2>1. (id \in DOMAIN given) \in BOOLEAN
    OBVIOUS
  <2> QED BY <2>1 DEF Given
<1>5. id \in Id /\ id.slot = s /\ id.generation = record[s].generation
  BY Zenon, <1>1, <1>2 DEF Id, Record
<1>6. ASSUME id \in DOMAIN given, id.generation < MaxGeneration PROVE FALSE
  BY <1>1, <1>5, <1>6 DEF ThreadsInv
<1> HIDE DEF id, s, g
<1>7. /\ DOMAIN given' = DOMAIN given \cup {id} /\ given'[id] = g
      /\ \A i \in DOMAIN given \ {id} : given'[i] = given[i]
      /\ given' = [i \in DOMAIN given' |-> given'[i]]
  <2>1. given' = With(given, id, g)
    BY <1>3 DEF g
  <2> QED BY <2>1 DEF With
<1>8. /\ DOMAIN stored' = DOMAIN given' /\ stored'[id] = 0
      /\ \A i \in DOMAIN given \ {id} : stored'[i] = stored[i]
      /\ stored' = [i \in DOMAIN given' |-> stored'[i]]
  <2>1. stored' = With(stored, id, 0) /\ DOMAIN stored = DOMAIN given
    BY <1>3 DEF ThreadsInv, ThreadsTypeOK
  <2>2. /\ DOMAIN stored' = DOMAIN stored \cup {id} /\ stored'[id] = 0
        /\ \A i \in DOMAIN stored \ {id} : stored'[i] = stored[i]
        /\ stored' = [i \in DOMAIN stored' |-> stored'[i]]
    BY <2>1 DEF With
  <2> QED BY <1>7, <2>1, <2>2
<1>9. /\ \A i \in DOMAIN given : i \in Id /\ given[i] \in Given /\ stored[i] \in Values \cup {0}
      /\ \A i \in Id : i.slot \in Slots
  BY DEF ThreadsInv, ThreadsTypeOK, Id
<1>10. ThreadsTypeOK'
  <2>1. \A i \in DOMAIN given' : i \in Id /\ given'[i] \in Given /\ stored'[i] \in Values \cup {0}
    BY Zenon, <1>5, <1>7, <1>8, <1>9, <1>g
  <2> QED BY <1>4, <1>7, <1>8, <2>1 DEF ThreadsTypeOK
<1>11. ASSUME NEW i \in DOMAIN given'
       PROVE  /\ i.generation <= record'[i.slot].generation
              /\ i.generation = record'[i.slot].generation /\ i.generation < MaxGeneration =>
                    record'[i.slot].state # "Free"
              /\ i.generation < MaxGeneration =>
                    /\ ~given'[i].again
                    /\ Lookup(i)' => /\ record'[i.slot].owner = given'[i].owner
                                     /\ record'[i.slot].tls = stored'[i]
  <2>1. CASE i = id
    <3>1. i.generation < MaxGeneration => ~given'[i].again
      BY Zenon, <1>6, <1>7, <1>g, <2>1
    <3>2. given'[i].owner = p /\ stored'[i] = 0
      BY Zenon, <1>7, <1>8, <1>g, <2>1
    <3>3. i.generation = record'[i.slot].generation /\ i.generation \in Nat
      BY SMTT(30), <1>2, <1>4, <1>5, <2>1 DEF Record
    <3> QED BY <1>4, <1>5, <2>1, <3>1, <3>2, <3>3
  <2>2. CASE i # id /\ i.slot # s
    <3>1. i \in DOMAIN given /\ record'[i.slot] = record[i.slot] /\ given'[i] = given[i] /\ stored'[i] = stored[i]
      BY Zenon, <1>4, <1>7, <1>8, <1>9, <2>2
    <3> QED BY <3>1 DEF ThreadsInv, IdsNameOneThread, Lookup
  <2>3. CASE i # id /\ i.slot = s
    <3>1. i \in DOMAIN given /\ i \in Id
      BY Zenon, <1>7, <1>9, <2>3
    <3>2. i.generation # record[s].generation
      BY <1>5, <2>3, <3>1 DEF Id
    <3>3. i.generation <= record[s].generation /\ given'[i] = given[i]
      BY Zenon, <1>7, <2>3, <3>1 DEF ThreadsInv
    <3>4. i.generation < MaxGeneration => ~given[i].again
      BY <3>1 DEF ThreadsInv, IdsNameOneThread
    <3> QED BY <1>4, <2>3, <3>2, <3>3, <3>4 DEF Lookup
  <2> QED BY Zenon, <2>1, <2>2, <2>3
<1> QED BY <1>10, <1>11 DEF ThreadsInv, IdsNameOneThread

\* Every operation preserves the invariant.
LEMMA ThreadsStep ==
    ASSUME ThreadConstants, ThreadsInv, [ThreadsNext]_threadVars
    PROVE  ThreadsInv'
<1>0. /\ record \in [Slots -> Record] /\ \A s \in Slots : record[s] \in Record
      /\ \A id \in DOMAIN given : id.slot \in Slots
      /\ DOMAIN stored = DOMAIN given /\ stored \in [DOMAIN given -> Values \cup {0}]
  BY DEF ThreadsInv, ThreadsTypeOK, Id
<1>1. ASSUME NEW p \in Owners, CreateThread(p) PROVE ThreadsInv'
  BY <1>1, Created
<1>2. ASSUME NEW p \in Owners, ReapOwner(p) PROVE ThreadsInv'
  <2> DEFINE freed(s) == [EmptyRecord EXCEPT !.generation = NextThreadGeneration(record[s].generation)]
  <2>1. ASSUME NEW s \in Slots
        PROVE  /\ freed(s) \in Record /\ freed(s).state = "Free"
               /\ freed(s).generation = NextThreadGeneration(record[s].generation)
    BY <1>0 DEF EmptyRecord, NextThreadGeneration, Record, ThreadConstants
  <2>2. \A s \in Slots : record'[s] = freed(s) \/ record'[s] = record[s]
    BY <1>2 DEF ReapOwner
  <2>3. record' = [s \in Slots |-> record'[s]] /\ given' = given /\ stored' = stored
    BY <1>2 DEF ReapOwner
  <2> HIDE DEF freed
  <2>4. record' \in [Slots -> Record]
    BY <1>0, <2>1, <2>2, <2>3
  <2> QED BY <1>0, <2>1, <2>2, <2>3, <2>4, RecordSteps
<1>3. ASSUME NEW id \in DOMAIN given, NEW v \in Values, Terminate(id, v) PROVE ThreadsInv'
  <2>1. /\ record' = [record EXCEPT ![id.slot] = [record[id.slot] EXCEPT !.state = "Exited", !.exit = v]]
        /\ given' = given /\ stored' = stored /\ record[id.slot].state # "Free"
    BY <1>3 DEF Terminate, Lookup
  <2>2. [record[id.slot] EXCEPT !.state = "Exited", !.exit = v] \in Record
    <3>1. record[id.slot] \in Record
      BY <1>0
    <3> QED BY Zenon, <3>1 DEF Record
  <2>3. /\ record'[id.slot].generation = record[id.slot].generation /\ record'[id.slot].state = "Exited"
        /\ record'[id.slot].owner = record[id.slot].owner /\ record'[id.slot].tls = record[id.slot].tls
        /\ \A s \in Slots \ {id.slot} : record'[s] = record[s]
        /\ record' \in [Slots -> Record]
    BY <1>0, <2>1, <2>2 DEF Record
  <2> QED BY <1>0, <2>1, <2>3, RecordSteps
<1>4. ASSUME NEW id \in DOMAIN given, NEW v \in Values, SetTls(id, v) PROVE ThreadsInv'
  <2>1. /\ record' = [record EXCEPT ![id.slot] = [record[id.slot] EXCEPT !.tls = v]]
        /\ given' = given /\ stored' = With(stored, id, v) /\ Lookup(id)
    BY <1>0, <1>4 DEF SetTls
  <2>2. [record[id.slot] EXCEPT !.tls = v] \in Record
    BY <1>0 DEF Record
  <2>3. /\ record'[id.slot].generation = record[id.slot].generation
        /\ record'[id.slot].state = record[id.slot].state
        /\ record'[id.slot].owner = record[id.slot].owner /\ record'[id.slot].tls = v
        /\ \A s \in Slots \ {id.slot} : record'[s] = record[s]
        /\ record' \in [Slots -> Record]
    BY <1>0, <2>1, <2>2 DEF Record
  <2>4. /\ DOMAIN stored' = DOMAIN given /\ stored'[id] = v
        /\ \A i \in DOMAIN given \ {id} : stored'[i] = stored[i]
        /\ stored' \in [DOMAIN given -> Values \cup {0}]
    <3>1. /\ DOMAIN stored' = DOMAIN stored \cup {id} /\ stored'[id] = v
          /\ \A i \in DOMAIN stored \ {id} : stored'[i] = stored[i]
          /\ stored' = [i \in DOMAIN stored' |-> stored'[i]]
      BY <2>1 DEF With
    <3>2. DOMAIN stored' = DOMAIN given
      BY <1>0, <3>1
    <3>3. \A i \in DOMAIN given : stored'[i] \in Values \cup {0}
      BY <1>0, <3>1
    <3> QED BY <1>0, <3>1, <3>2, <3>3
  <2>5. \A i \in DOMAIN given : i.slot = id.slot /\ Lookup(i) => i = id
    <3>1. ASSUME NEW i \in DOMAIN given, i.slot = id.slot, Lookup(i) PROVE i = id
      <4>1. i.generation = id.generation
        BY <2>1, <3>1 DEF Lookup
      <4>2. i \in Id /\ id \in Id
        BY DEF ThreadsInv, ThreadsTypeOK
      <4> QED BY <3>1, <4>1, <4>2 DEF Id
    <3> QED BY <3>1
  <2> QED BY <1>0, <2>1, <2>3, <2>4, <2>5, RecordSteps
<1>5. ASSUME NEW id \in DOMAIN given, NEW p \in Owners, Join(p, id) PROVE ThreadsInv'
  <2>1. /\ record' = [record EXCEPT ![id.slot] =
                        [record[id.slot] EXCEPT !.state = "Free",
                                                !.generation = NextThreadGeneration(record[id.slot].generation)]]
        /\ given' = given /\ stored' = stored
    BY <1>0, <1>5 DEF Join, Lookup
  <2>2. NextThreadGeneration(record[id.slot].generation) \in 1 .. MaxGeneration
    <3>1. record[id.slot].generation \in 1 .. MaxGeneration
      BY <1>0 DEF Record
    <3> QED BY <3>1 DEF NextThreadGeneration, ThreadConstants
  <2>3. /\ record'[id.slot].generation = NextThreadGeneration(record[id.slot].generation)
        /\ record'[id.slot].state = "Free"
        /\ \A s \in Slots \ {id.slot} : record'[s] = record[s]
        /\ record' \in [Slots -> Record]
    <3> DEFINE n == NextThreadGeneration(record[id.slot].generation)
               e == [record[id.slot] EXCEPT !.state = "Free", !.generation = n]
    <3>1. record[id.slot] \in Record /\ id.slot \in Slots
      BY <1>0
    <3>2. n \in 1 .. MaxGeneration
      BY <2>2
    <3> HIDE DEF n
    <3>3. e \in Record /\ e.generation = n /\ e.state = "Free"
      BY Zenon, <3>1, <3>2 DEF Record
    <3>4. record' = [record EXCEPT ![id.slot] = e]
      BY <2>1 DEF n
    <3> HIDE DEF e
    <3>5. record'[id.slot] = e /\ \A s \in Slots \ {id.slot} : record'[s] = record[s]
      BY <1>0, <3>1, <3>4
    <3>6. record' \in [Slots -> Record]
      BY <1>0, <3>1, <3>3, <3>4
    <3> QED BY <3>3, <3>5, <3>6 DEF n
  <2> QED BY <1>0, <2>1, <2>3, RecordSteps
<1>6. CASE UNCHANGED threadVars
  BY <1>0, <1>6, RecordSteps DEF threadVars
<1> QED BY <1>1, <1>2, <1>3, <1>4, <1>5, <1>6 DEF ThreadsNext

\* lookup, join and reap_owner: an id below the last generation was given to one thread,
\* and the record that answers to it is still that thread's, with the TLS word stored
\* through it.
THEOREM IdsAlwaysNameOneThread ==
    ASSUME ThreadConstants
    PROVE  ThreadsSpec => []IdsNameOneThread
<1>1. ThreadsInit => ThreadsInv
  BY ThreadsStart
<1>2. ThreadsInv /\ [ThreadsNext]_threadVars => ThreadsInv'
  BY ThreadsStep
<1>3. ThreadsInv => IdsNameOneThread
  BY DEF ThreadsInv
<1> QED BY <1>1, <1>2, <1>3, PTL DEF ThreadsSpec

-----------------------------------------------------------------------------
(***************************************************************************)
(* The record queue of a completion port, for every capacity, set of       *)
(* operations and largest sequence number.                                 *)
(***************************************************************************)
QInv == TypeOK /\ SequencesFresh

\* The live and the published operations are finite, and an operation that is
\* only reserved leaves room for one more published record.
LEMMA FiniteQueue ==
    ASSUME QInv
    PROVE  /\ IsFiniteSet(Live) /\ IsFiniteSet(Published)
           /\ Cardinality(Published) \in Nat
           /\ \A op \in Live \ Published : Cardinality(Published) < CAPACITY
<1>1. Live \in SUBSET Operations /\ Published \in SUBSET Live
  BY DEF Live, Published
<1>2. IsFiniteSet(Live) /\ IsFiniteSet(Published)
  BY <1>1, FS_Subset, QueueAssumption
<1>3. Cardinality(Published) \in Nat /\ Cardinality(Live) \in Nat
  BY <1>2, FS_CardinalityType
<1>4. ASSUME NEW op \in Live \ Published PROVE Cardinality(Published) < CAPACITY
  <2>1. Cardinality(Published) <= Cardinality(Live) /\ Cardinality(Live) # Cardinality(Published)
    BY <1>1, <1>2, <1>4, FS_Subset
  <2> QED BY <2>1, <1>3, QueueAssumption DEF QInv, SequencesFresh
<1> QED BY <1>2, <1>3, <1>4

\* What binary_search over the sorted live numbers returns, plus one: a
\* number between 1 and the count of live records, in the order of the old ones.
LEMMA RankOrder ==
    ASSUME QInv
    PROVE  /\ \A op \in Published : Rank(entries[op].sequence) \in 1..Cardinality(Published)
           /\ \A op, other \in Published :
                 entries[op].sequence < entries[other].sequence =>
                     Rank(entries[op].sequence) < Rank(entries[other].sequence)
<1> DEFINE Upto(s) == {op \in Published : entries[op].sequence <= s}
<1>1. \A op \in Published : entries[op] \in Entry /\ entries[op].sequence \in Nat
  BY DEF QInv, TypeOK, Published, Live, Entry
<1>2. \A s : Upto(s) \in SUBSET Published /\ Rank(s) = Cardinality(Upto(s))
  BY DEF Rank
<1> HIDE DEF Upto
<1>3. \A s : /\ IsFiniteSet(Upto(s)) /\ Cardinality(Upto(s)) \in Nat
             /\ Cardinality(Upto(s)) <= Cardinality(Published)
  BY <1>2, FiniteQueue, FS_Subset, FS_CardinalityType
<1>4. ASSUME NEW op \in Published
      PROVE  Rank(entries[op].sequence) \in 1..Cardinality(Published)
  <2>1. op \in Upto(entries[op].sequence)
    BY <1>1 DEF Upto
  <2>2. Cardinality(Upto(entries[op].sequence)) # 0
    BY <2>1, <1>3, FS_EmptySet
  <2> QED BY <2>2, <1>2, <1>3, FiniteQueue
<1>5. ASSUME NEW op \in Published, NEW other \in Published,
             entries[op].sequence < entries[other].sequence
      PROVE  Rank(entries[op].sequence) < Rank(entries[other].sequence)
  <2> DEFINE A == Upto(entries[op].sequence)
             B == Upto(entries[other].sequence)
  <2>1. A \in SUBSET B /\ other \in B /\ other \notin A
    BY <1>1, <1>5 DEF Upto
  <2> HIDE DEF A, B
  <2>2. IsFiniteSet(B) /\ Cardinality(A) \in Nat /\ Cardinality(B) \in Nat
    BY <1>3 DEF A, B
  <2>3. Cardinality(A) <= Cardinality(B) /\ Cardinality(A) # Cardinality(B)
    BY Zenon, <2>1, <2>2, FS_Subset
  <2> QED BY <2>2, <2>3, <1>2 DEF A, B
<1> QED BY <1>4, <1>5

\* Publishing, with or without renumbering, keeps the numbers distinct and
\* below the next one.
LEMMA NumberedFresh ==
    ASSUME QInv,
           NEW current \in [Operations -> Entry \cup {Nothing}],
           NEW op \in Live \ Published, NEW outcome \in Outcomes, NEW sequence \in Nat \ {0},
           sequence < MaxSequence,
           \A o \in Operations : /\ current[o] = Nothing <=> entries[o] = Nothing
                                 /\ o \in Live => (current[o].sequence = 0 <=> o \notin Published),
           \A o \in Published : current[o].sequence < sequence,
           \A o, other \in Published :
               current[o].sequence = current[other].sequence => o = other,
           Numbered(current, sequence, op, outcome)
    PROVE  QInv'
<1>1. op \in Operations /\ current[op] \in Entry /\ op \in Live
  BY DEF Live
<1>2. /\ entries' = [current EXCEPT ![op] = [current[op] EXCEPT !.outcome = outcome,
                                                                !.sequence = sequence]]
      /\ next_sequence' = sequence + 1
  BY DEF Numbered
<1> DEFINE new == [current[op] EXCEPT !.outcome = outcome, !.sequence = sequence]
<1>3. new \in Entry /\ new # Nothing /\ new.sequence = sequence
  BY Zenon, <1>1, QueueAssumption DEF Entry
<1> HIDE DEF new
<1>4. /\ entries' \in [Operations -> Entry \cup {Nothing}]
      /\ entries'[op] = new
      /\ \A o \in Operations \ {op} : entries'[o] = current[o]
  BY <1>1, <1>2, <1>3 DEF new
<1>5. TypeOK'
  BY SMTT(30), <1>2, <1>4, QueueAssumption DEF TypeOK
<1>6. Live' = Live
  BY SMTT(30), <1>1, <1>3, <1>4 DEF Live
<1>7. Published' = Published \cup {op}
  BY SMTT(30), <1>1, <1>3, <1>4, <1>6 DEF Published, Live
<1>8. \A o \in Published : entries'[o] = current[o] /\ o # op /\ o \in Operations
  BY Zenon, <1>4 DEF Published, Live
<1>9. SequencesFresh'
  <2>1. Cardinality(Live') <= CAPACITY
    BY Zenon, <1>6 DEF QInv, SequencesFresh
  <2>2. \A o \in Published : entries'[o].sequence \in Nat
    BY <1>4, <1>7, <1>8 DEF Published, Live, Entry
  <2>3. \A o \in Published' : entries'[o].sequence < next_sequence'
    BY SMTT(30), <1>2, <1>3, <1>4, <1>7, <1>8, <2>2
  <2>4. ASSUME NEW o \in Published', NEW other \in Published',
               entries'[o].sequence = entries'[other].sequence
        PROVE  o = other
    BY <1>3, <1>4, <1>7, <1>8, <2>2, <2>4
  <2> QED BY <2>1, <2>3, <2>4 DEF SequencesFresh
<1> QED BY Zenon, <1>5, <1>9 DEF QInv

\* Each call keeps the queue's invariant.
LEMMA QueueStep == QInv /\ [Next]_vars => QInv'
<1> SUFFICES ASSUME QInv, [Next]_vars PROVE QInv'
  OBVIOUS
<1>1. CASE UNCHANGED vars
  BY <1>1 DEF QInv, TypeOK, SequencesFresh, Published, Live, vars
<1>2. ASSUME NEW op \in Operations, NEW cookie \in Cookies, Reserve(op, cookie) PROVE QInv'
  <2> DEFINE new == [cookie |-> cookie, outcome |-> Nothing, sequence |-> 0]
  <2>1. new \in Entry /\ new # Nothing /\ new.sequence = 0
    BY QueueAssumption DEF Entry
  <2>2. entries' = [entries EXCEPT ![op] = new] /\ next_sequence' = next_sequence
    BY <1>2 DEF Reserve
  <2> HIDE DEF new
  <2>3. TypeOK'
    BY <2>1, <2>2 DEF QInv, TypeOK
  <2>4. /\ entries'[op] = new
        /\ \A o \in Operations \ {op} : entries'[o] = entries[o]
    BY Zenon, <2>2 DEF QInv, TypeOK
  <2>5. Live' = Live \cup {op} /\ op \notin Live
    BY <2>1, <2>4, <1>2 DEF Live, Reserve
  <2>6. Published' = Published
    BY Zenon, <2>1, <2>4, <2>5 DEF Published, Live
  <2>7. Cardinality(Live') <= CAPACITY
    <3>1. Cardinality(Live') = Cardinality(Live) + 1 /\ Cardinality(Live) \in Nat
      BY Zenon, <2>5, FiniteQueue, FS_AddElement, FS_CardinalityType
    <3> QED BY <3>1, <1>2, QueueAssumption DEF Reserve
  <2>8. \A o \in Published : entries'[o] = entries[o]
    BY <2>4, <2>5 DEF Published, Live
  <2> QED BY <2>2, <2>3, <2>6, <2>7, <2>8 DEF QInv, SequencesFresh
<1>3. ASSUME NEW op \in Operations, NEW outcome \in Outcomes, Publish(op, outcome) PROVE QInv'
  <2>0. op \in Live \ Published
    BY Zenon, <1>3 DEF Publish
  <2>1. CASE next_sequence # MaxSequence
    <3>1. Numbered(entries, next_sequence, op, outcome)
      BY <1>3, <2>1 DEF Publish
    <3>2. next_sequence \in Nat \ {0} /\ next_sequence < MaxSequence
      BY <2>1, QueueAssumption DEF QInv, TypeOK
    <3>3. entries \in [Operations -> Entry \cup {Nothing}]
      BY DEF QInv, TypeOK
    <3>4. \A o \in Live : entries[o].sequence = 0 <=> o \notin Published
      BY Zenon DEF Published
    <3> QED BY Zenon, <2>0, <3>1, <3>2, <3>3, <3>4, NumberedFresh DEF QInv, SequencesFresh
  <2>2. CASE next_sequence = MaxSequence
    <3> DEFINE sequence == Cardinality(Published) + 1
    <3>1. Numbered(Renumbered, sequence, op, outcome)
      BY <1>3, <2>2 DEF Publish
    <3>2. sequence \in Nat \ {0} /\ sequence < MaxSequence
      BY SMTT(30), <2>0, FiniteQueue, QueueAssumption
    <3>3. \A o \in Published : /\ entries[o] \in Entry /\ o \in Operations /\ entries[o] # Nothing
                               /\ Rank(entries[o].sequence) \in Nat \ {0}
                               /\ Rank(entries[o].sequence) < sequence
      BY RankOrder, FiniteQueue DEF QInv, TypeOK, Published, Live
    <3>4. ASSUME NEW o \in Published
          PROVE  /\ Renumbered[o] \in Entry /\ Renumbered[o] # Nothing
                 /\ Renumbered[o].sequence = Rank(entries[o].sequence)
      <4>1. Renumbered[o] = [entries[o] EXCEPT !.sequence = Rank(entries[o].sequence)]
        BY <3>3 DEF Renumbered
      <4> QED BY <4>1, <3>3, QueueAssumption DEF Entry
    <3>5. \A o \in Operations \ Published : Renumbered[o] = entries[o]
      BY DEF Renumbered
    <3>6. Renumbered \in [Operations -> Entry \cup {Nothing}]
      <4>1. DOMAIN Renumbered = Operations /\ Renumbered = [o \in Operations |-> Renumbered[o]]
        BY DEF Renumbered
      <4>2. \A o \in Operations : Renumbered[o] \in Entry \cup {Nothing}
        BY <3>4, <3>5 DEF QInv, TypeOK
      <4> QED BY <4>1, <4>2
    <3>7. \A o \in Operations :
             /\ Renumbered[o] = Nothing <=> entries[o] = Nothing
             /\ o \in Live => (Renumbered[o].sequence = 0 <=> o \notin Published)
      BY Zenon, <3>3, <3>4, <3>5 DEF Published, Live
    <3>8. \A o \in Published : Renumbered[o].sequence < sequence
      BY <3>3, <3>4
    <3>9. ASSUME NEW o \in Published, NEW other \in Published,
                 Renumbered[o].sequence = Renumbered[other].sequence
          PROVE  o = other
      <4>1. entries[o].sequence \in Nat /\ entries[other].sequence \in Nat
        BY Zenon, <3>3 DEF Entry
      <4>2. ~(entries[o].sequence < entries[other].sequence)
            /\ ~(entries[other].sequence < entries[o].sequence)
        BY <3>3, <3>4, <3>9, RankOrder
      <4>3. entries[o].sequence = entries[other].sequence
        BY <4>1, <4>2
      <4> QED BY <4>3 DEF QInv, SequencesFresh
    <3> HIDE DEF sequence
    <3> QED BY Zenon, <2>0, <3>1, <3>2, <3>6, <3>7, <3>8, <3>9, NumberedFresh
  <2> QED BY <2>1, <2>2
<1>4. ASSUME NEW op \in Operations, Remove(op) PROVE QInv'
  <2>1. /\ entries' = [entries EXCEPT ![op] = Nothing] /\ next_sequence' = next_sequence
    BY <1>4 DEF Remove
  <2>2. TypeOK' /\ entries'[op] = Nothing /\ \A o \in Operations \ {op} : entries'[o] = entries[o]
    BY <2>1 DEF QInv, TypeOK
  <2>3. Live' = Live \ {op} /\ Published' = Published \ {op}
    BY <2>2 DEF Live, Published
  <2>4. Cardinality(Live') <= CAPACITY
    <3>1. Cardinality(Live') <= Cardinality(Live) /\ Cardinality(Live) \in Nat
          /\ Cardinality(Live') \in Nat
      BY Zenon, <2>3, FiniteQueue, FS_Subset, FS_CardinalityType
    <3> QED BY <3>1, QueueAssumption DEF QInv, SequencesFresh
  <2>5. \A o \in Published' : entries'[o] = entries[o] /\ o \in Published
    BY <2>2, <2>3 DEF Published, Live
  <2> QED BY <2>1, <2>2, <2>4, <2>5 DEF QInv, SequencesFresh
<1> QED BY <1>1, <1>2, <1>3, <1>4 DEF Next

\* For every capacity and every largest sequence number above it, the queue
\* never holds more records than its capacity, and publication numbers stay
\* in range, distinct and below the next one (publish, renumber, remove).
THEOREM SequencesAlwaysFresh == Spec => [](TypeOK /\ SequencesFresh)
<1>1. Init => QInv
  <2> SUFFICES ASSUME Init PROVE QInv
    OBVIOUS
  <2>1. Live = {} /\ Published = {}
    BY DEF Init, Live, Published
  <2>2. TypeOK
    BY QueueAssumption DEF Init, TypeOK
  <2> QED BY <2>1, <2>2, FS_EmptySet, QueueAssumption DEF QInv, SequencesFresh
<1> QED BY <1>1, QueueStep, PTL DEF Spec, QInv

\* The order of two published records never changes while both are live, and
\* a newly published record is the last one.
THEOREM PublicationOrder == Spec => FifoOrder
<1>1. QInv /\ [Next]_vars => [OrderStep /\ LastStep]_vars
  <2> SUFFICES ASSUME QInv, Next PROVE OrderStep /\ LastStep
    OBVIOUS
  <2>0. \A o \in Published : o \in Operations /\ entries[o] \in Entry /\ entries[o].sequence \in Nat
    BY DEF QInv, TypeOK, Published, Live, Entry
  <2>1. ASSUME NEW op \in Operations, NEW cookie \in Cookies, Reserve(op, cookie)
        PROVE  OrderStep /\ LastStep
    <3>1. /\ op \notin Live
          /\ entries' = [entries EXCEPT
                           ![op] = [cookie |-> cookie, outcome |-> Nothing, sequence |-> 0]]
      BY <2>1 DEF Reserve, Live
    <3>2. \A o \in Published : entries'[o] = entries[o]
      BY <3>1, <2>0 DEF Published, QInv, TypeOK
    <3>3. entries'[op].sequence = 0 /\ \A o \in Operations \ {op} : entries'[o] = entries[o]
      BY <3>1 DEF QInv, TypeOK
    <3>4. Published' \subseteq Published
      BY <3>3 DEF Published, Live
    <3> QED BY Zenon, <3>2, <3>4 DEF OrderStep, LastStep, Before
  <2>2. ASSUME NEW op \in Operations, NEW outcome \in Outcomes, Publish(op, outcome)
        PROVE  OrderStep /\ LastStep
    <3> DEFINE current == IF next_sequence = MaxSequence THEN Renumbered ELSE entries
               sequence == IF next_sequence = MaxSequence THEN Cardinality(Published) + 1
                                                          ELSE next_sequence
    <3>1. op \in Live \ Published /\ Numbered(current, sequence, op, outcome)
      BY <2>2 DEF Publish
    <3>2. ASSUME NEW o \in Published
          PROVE  current[o].sequence = IF next_sequence = MaxSequence
                                         THEN Rank(entries[o].sequence) ELSE entries[o].sequence
      <4>1. CASE next_sequence # MaxSequence
        BY <4>1
      <4>2. CASE next_sequence = MaxSequence
        <5>1. current[o] = [entries[o] EXCEPT !.sequence = Rank(entries[o].sequence)]
          BY <4>2, <2>0 DEF Renumbered
        <5> QED BY <5>1, <4>2, <2>0 DEF Entry
      <4> QED BY <4>1, <4>2
    <3>3. DOMAIN current = Operations
      BY Zenon DEF Renumbered, QInv, TypeOK
    <3>4. sequence \in Nat /\ \A o \in Published :
             current[o].sequence \in Nat /\ current[o].sequence < sequence
      BY SMTT(30), <3>2, <2>0, RankOrder, FiniteQueue, QueueAssumption DEF QInv, TypeOK, SequencesFresh
    <3>5. \A o, other \in Published :
             entries[o].sequence < entries[other].sequence <=>
                 current[o].sequence < current[other].sequence
      <4> SUFFICES ASSUME NEW o \in Published, NEW other \in Published
                   PROVE  entries[o].sequence < entries[other].sequence <=>
                              current[o].sequence < current[other].sequence
        BY Zenon
      <4>1. /\ entries[o].sequence < entries[other].sequence =>
                  Rank(entries[o].sequence) < Rank(entries[other].sequence)
            /\ entries[other].sequence < entries[o].sequence =>
                  Rank(entries[other].sequence) < Rank(entries[o].sequence)
            /\ Rank(entries[o].sequence) \in Nat /\ Rank(entries[other].sequence) \in Nat
        BY RankOrder, FiniteQueue
      <4> HIDE DEF current
      <4>2. entries[o].sequence = entries[other].sequence => current[o].sequence = current[other].sequence
        BY <3>2
      <4> QED BY <4>1, <4>2, <3>2, <3>4, <2>0
    <3> HIDE DEF current, sequence
    <3>6. /\ entries' = [current EXCEPT ![op] = [current[op] EXCEPT !.outcome = outcome,
                                                                    !.sequence = sequence]]
      BY <3>1 DEF Numbered
    <3>7. \A o \in Published : o # op /\ o \in Operations
      BY <3>1, <2>0
    <3>8. \A o \in Operations \ {op} : entries'[o] = current[o]
      BY <3>3, <3>6
    <3>9. current[op] \in Entry
      <4>1. entries[op] \in Entry /\ op \notin Published
        BY <3>1 DEF Live, QInv, TypeOK
      <4>2. current[op] = entries[op]
        BY <4>1 DEF current, Renumbered
      <4> QED BY <4>1, <4>2
    <3>10. entries'[op].sequence = sequence
      BY <3>3, <3>6, <3>9 DEF Entry
    <3>11. \A new \in Published' : new \notin Published => new = op
      <4> SUFFICES ASSUME NEW new \in Published', new \notin Published, new # op PROVE FALSE
        OBVIOUS
      <4>1. new \in Operations /\ entries'[new] # Nothing /\ entries'[new].sequence # 0
        BY DEF Published, Live
      <4>2. entries'[new] = entries[new]
        BY Zenon, <3>8, <4>1 DEF current, Renumbered
      <4> QED BY <4>1, <4>2 DEF Published, Live
    <3>12. OrderStep
      BY <3>5, <3>7, <3>8 DEF OrderStep, Before
    <3>13. LastStep
      BY Zenon, <3>4, <3>7, <3>8, <3>10, <3>11 DEF LastStep, Before
    <3> QED BY <3>12, <3>13
  <2>3. ASSUME NEW op \in Operations, Remove(op) PROVE OrderStep /\ LastStep
    <3>1. entries' = [entries EXCEPT ![op] = Nothing]
      BY <2>3 DEF Remove
    <3>2. entries'[op] = Nothing /\ \A o \in Operations \ {op} : entries'[o] = entries[o]
      BY <3>1 DEF QInv, TypeOK
    <3>3. \A o \in Published' : o \in Published /\ entries'[o] = entries[o]
      BY <3>2 DEF Published, Live
    <3> QED BY <3>3 DEF OrderStep, LastStep, Before
  <2> QED BY <2>1, <2>2, <2>3 DEF Next
<1>2. Spec => []QInv
  BY SequencesAlwaysFresh, PTL DEF QInv
<1> QED BY <1>1, <1>2, PTL DEF Spec, FifoOrder
=============================================================================

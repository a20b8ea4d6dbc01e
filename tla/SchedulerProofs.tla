-------------------------- MODULE SchedulerProofs --------------------------
(***************************************************************************)
(* Proofs about the scheduler, for every number of CPUs and table slots,   *)
(* every set of task kinds and every topology, and about the lock tracker, *)
(* for every set of CPUs, of locks and of kernel paths.                    *)
(***************************************************************************)
EXTENDS Scheduler, LockOrder, WellFoundedInduction, TLAPS

----------------------------------------------------------------------------
(* The scheduler.                                                          *)

(* No kind of task both migrates and calls the blocking primitives.        *)
BlockersPinned == \A k \in Kinds : ~(k.migratable /\ k.blocks)

(* A live task knows its CPU: the CPU executing or leaving it is its owner.*)
Placement ==
    /\ \A c \in CPU : /\ task[cur[c]].state = "Running"
                      /\ task[cur[c]].cpu = c
                      /\ pc[c] # "handoff" => phys[c] = cur[c]
    /\ \A s \in Slot : task[s].state = "Running" => cur[task[s].cpu] = s
    /\ \A s \in Slot : task[s].state = "Switching" => out[task[s].cpu] = s
    /\ \A c \in CPU : out[c] # Nobody => /\ task[out[c]].state = "Switching"
                                         /\ task[out[c]].cpu = c
                                         /\ pc[c] # "run"
                                         /\ pc[c] = "handoff" => phys[c] = out[c]

(* The idle tasks stay where they are and never block.                     *)
IdleStays ==
    \A c \in CPU : /\ task[c].kind = IdleKind
                   /\ task[c].cpu = c
                   /\ task[c].state \in {"Ready", "Running", "Switching"}
                   /\ ~task[c].termination_signal

KindsKnown == \A s \in Slot : task[s].kind \in Kinds \cup {IdleKind}

(* The task a CPU is physically leaving stays with that CPU until it is off*)
(* the stack: whatever wakes or kills it, nothing can move or recycle it.  *)
Leaving ==
    \A c \in CPU : pc[c] = "handoff" =>
        /\ task[phys[c]].cpu = c
        /\ task[phys[c]].state \notin {"Empty", "Running"}
        /\ task[phys[c]].state \in {"Ready", "Blocked", "Sleeping"}
             => ~task[phys[c]].kind.migratable

IInv ==
    /\ TypeOK
    /\ Placement
    /\ AffinityHolds
    /\ IdleStays
    /\ KindsKnown
    /\ ExitTruthful
    /\ BlockersPinned => Leaving

----------------------------------------------------------------------------
(* Every non-empty set of naturals has a smallest element.                 *)
LEMMA Smallest ==
    ASSUME NEW S \in SUBSET Nat, S # {}
    PROVE  \E x \in S : \A y \in S : x <= y
<1>1. \E x \in S : \A y \in S : ~(<<y, x>> \in OpToRel(<, Nat))
  BY NatLessThanWellFounded, WFMin
<1>2. \A x, y \in Nat : y < x => <<y, x>> \in OpToRel(<, Nat)
  BY Zenon DEF OpToRel
<1>3. PICK x \in S : \A y \in S : ~(y < x)
  BY <1>1, <1>2, Zenon
<1> QED BY <1>3

(* prepare_switch selects a Ready task of this CPU.                        *)
LEMMA SelectedRunnable ==
    ASSUME TypeOK, NEW T, NEW c \in CPU, Best(T, c) # {}
    PROVE  Selected(T, c) \in Runnable(T, c)
<1> DEFINE B == Best(T, c)
<1>1. PICK b \in B : TRUE
  OBVIOUS
<1> DEFINE start == last[c][PriorityOf(b)]
           Offsets == {Offset(start, s) : s \in B}
<1>2. B \subseteq Slot /\ \A s \in B : PriorityOf(s) = PriorityOf(b)
  BY DEF Best, Runnable, PriorityOf
<1>3. start \in Slot
  BY DEF TypeOK, PriorityOf, Priority
<1>4. \A s \in Slot : Offset(start, s) \in Nat
  BY <1>3, SchedulerAssumption DEF Offset, Slot
<1>5. Offsets \in SUBSET Nat /\ Offsets # {}
  BY <1>1, <1>2, <1>4
<1>6. \E x \in Offsets : \A y \in Offsets : x <= y
  <2> HIDE DEF Offsets
  <2> QED BY <1>5, Smallest
<1>7. \E s \in B : \A o \in B : Offset(start, s) <= Offset(start, o)
  BY <1>6
<1>8. \E s \in B : \A o \in B :
         Offset(last[c][PriorityOf(s)], s) <= Offset(last[c][PriorityOf(s)], o)
  BY <1>7, <1>2
<1>9. Selected(T, c) \in B
  <2> HIDE DEF start, Offsets
  <2> QED BY <1>8 DEF Selected
<1> QED BY <1>9 DEF Best

(* What the primitives do to the table before they call prepare_switch: a  *)
(* task is woken, or the current task blocks, sleeps or dies.              *)
Prepared(T, c) ==
    /\ T \in [Slot -> Tcb]
    /\ \A s \in Slot : /\ T[s].kind = task[s].kind
                       /\ T[s].cpu = task[s].cpu
                       /\ T[s].affinity = task[s].affinity
                       /\ T[s].termination_signal = task[s].termination_signal
    /\ \A s \in Slot \ {cur[c]} :
          \/ T[s].state = task[s].state
          \/ task[s].state \in {"Blocked", "Sleeping"} /\ T[s].state = "Ready"
    /\ \/ T[cur[c]].state = "Running"
       \/ T[cur[c]].state \in {"Blocked", "Sleeping"} /\ task[cur[c]].kind.blocks
       \/ T[cur[c]].state = "Dead" /\ ~Idle(cur[c])

(* Reaping keeps every slot, or empties a dead one of this CPU.            *)
LEMMA ReapedTable ==
    ASSUME IInv, NEW c \in CPU, NEW T, Prepared(T, c)
    PROVE  /\ Reaped(T, c) \in [Slot -> Tcb]
           /\ \A s \in Slot : \/ Reaped(T, c)[s] = T[s]
                              \/ /\ s # cur[c] /\ T[s].state = "Dead" /\ T[s].cpu = c
                                 /\ Reaped(T, c)[s] = EmptyTcb
           /\ EmptyTcb.state = "Empty" /\ EmptyTcb.kind = IdleKind
<1>1. EmptyTcb \in Tcb
  BY SchedulerAssumption DEF EmptyTcb, Tcb, State, Kind, IdleKind, CPU
<1> QED BY <1>1 DEF Reaped, Prepared, EmptyTcb

(* prepare_switch, when it selects a task.                                 *)
LEMMA SwitchKeeps ==
    ASSUME IInv, NEW c \in CPU, NEW T, Prepared(T, c), Executing(c), SwitchAway(T, c),
           exited' \subseteq exited \cup {cur[c]},
           cur[c] \in exited' => T[cur[c]].state = "Dead" \/ cur[c] \in exited
    PROVE  IInv'
<1> DEFINE R == Reaped(T, c)
           next == Selected(R, c)
           me == cur[c]
<1>1. /\ R \in [Slot -> Tcb]
      /\ \A s \in Slot : \/ R[s] = T[s]
                         \/ /\ s # me /\ T[s].state = "Dead" /\ T[s].cpu = c
                            /\ R[s] = EmptyTcb
      /\ EmptyTcb.state = "Empty" /\ EmptyTcb.kind = IdleKind
  BY ReapedTable
<1>2. next \in Slot /\ R[next].state = "Ready" /\ R[next].cpu = c /\ c \in R[next].affinity
  BY SelectedRunnable DEF SwitchAway, Runnable, IInv
<1>3. me \in Slot /\ me # next
  BY <1>1, <1>2 DEF IInv, TypeOK, Prepared
<1>4. /\ task' = [R EXCEPT ![me].state = IF @ = "Running" THEN "Switching" ELSE @,
                           ![next].state = "Running",
                           ![next].ever_dispatched = TRUE]
      /\ out' = IF R[me].state = "Running" THEN [out EXCEPT ![c] = me] ELSE out
      /\ cur' = [cur EXCEPT ![c] = next]
      /\ last' = [last EXCEPT ![c][PriorityOf(next)] = next]
      /\ pc' = [pc EXCEPT ![c] = "handoff"]
      /\ phys' = phys
  BY DEF SwitchAway, HandedOff
<1>5. /\ pc[c] = "run" /\ out[c] = Nobody /\ phys[c] = me
      /\ task[me].state = "Running" /\ task[me].cpu = c
  BY DEF Executing, IInv, Placement, TypeOK
<1> HIDE DEF R, next, me
<1> DEFINE left == IF R[me].state = "Running" THEN "Switching" ELSE R[me].state
           A == [R[me] EXCEPT !.state = left]
           B == [R[next] EXCEPT !.state = "Running", !.ever_dispatched = TRUE]
<1>6. /\ task' \in [Slot -> Tcb]
      /\ task'[me] = A /\ task'[next] = B
      /\ \A s \in Slot \ {me, next} : task'[s] = R[s]
  <2>1. task' = [[R EXCEPT ![me] = A] EXCEPT ![next] = B]
    BY Zenon, <1>1, <1>2, <1>3, <1>4
  <2>2. R[me] \in Tcb /\ R[next] \in Tcb
    BY <1>1, <1>2, <1>3
  <2>3. A \in Tcb /\ B \in Tcb
    BY Zenon, <2>2 DEF Tcb, State
  <2> HIDE DEF A, B
  <2> QED BY <2>1, <2>3, <1>1, <1>2, <1>3
<1>fields. /\ A.state = left /\ A.kind = R[me].kind /\ A.cpu = R[me].cpu
       /\ A.affinity = R[me].affinity /\ A.termination_signal = R[me].termination_signal
       /\ B.state = "Running" /\ B.kind = R[next].kind /\ B.cpu = R[next].cpu
       /\ B.affinity = R[next].affinity /\ B.termination_signal = R[next].termination_signal
  BY <1>1, <1>2, <1>3 DEF Tcb
<1> HIDE DEF A, B
<1>7. TypeOK'
  <2>1. last' \in [CPU -> [Priority -> Slot]]
    BY <1>2, <1>4 DEF IInv, TypeOK, PriorityOf, Priority
  <2>2. exited' \subseteq Slot
    BY <1>3 DEF IInv, TypeOK, me
  <2> QED BY Zenon, <1>2, <1>3, <1>4, <1>6, <2>1, <2>2 DEF IInv, TypeOK
<1>8. \A s \in Slot : \/ /\ task'[s].kind = task[s].kind
                         /\ task'[s].cpu = task[s].cpu
                         /\ task'[s].affinity = task[s].affinity
                         /\ task'[s].termination_signal = task[s].termination_signal
                      \/ task'[s].state = "Empty" /\ task'[s].kind = IdleKind
  BY <1>1, <1>2, <1>3, <1>6, <1>fields DEF Prepared
<1>9. \A s \in Slot \ {me, next} :
         \/ task'[s].state = task[s].state
         \/ task[s].state \in {"Blocked", "Sleeping"} /\ task'[s].state = "Ready"
         \/ task[s].state = "Dead" /\ task'[s].state = "Empty" /\ task[s].cpu = c
  BY <1>1, <1>6 DEF Prepared, me
<1>10. /\ task'[next].state = "Running" /\ task'[next].cpu = c
       /\ task[next].state \in {"Ready", "Blocked", "Sleeping"}
       /\ task[next].cpu = c
  <2>1. R[next] = T[next]
    BY <1>1, <1>2
  <2> QED BY <2>1, <1>2, <1>3, <1>6, <1>fields DEF Prepared, me
<1>11. /\ R[me] = T[me] /\ task'[me].cpu = c /\ task'[me].kind = task[me].kind
       /\ \/ T[me].state = "Running" /\ task'[me].state = "Switching" /\ out'[c] = me
          \/ /\ T[me].state \in {"Blocked", "Sleeping"} /\ task[me].kind.blocks
             /\ task'[me].state = T[me].state /\ out' = out
          \/ /\ T[me].state = "Dead" /\ ~Idle(me)
             /\ task'[me].state = "Dead" /\ out' = out
  <2>1. R[me] = T[me]
    BY <1>1, <1>3
  <2>2. out \in [CPU -> Slot \cup {Nobody}]
    BY DEF IInv, TypeOK
  <2>3. /\ T[me].kind = task[me].kind /\ T[me].cpu = c
        /\ \/ T[me].state = "Running"
           \/ T[me].state \in {"Blocked", "Sleeping"} /\ task[me].kind.blocks
           \/ T[me].state = "Dead" /\ ~Idle(me)
    BY <1>3, <1>5 DEF Prepared, me
  <2>4. /\ task'[me].cpu = T[me].cpu /\ task'[me].kind = T[me].kind
        /\ task'[me].state = left
    BY <2>1, <1>6, <1>fields
  <2>5. out' = IF T[me].state = "Running" THEN [out EXCEPT ![c] = me] ELSE out
    BY <2>1, <1>4
  <2> QED BY <2>1, <2>2, <2>3, <2>4, <2>5
<1>12. \A d \in CPU \ {c} : /\ cur'[d] = cur[d] /\ out'[d] = out[d] /\ pc'[d] = pc[d]
                            /\ cur[d] # me /\ cur[d] # next
                            /\ out[d] # me /\ out[d] # next
  <2>1. Nobody \notin Slot
    BY SchedulerAssumption DEF Nobody, Slot
  <2> QED BY <2>1, <1>2, <1>3, <1>4, <1>5, <1>10 DEF IInv, TypeOK, Placement
<1>13. cur'[c] = next /\ pc'[c] = "handoff" /\ phys' = phys
  BY <1>4 DEF IInv, TypeOK
<1>14. Placement'
  <2>1. \A d \in CPU : /\ task'[cur'[d]].state = "Running"
                       /\ task'[cur'[d]].cpu = d
                       /\ pc'[d] # "handoff" => phys'[d] = cur'[d]
    <3>1. ASSUME NEW d \in CPU \ {c}
          PROVE  /\ task'[cur[d]].state = "Running"
                 /\ task'[cur[d]].cpu = d
                 /\ pc[d] # "handoff" => phys[d] = cur[d]
      BY <1>8, <1>9, <1>12 DEF IInv, TypeOK, Placement
    <3> QED BY <3>1, <1>10, <1>12, <1>13
  <2>2. \A s \in Slot : task'[s].state = "Running" => cur'[task'[s].cpu] = s
    <3>1. ASSUME NEW s \in Slot \ {me, next}, task'[s].state = "Running"
          PROVE  cur'[task'[s].cpu] = s
      <4>1. task[s].state = "Running" /\ task'[s].cpu = task[s].cpu /\ task[s].cpu \in CPU
        BY Zenon, <3>1, <1>8, <1>9 DEF IInv, TypeOK, Tcb
      <4>2. cur[task[s].cpu] = s /\ task[s].cpu # c
        BY <4>1, <3>1 DEF IInv, Placement, me
      <4> QED BY <4>1, <4>2, <1>12
    <3> QED BY <3>1, <1>3, <1>10, <1>11, <1>13
  <2>3. \A s \in Slot : task'[s].state = "Switching" => out'[task'[s].cpu] = s
    <3>1. ASSUME NEW s \in Slot \ {me, next}, task'[s].state = "Switching"
          PROVE  out'[task'[s].cpu] = s
      <4>1. task[s].state = "Switching" /\ task'[s].cpu = task[s].cpu /\ task[s].cpu \in CPU
        BY Zenon, <3>1, <1>8, <1>9 DEF IInv, TypeOK, Tcb
      <4>2. out[task[s].cpu] = s /\ task[s].cpu # c
        BY <4>1, <1>5, <3>1, SchedulerAssumption DEF IInv, Placement, Nobody, Slot
      <4> QED BY <4>1, <4>2, <1>12
    <3> QED BY <3>1, <1>10, <1>11
  <2>4. \A d \in CPU : out'[d] # Nobody => /\ task'[out'[d]].state = "Switching"
                                           /\ task'[out'[d]].cpu = d
                                           /\ pc'[d] # "run"
                                           /\ pc'[d] = "handoff" => phys'[d] = out'[d]
    <3>1. ASSUME NEW d \in CPU \ {c}, out[d] # Nobody
          PROVE  /\ task'[out[d]].state = "Switching"
                 /\ task'[out[d]].cpu = d
                 /\ pc[d] # "run"
                 /\ pc[d] = "handoff" => phys[d] = out[d]
      BY <3>1, <1>8, <1>9, <1>12 DEF IInv, TypeOK, Placement
    <3> QED BY <3>1, <1>5, <1>11, <1>12, <1>13
  <2> QED BY <2>1, <2>2, <2>3, <2>4 DEF Placement
<1>15. AffinityHolds'
  <2>1. ASSUME NEW s \in Slot, task'[s].state \notin {"Empty", "Dead"}
        PROVE  task[s].state \notin {"Empty", "Dead"}
    BY <2>1, <1>5, <1>9, <1>10, <1>3
  <2> QED BY <2>1, <1>8 DEF IInv, AffinityHolds
<1>16. IdleStays'
  <2>1. CPU \subseteq Slot
    BY SchedulerAssumption DEF CPU, Slot
  <2>2. ASSUME NEW d \in CPU
        PROVE  task'[d].state \in {"Ready", "Running", "Switching"}
    BY <2>1, <1>9, <1>10, <1>11 DEF IInv, IdleStays, IdleKind, Idle
  <2> QED BY <2>1, <2>2, <1>8 DEF IInv, IdleStays
<1>17. KindsKnown'
  BY <1>8 DEF IInv, KindsKnown
<1>18. ExitTruthful'
  <2>1. ASSUME NEW s \in exited' PROVE task'[s].state \in {"Dead", "Empty"}
    <3>1. CASE s = me
      BY <3>1, <1>5, <1>11, <2>1 DEF IInv, ExitTruthful, me
    <3>2. CASE s # me
      <4>1. s \in exited /\ s \in Slot /\ task[s].state \in {"Dead", "Empty"}
        BY <3>2, <2>1 DEF IInv, ExitTruthful, TypeOK, me
      <4> QED BY <4>1, <3>2, <1>9, <1>10
    <3> QED BY <3>1, <3>2
  <2> QED BY <2>1 DEF ExitTruthful
<1>19. BlockersPinned => Leaving'
  <2> SUFFICES ASSUME BlockersPinned, NEW d \in CPU, pc'[d] = "handoff"
               PROVE  /\ task'[phys[d]].cpu = d
                      /\ task'[phys[d]].state \notin {"Empty", "Running"}
                      /\ task'[phys[d]].state \in {"Ready", "Blocked", "Sleeping"}
                           => ~task'[phys[d]].kind.migratable
    BY <1>13 DEF Leaving
  <2>1. CASE d = c
    <3>1. task[me].kind.blocks => ~task[me].kind.migratable
      BY <1>3 DEF IInv, KindsKnown, BlockersPinned, IdleKind
    <3> QED BY <2>1, <3>1, <1>5, <1>11
  <2>2. CASE d # c
    <3> DEFINE p == phys[d]
    <3>1. /\ p \in Slot /\ task[p].cpu = d
          /\ task[p].state \notin {"Empty", "Running"}
          /\ task[p].state \in {"Ready", "Blocked", "Sleeping"} => ~task[p].kind.migratable
      BY <2>2, <1>12 DEF IInv, Leaving, TypeOK
    <3>2. p # me /\ p # next
      BY <3>1, <2>2, <1>5, <1>10
    <3> QED BY <3>1, <3>2, <2>2, <1>8, <1>9
  <2> QED BY <2>1, <2>2
<1> QED BY <1>7, <1>14, <1>15, <1>16, <1>17, <1>18, <1>19 DEF IInv

(* The changes one slot of the table may undergo while every CPU keeps its *)
(* current task.                                                           *)
SamePlace(s) ==
    /\ task'[s].kind = task[s].kind
    /\ task'[s].cpu = task[s].cpu
    /\ task'[s].affinity = task[s].affinity

Change(s) ==
    \/ SamePlace(s) /\ task'[s].state = task[s].state
    \/ /\ SamePlace(s) /\ task[s].state \in {"Blocked", "Sleeping"}
       /\ task'[s].state = "Ready"
    \/ /\ SamePlace(s) /\ task[s].state \in {"Ready", "Blocked", "Sleeping"}
       /\ task[s].kind.user /\ task'[s].state = "Dead"
    \/ /\ task[s].state = "Ready" /\ task[s].kind.migratable
       /\ task'[s].state = "Ready" /\ task'[s].kind = task[s].kind
       /\ task'[s].cpu \in task'[s].affinity
    \/ /\ task[s].state = "Empty" /\ task'[s].state = "Ready"
       /\ task'[s].kind \in Kinds /\ task'[s].cpu \in task'[s].affinity
       /\ ~task'[s].kind.migratable => task'[s].affinity = {task'[s].cpu}
       /\ s \notin exited'
    \/ /\ task[s].state = "Dead" /\ pc[task[s].cpu] = "run"
       /\ task'[s].state = "Empty" /\ task'[s].kind = IdleKind

(* An operation on the table alone keeps the invariant.                    *)
LEMMA TableKeeps ==
    ASSUME IInv, UNCHANGED <<cur, out, phys, pc>>,
           last' \in [CPU -> [Priority -> Slot]],
           task' \in [Slot -> Tcb],
           \A s \in Slot : Change(s),
           \A s \in CPU : ~task'[s].termination_signal,
           exited' \subseteq Slot,
           \A s \in exited' \ exited : task'[s].state = "Dead"
    PROVE  IInv'
<1>1. TypeOK'
  BY DEF IInv, TypeOK
<1>2. \A s \in Slot : task[s].state \in {"Running", "Switching"} \/ task'[s].state \in {"Running", "Switching"}
         => SamePlace(s) /\ task'[s].state = task[s].state
  BY DEF Change
<1>3. Placement'
  <2>1. \A c \in CPU : cur[c] \in Slot /\ out[c] \in Slot \cup {Nobody}
    BY DEF IInv, TypeOK
  <2> QED BY <1>2, <2>1 DEF IInv, Placement, SamePlace
<1>4. AffinityHolds'
  BY DEF IInv, AffinityHolds, Change, SamePlace
<1>5. IdleStays'
  <2>1. CPU \subseteq Slot
    BY SchedulerAssumption DEF CPU, Slot
  <2>2. ASSUME NEW c \in CPU
        PROVE  /\ task'[c].kind = IdleKind
               /\ task'[c].cpu = c
               /\ task'[c].state \in {"Ready", "Running", "Switching"}
    BY <2>1 DEF IInv, IdleStays, IdleKind, Change, SamePlace
  <2> QED BY <2>2 DEF IdleStays
<1>6. KindsKnown'
  BY DEF IInv, KindsKnown, Change, SamePlace
<1>7. ExitTruthful'
  <2>1. ASSUME NEW s \in exited' PROVE task'[s].state \in {"Dead", "Empty"}
    BY <2>1 DEF IInv, ExitTruthful, Change
  <2> QED BY <2>1 DEF ExitTruthful
<1>8. BlockersPinned => Leaving'
  <2> SUFFICES ASSUME BlockersPinned, NEW c \in CPU, pc[c] = "handoff"
               PROVE  /\ task'[phys[c]].cpu = c
                      /\ task'[phys[c]].state \notin {"Empty", "Running"}
                      /\ task'[phys[c]].state \in {"Ready", "Blocked", "Sleeping"}
                           => ~task'[phys[c]].kind.migratable
    BY DEF Leaving
  <2> DEFINE p == phys[c]
  <2>1. /\ p \in Slot /\ task[p].cpu = c
        /\ task[p].state \notin {"Empty", "Running"}
        /\ task[p].state \in {"Ready", "Blocked", "Sleeping"} => ~task[p].kind.migratable
    BY DEF IInv, Leaving, TypeOK
  <2> QED BY <2>1 DEF Change, SamePlace
<1> QED BY <1>1, <1>3, <1>4, <1>5, <1>6, <1>7, <1>8 DEF IInv

(* The first empty slot, and the lowest CPU of a mask, exist.              *)
LEMMA MinIn ==
    ASSUME NEW S, S \subseteq Nat, S # {}
    PROVE  Min(S) \in S
<1>1. \E x \in S : \A y \in S : x <= y
  BY Smallest
<1> QED BY Zenon, <1>1 DEF Min

----------------------------------------------------------------------------
\* The scheduler starts in the invariant: every CPU runs its idle task.
LEMMA InitKeeps == Init => IInv
<1> SUFFICES ASSUME Init PROVE IInv
  OBVIOUS
<1>1. CPU \subseteq Slot /\ 0 \in CPU /\ 0 \in Slot
  BY SchedulerAssumption DEF CPU, Slot
<1>2. EmptyTcb \in Tcb /\ \A c \in CPU : [NewTcb(IdleKind, c, {c}) EXCEPT !.state = "Running"] \in Tcb
  BY Zenon, <1>1 DEF EmptyTcb, NewTcb, Tcb, State, Kind, IdleKind
<1>3. TypeOK
  BY Zenon, <1>1, <1>2 DEF Init, TypeOK, Idle, Priority
<1>4. \A s \in Slot : \/ /\ s \in CPU /\ task[s].state = "Running" /\ task[s].kind = IdleKind
                         /\ task[s].cpu = s /\ task[s].affinity = {s}
                         /\ ~task[s].termination_signal
                      \/ s \notin CPU /\ task[s].state = "Empty" /\ task[s].kind = IdleKind
  BY Zenon DEF Init, Idle, EmptyTcb, NewTcb
<1>5. \A c \in CPU : cur[c] = c /\ out[c] = Nobody /\ phys[c] = c /\ pc[c] = "run"
  BY DEF Init
<1>6. Placement /\ AffinityHolds /\ IdleStays /\ KindsKnown /\ Leaving
  BY <1>1, <1>4, <1>5 DEF Placement, AffinityHolds, IdleStays, KindsKnown, Leaving
<1>7. ExitTruthful
  BY DEF Init, ExitTruthful
<1> QED BY <1>3, <1>6, <1>7 DEF IInv

(* A step of the current task of a CPU, or of the hand-off.                *)
LEMMA CpuStep ==
    ASSUME IInv, NEW c \in CPU, OnCpu(c)
    PROVE  IInv'
<1> DEFINE me == cur[c]
<1>1. me \in Slot /\ task \in [Slot -> Tcb] /\ task[me].state = "Running"
  BY DEF IInv, TypeOK, Placement
<1>idle. \A s \in CPU : s \in Slot /\ ~task[s].termination_signal
  BY SMTT(30), SchedulerAssumption DEF IInv, IdleStays, CPU, Slot
<1>2. \A S \in SUBSET Expirable : Prepared(Woken(S), c)
  <2> SUFFICES ASSUME NEW S \in SUBSET Expirable PROVE Prepared(Woken(S), c)
    OBVIOUS
  <2>1. \A s \in Slot : /\ Woken(S)[s] \in Tcb
                        /\ Woken(S)[s].kind = task[s].kind
                        /\ Woken(S)[s].cpu = task[s].cpu
                        /\ Woken(S)[s].affinity = task[s].affinity
                        /\ Woken(S)[s].termination_signal = task[s].termination_signal
                        /\ \/ Woken(S)[s].state = task[s].state
                           \/ /\ task[s].state \in {"Blocked", "Sleeping"}
                              /\ Woken(S)[s].state = "Ready"
    <3>1. ASSUME NEW s \in S
          PROVE  /\ Woken(S)[s] \in Tcb
                 /\ Woken(S)[s].kind = task[s].kind
                 /\ Woken(S)[s].cpu = task[s].cpu
                 /\ Woken(S)[s].affinity = task[s].affinity
                 /\ Woken(S)[s].termination_signal = task[s].termination_signal
                 /\ Woken(S)[s].state = "Ready"
                 /\ task[s].state \in {"Blocked", "Sleeping"}
      <4>1. /\ s \in Slot /\ task[s] \in Tcb /\ task[s].state \in {"Blocked", "Sleeping"}
            /\ Woken(S)[s] = [task[s] EXCEPT !.state = "Ready", !.deadline = FALSE]
        BY Zenon, <3>1, <1>1 DEF Woken, Expirable
      <4> QED BY Zenon, <4>1 DEF Tcb, State
    <3>2. \A s \in Slot \ S : Woken(S)[s] = task[s]
      BY DEF Woken
    <3> QED BY <3>1, <3>2, <1>1
  <2> QED BY Zenon, <2>1, <1>1 DEF Prepared, Woken
<1>3. Prepared(task, c)
  BY <1>1 DEF Prepared
<1>4. ASSUME NEW T, Prepared(T, c), T[me].state = "Running", StayOn(T, c), Executing(c),
             exited' = exited
      PROVE  IInv'
  <2>1. \A s \in Slot : Change(s)
    <3>1. ASSUME NEW s \in Slot PROVE Change(s)
      <4>1. task' = Reaped(T, c) /\ pc[c] = "run"
        BY Zenon, <1>4 DEF StayOn, Executing
      <4>2. \/ task'[s] = T[s]
            \/ /\ s # me /\ T[s].state = "Dead" /\ T[s].cpu = c /\ task'[s] = EmptyTcb
        BY <4>1, <1>4, ReapedTable
      <4>3. EmptyTcb.state = "Empty" /\ EmptyTcb.kind = IdleKind
        BY DEF EmptyTcb
      <4> QED BY <4>1, <4>2, <4>3, <1>1, <1>4 DEF Prepared, Change, SamePlace
    <3> QED BY Zenon, <3>1
  <2>2. task' \in [Slot -> Tcb]
    BY <1>4, ReapedTable DEF StayOn
  <2>3. \A s \in CPU : ~task'[s].termination_signal
    <3>1. EmptyTcb.termination_signal = FALSE
      BY DEF EmptyTcb
    <3> QED BY <3>1, <1>idle, <1>4, ReapedTable DEF StayOn, Prepared
  <2> QED BY <2>1, <2>2, <2>3, <1>4, TableKeeps DEF StayOn, IInv, TypeOK
<1>5. CASE YieldNow(c)
  <2>1. CASE SwitchAway(task, c)
    BY <1>3, <1>5, <2>1, SwitchKeeps DEF YieldNow
  <2>2. CASE StayOn(task, c)
    BY <1>1, <1>3, <1>4, <1>5, <2>2 DEF YieldNow
  <2> QED BY <1>5, <2>1, <2>2 DEF YieldNow
<1>6. CASE Tick(c)
  <2>1. PICK S \in SUBSET Expirable : task' = Woken(S)
    BY Zenon, <1>6 DEF Tick
  <2>2. \A s \in Slot : Change(s)
    <3>1. task'[me].state = "Running"
      BY Zenon, <2>1, <1>1 DEF Woken, Expirable
    <3> QED BY SMTT(30), <2>1, <1>1, <1>2, <3>1 DEF Prepared, Change, SamePlace
  <2>3. task' \in [Slot -> Tcb]
    BY <2>1, <1>2 DEF Prepared
  <2>4. \A s \in CPU : ~task'[s].termination_signal
    BY <2>1, <1>2, <1>idle DEF Prepared
  <2> QED BY <2>2, <2>3, <2>4, <1>6, TableKeeps DEF Tick, IInv, TypeOK
<1>7. CASE PreemptFromInterrupt(c)
  <2>1. PICK S \in SUBSET Expirable : SwitchAway(Woken(S), c) \/ StayOn(Woken(S), c)
    BY Zenon, <1>7 DEF PreemptFromInterrupt
  <2>2. Woken(S)[me].state = "Running"
    BY Zenon, <1>1 DEF Woken, Expirable
  <2>3. CASE SwitchAway(Woken(S), c)
    BY <1>2, <1>7, <2>3, SwitchKeeps DEF PreemptFromInterrupt
  <2>4. CASE StayOn(Woken(S), c)
    BY <1>2, <1>4, <1>7, <2>2, <2>4 DEF PreemptFromInterrupt
  <2> QED BY <2>1, <2>3, <2>4
<1>8. ASSUME NEW T, T \in [Slot -> Tcb],
             \A s \in Slot \ {me} : T[s] = task[s],
             T[me].kind = task[me].kind, T[me].cpu = task[me].cpu,
             T[me].affinity = task[me].affinity,
             T[me].termination_signal = task[me].termination_signal,
             \/ T[me].state \in {"Blocked", "Sleeping"} /\ task[me].kind.blocks
             \/ T[me].state = "Dead" /\ ~Idle(me)
      PROVE  Prepared(T, c)
  BY <1>8, <1>1 DEF Prepared
<1>9. CASE WaitForEventUntil(c)
  <2>1. CASE task[me].event_pending
    <3>1. /\ task' = [task EXCEPT ![me].event_pending = FALSE]
          /\ UNCHANGED <<cur, out, last, phys, pc, exited>>
      BY <2>1, <1>9 DEF WaitForEventUntil
    <3>2. task' \in [Slot -> Tcb] /\ \A s \in Slot : Change(s)
      BY Zenon, <3>1, <1>1 DEF Tcb, Change, SamePlace
    <3>3. \A s \in CPU : ~task'[s].termination_signal
      BY <3>1, <1>1, <1>idle DEF Tcb
    <3> QED BY <3>1, <3>2, <3>3, TableKeeps DEF IInv, TypeOK
  <2>2. CASE ~task[me].event_pending
    <3>1. PICK timed \in BOOLEAN :
            SwitchAway([task EXCEPT ![cur[c]].state = "Blocked",
                                    ![cur[c]].deadline = timed], c)
      BY Zenon, <2>2, <1>9 DEF WaitForEventUntil
    <3> DEFINE T == [task EXCEPT ![cur[c]].state = "Blocked", ![cur[c]].deadline = timed]
    <3>2. /\ T \in [Slot -> Tcb] /\ \A s \in Slot \ {me} : T[s] = task[s]
          /\ T[me].kind = task[me].kind /\ T[me].cpu = task[me].cpu
          /\ T[me].affinity = task[me].affinity /\ T[me].state = "Blocked"
          /\ T[me].termination_signal = task[me].termination_signal
      BY <1>1 DEF Tcb, State
    <3> HIDE DEF T
    <3>3. Prepared(T, c)
      BY <1>8, <1>9, <3>2 DEF WaitForEventUntil, Blocks
    <3> QED BY <3>1, <3>3, <1>9, SwitchKeeps DEF WaitForEventUntil, Blocks, T
  <2> QED BY <2>1, <2>2
<1>block. CASE BlockCurrent(c)
  <2>1. PICK S \in {{}} \cup {{p} : p \in Pagers} : SwitchAway(Faulted(c, S), c)
    BY <1>block DEF BlockCurrent
  <2>2. \A s \in S : task[s].state \in {"Blocked", "Sleeping"}
    BY DEF Pagers
  <2> DEFINE T == Faulted(c, S)
  <2>switch. SwitchAway(T, c)
    BY <2>1
  <2>3. T \in [Slot -> Tcb]
    BY <1>1 DEF Faulted, Tcb, State
  <2>4. \A s \in Slot : /\ T[s].kind = task[s].kind
                        /\ T[s].cpu = task[s].cpu
                        /\ T[s].affinity = task[s].affinity
                        /\ T[s].termination_signal = task[s].termination_signal
    BY <1>1 DEF Faulted, Tcb
  <2>5. \A s \in Slot \ {me} :
          \/ T[s].state = task[s].state
          \/ task[s].state \in {"Blocked", "Sleeping"} /\ T[s].state = "Ready"
    BY <1>1, <2>2 DEF Faulted, Tcb
  <2>6. T[me].state = "Blocked"
    BY <1>1 DEF Faulted, Tcb
  <2> HIDE DEF T
  <2>7. Prepared(T, c)
    BY <1>block, <2>3, <2>4, <2>5, <2>6 DEF Prepared, BlockCurrent, Blocks
  <2> QED BY <2>switch, <2>7, <1>block, SwitchKeeps DEF BlockCurrent, Blocks
<1>10. CASE SleepCurrent(c)
  <2> DEFINE T == [task EXCEPT ![cur[c]].state = "Sleeping"]
  <2>1. SwitchAway(T, c)
    BY <1>10 DEF SleepCurrent
  <2>2. /\ T \in [Slot -> Tcb] /\ \A s \in Slot \ {me} : T[s] = task[s]
        /\ T[me].kind = task[me].kind /\ T[me].cpu = task[me].cpu
        /\ T[me].affinity = task[me].affinity /\ T[me].state = "Sleeping"
        /\ T[me].termination_signal = task[me].termination_signal
    BY <1>1 DEF Tcb, State
  <2> HIDE DEF T
  <2>3. Prepared(T, c)
    BY <1>8, <1>10, <2>2 DEF SleepCurrent, Blocks
  <2> QED BY <2>1, <2>3, <1>10, SwitchKeeps DEF SleepCurrent, Blocks
<1>11. CASE ExitCurrent(c)
  <2> DEFINE T == [task EXCEPT ![cur[c]].state = "Dead"]
  <2>1. SwitchAway(T, c)
    BY <1>11 DEF ExitCurrent
  <2>2. /\ T \in [Slot -> Tcb] /\ \A s \in Slot \ {me} : T[s] = task[s]
        /\ T[me].kind = task[me].kind /\ T[me].cpu = task[me].cpu
        /\ T[me].affinity = task[me].affinity /\ T[me].state = "Dead"
        /\ T[me].termination_signal = task[me].termination_signal
    BY <1>1 DEF Tcb, State
  <2> HIDE DEF T
  <2>3. Prepared(T, c)
    BY <1>8, <1>11, <2>2 DEF ExitCurrent
  <2> QED BY <2>1, <2>2, <2>3, <1>11, SwitchKeeps DEF ExitCurrent
<1>12. CASE HonorCurrentTermination(c)
  BY <1>11, <1>12 DEF HonorCurrentTermination
<1>13. CASE SwitchStacks(c)
  <2>1. /\ UNCHANGED <<task, cur, out, last, exited>>
        /\ phys' = [phys EXCEPT ![c] = cur[c]] /\ pc' = [pc EXCEPT ![c] = "landed"]
        /\ pc[c] = "handoff"
    BY <1>13 DEF SwitchStacks
  <2>2. TypeOK'
    BY <2>1 DEF IInv, TypeOK
  <2>3. Placement'
    BY <2>1 DEF IInv, TypeOK, Placement
  <2>4. BlockersPinned => Leaving'
    BY <2>1 DEF IInv, TypeOK, Leaving
  <2> QED BY <2>1, <2>2, <2>3, <2>4
          DEF IInv, AffinityHolds, IdleStays, KindsKnown, ExitTruthful
<1>14. CASE FinalizeSwitch(c)
  <2> DEFINE o == out[c]
  <2>1. /\ pc[c] = "landed" /\ UNCHANGED <<cur, last, phys>>
        /\ pc' = [pc EXCEPT ![c] = "run"] /\ out' = [out EXCEPT ![c] = Nobody]
    BY <1>14 DEF FinalizeSwitch
  <2>2. /\ task' \in [Slot -> Tcb]
        /\ \A s \in Slot : /\ SamePlace(s)
                           /\ s # o => task'[s] = task[s]
        /\ o \in Slot => /\ task[o].state = "Switching" /\ task[o].cpu = c
                         /\ task'[o].state \in {"Ready", "Dead"}
                         /\ o \in exited' => o \in exited \/ task'[o].state = "Dead"
        /\ exited' \subseteq exited \cup {o} /\ (o \notin Slot => exited' = exited)
    <3> Nobody \notin Slot
      BY SchedulerAssumption DEF Nobody, Slot
    <3>1. CASE o = Nobody
      <4>1. UNCHANGED <<task, exited>>
        BY <3>1, <1>14 DEF FinalizeSwitch
      <4>2. \A s \in Slot : SamePlace(s) /\ task'[s].state = task[s].state
        BY <4>1 DEF SamePlace
      <4> QED BY <3>1, <4>1, <4>2, <1>1
    <3>2. CASE o # Nobody
      <4>1. o \in Slot /\ task[o].state = "Switching" /\ task[o].cpu = c
        BY <3>2 DEF IInv, TypeOK, Placement
      <4>2. CASE task[o].termination_signal
        <5>1. /\ task' = [task EXCEPT ![o].state = "Dead", ![o].termination_signal = FALSE]
              /\ exited' = IF task[o].kind.user THEN exited \cup {o} ELSE exited
          BY <3>2, <4>2, <1>14 DEF FinalizeSwitch, Retired
        <5> QED BY <3>2, <4>1, <5>1, <1>1 DEF SamePlace, Tcb, State
      <4>3. CASE ~task[o].termination_signal
        <5>1. task' = [task EXCEPT ![o].state = "Ready"] /\ exited' = exited
          BY <3>2, <4>3, <1>14 DEF FinalizeSwitch
        <5> QED BY <3>2, <4>1, <5>1, <1>1 DEF SamePlace, Tcb, State
      <4> QED BY <4>2, <4>3
    <3> QED BY <3>1, <3>2
  <2> HIDE DEF o
  <2>3. TypeOK'
    BY <2>1, <2>2 DEF IInv, TypeOK
  <2>4. \A d \in CPU : /\ cur[d] # o
                       /\ d # c => out'[d] = out[d] /\ pc'[d] = pc[d] /\ (o \in Slot => out[d] # o)
    <3>1. Nobody \notin Slot /\ o \in Slot \cup {Nobody}
      BY SchedulerAssumption DEF Nobody, Slot, IInv, TypeOK, CPU, o
    <3> QED BY <3>1, <2>1, <2>2 DEF IInv, TypeOK, Placement
  <2>5. out'[c] = Nobody /\ pc'[c] = "run"
    BY <2>1 DEF IInv, TypeOK
  <2>6. Placement'
    <3>1. \A d \in CPU : /\ task'[cur'[d]].state = "Running"
                         /\ task'[cur'[d]].cpu = d
                         /\ pc'[d] # "handoff" => phys'[d] = cur'[d]
      BY <2>1, <2>2, <2>4, <2>5 DEF IInv, TypeOK, Placement, SamePlace
    <3>2. \A s \in Slot : task'[s].state = "Running" => cur'[task'[s].cpu] = s
      BY <2>1, <2>2 DEF IInv, Placement, SamePlace
    <3>3. ASSUME NEW s \in Slot, task'[s].state = "Switching" PROVE out'[task'[s].cpu] = s
      <4>1. s # o /\ task[s].state = "Switching" /\ task'[s].cpu = task[s].cpu /\ task[s].cpu \in CPU
        BY <2>2, <3>3 DEF SamePlace, IInv, TypeOK, Tcb
      <4>2. out[task[s].cpu] = s
        BY <4>1 DEF IInv, Placement
      <4> QED BY <4>1, <4>2, <2>4 DEF o
    <3>4. \A d \in CPU : out'[d] # Nobody => /\ task'[out'[d]].state = "Switching"
                                             /\ task'[out'[d]].cpu = d
                                             /\ pc'[d] # "run"
                                             /\ pc'[d] = "handoff" => phys'[d] = out'[d]
      <4>1. ASSUME NEW d \in CPU, d # c, out[d] # Nobody
            PROVE  out[d] \in Slot /\ out[d] # o
        BY <4>1, <2>4 DEF IInv, TypeOK, o
      <4> QED BY <4>1, <2>1, <2>2, <2>4, <2>5 DEF IInv, Placement, SamePlace
    <3> QED BY <3>1, <3>2, <3>3, <3>4 DEF Placement
  <2>7. AffinityHolds'
    BY <2>2 DEF IInv, AffinityHolds, SamePlace
  <2>8. IdleStays'
    <3>1. CPU \subseteq Slot
      BY SchedulerAssumption DEF CPU, Slot
    <3>2. ASSUME o \in CPU PROVE task'[o].state = "Ready" /\ ~task'[o].termination_signal
      <4>1. ~task[o].termination_signal /\ o # Nobody
        BY <3>2, <1>idle, SchedulerAssumption DEF Nobody, Slot
      <4>2. task' = [task EXCEPT ![o].state = "Ready"]
        BY <4>1, <1>14 DEF FinalizeSwitch, o
      <4> QED BY <4>1, <4>2, <3>2, <1>idle, <1>1 DEF Tcb
    <3> QED BY <3>1, <3>2, <2>2 DEF IInv, IdleStays, SamePlace
  <2>9. KindsKnown'
    BY <2>2 DEF IInv, KindsKnown, SamePlace
  <2>10. ExitTruthful'
    <3>1. ASSUME NEW s \in exited' PROVE task'[s].state \in {"Dead", "Empty"}
      BY Zenon, <2>2, <3>1 DEF IInv, ExitTruthful, TypeOK
    <3> QED BY <3>1 DEF ExitTruthful
  <2>11. BlockersPinned => Leaving'
    <3> SUFFICES ASSUME BlockersPinned, NEW d \in CPU, pc'[d] = "handoff"
                 PROVE  /\ task'[phys[d]].cpu = d
                        /\ task'[phys[d]].state \notin {"Empty", "Running"}
                        /\ task'[phys[d]].state \in {"Ready", "Blocked", "Sleeping"}
                             => ~task'[phys[d]].kind.migratable
      BY <2>1 DEF Leaving
    <3>1. d # c /\ pc[d] = "handoff" /\ phys[d] \in Slot
      BY <2>4, <2>5 DEF IInv, TypeOK
    <3>2. phys[d] # o
      BY <3>1, <2>2 DEF IInv, Leaving
    <3> QED BY <3>1, <3>2, <2>2 DEF IInv, Leaving, SamePlace
  <2> QED BY <2>3, <2>6, <2>7, <2>8, <2>9, <2>10, <2>11 DEF IInv
<1> QED BY <1>5, <1>6, <1>7, <1>9, <1>block, <1>10, <1>11, <1>12, <1>13, <1>14 DEF OnCpu

(* A step of one CPU on another task.                                      *)
LEMMA TaskStep ==
    ASSUME IInv, NEW s \in Slot, OnTask(s)
    PROVE  IInv'
<1>1. task \in [Slot -> Tcb] /\ task[s] \in Tcb
  BY DEF IInv, TypeOK
<1>2. \A c \in CPU : /\ c \in Slot /\ ~task[c].termination_signal
                     /\ ~task[c].kind.user
  BY SchedulerAssumption DEF IInv, IdleStays, IdleKind, CPU, Slot
<1>3. ASSUME NEW T \in Tcb, task' = [task EXCEPT ![s] = T], Change(s),
             T.termination_signal => task[s].termination_signal \/ task[s].kind.user,
             UNCHANGED <<cur, out, last, phys, pc>>,
             \/ exited' = exited
             \/ exited' = exited \cup {s} /\ T.state = "Dead"
      PROVE  IInv'
  <2>1. task' \in [Slot -> Tcb] /\ task'[s] = T /\ \A o \in Slot \ {s} : task'[o] = task[o]
    BY Zenon, <1>1, <1>3
  <2>2. \A o \in Slot : Change(o)
    BY <1>3, <2>1 DEF Change, SamePlace
  <2>3. \A c \in CPU : ~task'[c].termination_signal
    BY <1>2, <1>3, <2>1
  <2> QED BY <1>3, <2>1, <2>2, <2>3, TableKeeps DEF IInv, TypeOK
<1>4. CASE SignalEvent(s)
  <2>1. CASE task[s].state = "Blocked"
    <3> DEFINE T == [task[s] EXCEPT !.state = "Ready", !.deadline = FALSE]
    <3>1. task' = [task EXCEPT ![s] = T] /\ T \in Tcb /\ task'[s] = T
      BY Zenon, <1>1, <1>4, <2>1 DEF SignalEvent, Tcb, State
    <3>2. Change(s) /\ T.termination_signal = task[s].termination_signal
      BY <1>1, <2>1, <3>1 DEF Change, SamePlace, Tcb
    <3> QED BY Zenon, <1>3, <1>4, <3>1, <3>2 DEF SignalEvent
  <2>2. CASE task[s].state # "Blocked"
    <3> DEFINE T == [task[s] EXCEPT !.event_pending = TRUE]
    <3>1. task' = [task EXCEPT ![s] = T] /\ T \in Tcb /\ task'[s] = T
      BY Zenon, <1>1, <1>4, <2>2 DEF SignalEvent, Tcb
    <3>2. Change(s) /\ T.termination_signal = task[s].termination_signal
      BY <1>1, <3>1 DEF Change, SamePlace, Tcb
    <3> QED BY Zenon, <1>3, <1>4, <3>1, <3>2 DEF SignalEvent
  <2> QED BY <2>1, <2>2
<1>5. CASE WakeTask(s)
  <2> DEFINE T == [task[s] EXCEPT !.state = "Ready", !.deadline = FALSE]
  <2>1. task' = [task EXCEPT ![s] = T] /\ T \in Tcb /\ task'[s] = T
    BY Zenon, <1>1, <1>5 DEF WakeTask, Tcb, State
  <2>2. Change(s) /\ T.termination_signal = task[s].termination_signal
    BY <1>1, <1>5, <2>1 DEF Change, SamePlace, Tcb, WakeTask
  <2> QED BY Zenon, <1>3, <1>5, <2>1, <2>2 DEF WakeTask
<1>6. CASE RequestTermination(s)
  <2>1. CASE task[s].state \in {"Ready", "Blocked", "Sleeping"}
    <3> DEFINE T == [task[s] EXCEPT !.state = "Dead", !.termination_signal = FALSE]
    <3>1. task' = [task EXCEPT ![s] = T] /\ T \in Tcb /\ task'[s] = T /\ T.state = "Dead"
      BY Zenon, <1>1, <1>6, <2>1 DEF RequestTermination, Retired, Tcb, State
    <3>2. Change(s) /\ ~T.termination_signal
      BY <1>1, <1>6, <2>1, <3>1 DEF Change, SamePlace, Tcb, RequestTermination
    <3>3. exited' = exited \cup {s} /\ UNCHANGED <<cur, out, last, phys, pc>>
      BY <1>6, <2>1 DEF RequestTermination
    <3> HIDE DEF T
    <3> QED BY Zenon, <1>3, <3>1, <3>2, <3>3
  <2>2. CASE task[s].state \in {"Running", "Switching"}
    <3> DEFINE T == [task[s] EXCEPT !.termination_signal = TRUE]
    <3>1. task' = [task EXCEPT ![s] = T] /\ T \in Tcb /\ task'[s] = T
      BY Zenon, <1>1, <1>6, <2>2 DEF RequestTermination, Tcb
    <3>2. Change(s) /\ task[s].kind.user
      BY <1>1, <1>6, <3>1 DEF Change, SamePlace, Tcb, RequestTermination
    <3>3. exited' = exited /\ UNCHANGED <<cur, out, last, phys, pc>>
      BY <1>6, <2>2 DEF RequestTermination
    <3> QED BY Zenon, <1>3, <3>1, <3>2, <3>3
  <2> QED BY <1>6, <2>1, <2>2 DEF RequestTermination
<1>7. ASSUME NEW target \in CPU, MigrateReadyTask(s, target) PROVE IInv'
  <2> DEFINE T == [task[s] EXCEPT !.cpu = target]
  <2>1. task' = [task EXCEPT ![s] = T] /\ T \in Tcb /\ task'[s] = T
    BY <1>1, <1>7 DEF MigrateReadyTask, Tcb
  <2>2. Change(s) /\ T.termination_signal = task[s].termination_signal
    BY <1>1, <1>7, <2>1 DEF Change, Tcb, MigrateReadyTask, Migratable
  <2> QED BY Zenon, <1>3, <1>7, <2>1, <2>2 DEF MigrateReadyTask
<1>8. ASSUME NEW mask \in (SUBSET CPU) \ {{}}, SetReadyTaskAffinity(s, mask) PROVE IInv'
  <2> DEFINE new == IF task[s].cpu \in mask THEN task[s].cpu ELSE Min(mask)
             T == [task[s] EXCEPT !.affinity = mask, !.cpu = new]
  <2>1. new \in mask /\ new \in CPU
    <3>1. CPU \subseteq Nat
      BY SchedulerAssumption DEF CPU
    <3>2. mask \subseteq Nat /\ mask # {} /\ mask \subseteq CPU
      BY <1>8, <3>1
    <3>3. Min(mask) \in mask
      BY Zenon, <3>2, MinIn
    <3> QED BY Zenon, <3>2, <3>3
  <2> HIDE DEF new
  <2>2. task' = [task EXCEPT ![s] = T] /\ T \in Tcb /\ task'[s] = T
    <3>1. task' = [task EXCEPT ![s] = T]
      BY Zenon, <1>1, <1>8 DEF SetReadyTaskAffinity, new
    <3>2. mask \in SUBSET CPU
      BY <1>8
    <3>3. T \in Tcb
      BY Zenon, <1>1, <2>1, <3>2 DEF Tcb
    <3> HIDE DEF T
    <3> QED BY <1>1, <3>1, <3>3
  <2>3. Change(s) /\ T.termination_signal = task[s].termination_signal
    <3>1. /\ T.affinity = mask /\ T.cpu = new /\ T.state = task[s].state
          /\ T.kind = task[s].kind /\ T.termination_signal = task[s].termination_signal
      BY <1>1 DEF Tcb
    <3>2. task[s].state = "Ready" /\ task[s].kind.migratable
      BY <1>8 DEF SetReadyTaskAffinity, Migratable
    <3> HIDE DEF T
    <3> QED BY <2>1, <2>2, <3>1, <3>2 DEF Change
  <2> QED BY Zenon, <1>3, <1>8, <2>2, <2>3 DEF SetReadyTaskAffinity
<1> QED BY <1>4, <1>5, <1>6, <1>7, <1>8 DEF OnTask

(* spawn_kernel_on and the process constructors.                           *)
LEMMA SpawnStep ==
    ASSUME IInv, NEW kind \in Kinds, NEW c \in CPU, Spawn(kind, c)
    PROVE  IInv'
<1> DEFINE empty == {s \in Slot : task[s].state = "Empty"}
           n == Min(empty)
           mask == IF kind.migratable THEN CPU ELSE {c}
           T == NewTcb(kind, c, mask)
<1>1. task' = [task EXCEPT ![n] = T] /\ exited' = exited \ {n} /\ empty # {}
      /\ UNCHANGED <<cur, out, last, phys, pc>>
  BY DEF Spawn
<1>2. n \in Slot /\ task[n].state = "Empty"
  <2>1. empty \subseteq Nat
    BY SchedulerAssumption DEF Slot
  <2>2. n \in empty
    <3> HIDE DEF empty
    <3> QED BY Zenon, <1>1, <2>1, MinIn
  <2> QED BY <2>2
<1>3. /\ T \in Tcb /\ T.state = "Ready" /\ T.kind = kind /\ T.cpu = c /\ T.affinity = mask
      /\ ~T.termination_signal
  <2>1. kind \in Kind /\ mask \in SUBSET CPU /\ 0 \in CPU
    BY SchedulerAssumption DEF CPU
  <2> HIDE DEF mask
  <2> QED BY Zenon, <2>1 DEF NewTcb, EmptyTcb, Tcb, State
<1>4. c \in mask /\ (~kind.migratable => mask = {c})
  OBVIOUS
<1>5. task \in [Slot -> Tcb] /\ \A d \in CPU : d \in Slot /\ ~task[d].termination_signal
  BY SMTT(30), SchedulerAssumption DEF IInv, TypeOK, IdleStays, CPU, Slot
<1> HIDE DEF empty, n, mask, T
<1>6. task' \in [Slot -> Tcb] /\ task'[n] = T /\ \A s \in Slot \ {n} : task'[s] = task[s]
  BY <1>1, <1>2, <1>3, <1>5
<1>7. \A s \in Slot : Change(s)
  <2>1. Change(n)
    BY <1>1, <1>2, <1>3, <1>4, <1>6 DEF Change
  <2> QED BY SMTT(30), <2>1, <1>6 DEF Change, SamePlace
<1>8. \A d \in CPU : ~task'[d].termination_signal
  BY <1>3, <1>5, <1>6
<1> QED BY <1>1, <1>6, <1>7, <1>8, TableKeeps DEF IInv, TypeOK

(* rebalance_one moves one Ready migratable task inside its affinity.      *)
LEMMA RebalanceStep ==
    ASSUME IInv, Rebalance
    PROVE  IInv'
<1>1. PICK m \in Moves : task' = [task EXCEPT ![m[1]].cpu = m[2]]
  BY Zenon DEF Rebalance
<1> DEFINE s == m[1]
           target == m[2]
<1>2. s \in Slot /\ target \in CPU /\ Migratable(s) /\ target \in task[s].affinity
  BY DEF Moves
<1>3. MigrateReadyTask(s, target)
  BY Zenon, <1>1, <1>2 DEF MigrateReadyTask, Rebalance
<1> QED BY <1>2, <1>3, TaskStep DEF OnTask

\* Every step of a CPU, of the interrupts and of the callers keeps the invariant.
LEMMA InvStep == IInv /\ [Next]_vars => IInv'
<1> SUFFICES ASSUME IInv, [Next]_vars PROVE IInv'
  OBVIOUS
<1>1. CASE \E c \in CPU : OnCpu(c)
  BY <1>1, CpuStep
<1>2. CASE \E s \in Slot : OnTask(s)
  BY <1>2, TaskStep
<1>3. CASE \E kind \in Kinds, c \in CPU : Spawn(kind, c)
  BY <1>3, SpawnStep
<1>4. CASE Rebalance
  BY Zenon, <1>4, RebalanceStep
<1>5. CASE UNCHANGED vars
  BY <1>5 DEF vars, IInv, TypeOK, Placement, AffinityHolds, IdleStays, KindsKnown,
              ExitTruthful, Leaving
<1> QED BY <1>1, <1>2, <1>3, <1>4, <1>5 DEF Next

\* The invariant of the scheduler holds in every behaviour.
LEMMA InvAlways == Spec => []IInv
  BY InitKeeps, InvStep, PTL DEF Spec

----------------------------------------------------------------------------
(* The asserts of prepare_switch and finalize_switch never fail: whatever  *)
(* other CPUs do during a hand-off, a task is Switching exactly while one  *)
(* CPU is leaving it.                                                      *)
THEOREM HandoffsTracked == Spec => []HandoffTracked
<1>1. IInv => HandoffTracked
  <2> SUFFICES ASSUME IInv PROVE HandoffTracked
    OBVIOUS
  <2>1. \A c \in CPU : cur[c] \in Slot /\ out[c] \in Slot \cup {Nobody}
    BY DEF IInv, TypeOK
  <2>2. \A s \in Slot : task[s].cpu \in CPU
    BY DEF IInv, TypeOK, Tcb
  <2> QED BY <2>1, <2>2 DEF IInv, Placement, HandoffTracked
<1> QED BY <1>1, InvAlways, PTL

(* Under every operation of task.rs the tables keep their types, the       *)
(* current task of a CPU is Running, its own and what it executes outside  *)
(* a hand-off, and validate_affinity_invariants never fails.               *)
THEOREM TasksAlwaysPlaced == Spec => []TasksPlaced
<1>1. IInv => CurrentOwned
  BY DEF IInv, TypeOK, Placement, AffinityHolds, CurrentOwned
<1>2. IInv => TasksPlaced
  BY <1>1 DEF IInv, TasksPlaced
<1> QED BY <1>2, InvAlways, PTL

(* The `expect`s of the blocking primitives never fail: the idle task is   *)
(* Ready whenever another task runs.                                       *)
THEOREM ReplacementAlwaysReady == Spec => []ReplacementReady
<1>1. IInv => ReplacementReady
  <2> SUFFICES ASSUME IInv, NEW c \in CPU, pc[c] = "run", ~Idle(cur[c])
               PROVE  c \in Runnable(task, c)
    BY DEF ReplacementReady
  <2>1. c \in Slot /\ Nobody # c
    BY SchedulerAssumption DEF CPU, Slot, Nobody
  <2>2. task[c].state = "Ready"
    BY <2>1 DEF IInv, IdleStays, Placement, Idle
  <2> QED BY <2>1, <2>2 DEF Runnable, IInv, IdleStays, AffinityHolds
<1> QED BY <1>1, InvAlways, PTL

(* A process is published as Exited only when its task is dead.            *)
THEOREM ExitAlwaysTruthful == Spec => []ExitTruthful
<1>1. IInv => ExitTruthful
  BY DEF IInv
<1> QED BY <1>1, InvAlways, PTL

\* The task whose stack a CPU is on is that CPU's, and its slot is not empty.
LEMMA StackOwned ==
    ASSUME IInv, BlockersPinned, NEW c \in CPU
    PROVE  /\ phys[c] \in Slot /\ task[phys[c]].cpu = c /\ task[phys[c]].state # "Empty"
           /\ cur[c] \in Slot /\ task[cur[c]].cpu = c
  BY DEF IInv, TypeOK, Placement, Leaving

(* If no kind of task both migrates and blocks, no two CPUs ever share a   *)
(* stack.  The hypothesis is needed: the asynchronous services do both,    *)
(* and TLC finds the overlap (prepare_switch, finalize_switch, wake).      *)
THEOREM StacksExclusive == Spec => [](BlockersPinned => StackExclusive)
<1>1. IInv => (BlockersPinned => StackExclusive)
  BY StackOwned DEF StackExclusive
<1> QED BY <1>1, InvAlways, PTL

(* Under the same hypothesis reap_dead recycles no stack that some CPU     *)
(* still executes on.                                                      *)
THEOREM StacksNeverRecycled == Spec => [](BlockersPinned => NoStackRecycled)
<1>1. IInv => (BlockersPinned => NoStackRecycled)
  BY StackOwned DEF NoStackRecycled
<1> QED BY <1>1, InvAlways, PTL

----------------------------------------------------------------------------
(* The lock tracker.                                                       *)
LEMMA AppendFacts ==
    ASSUME NEW S, NEW s \in Seq(S), NEW x \in S
    PROVE  /\ Append(s, x) \in Seq(S)
           /\ Len(Append(s, x)) = Len(s) + 1
           /\ \A i \in 1..Len(s) : Append(s, x)[i] = s[i]
           /\ Append(s, x)[Len(s) + 1] = x
  OBVIOUS

\* What is left of a sequence without its last element.
LEMMA FrontFacts ==
    ASSUME NEW S, NEW s \in Seq(S), s # <<>>
    PROVE  /\ Front(s) \in Seq(S)
           /\ Len(s) \in Nat \ {0}
           /\ Len(Front(s)) = Len(s) - 1
           /\ \A i \in 1..Len(s) - 1 : Front(s)[i] = s[i]
           /\ Last(s) \in S /\ Last(s) = s[Len(s)]
<1>1. Len(s) \in Nat \ {0} /\ \A i \in 1..Len(s) : s[i] \in S
  OBVIOUS
<1> DEFINE n == Len(s) - 1
<1>2. n \in Nat /\ \A i \in 1..n : s[i] \in S
  BY <1>1
<1> HIDE DEF n
<1>3. /\ SubSeq(s, 1, n) \in Seq(S)
      /\ Len(SubSeq(s, 1, n)) = IF 1 <= n THEN n - 1 + 1 ELSE 0
      /\ \A i \in 1..n - 1 + 1 : SubSeq(s, 1, n)[i] = s[1 + i - 1]
  BY <1>2
<1>4. /\ SubSeq(s, 1, n) \in Seq(S)
      /\ Len(SubSeq(s, 1, n)) = n
      /\ \A i \in 1..n : SubSeq(s, 1, n)[i] = s[i]
  <2>1. n - 1 + 1 = n /\ (\A i \in 1..n : 1 + i - 1 = i) /\ (~(1 <= n) => n = 0)
    BY <1>2
  <2> QED BY <1>3, <2>1
<1> QED BY <1>1, <1>4 DEF Front, Last, n

\* A non-empty bounded set of numbers has a largest element.
LEMMA Largest ==
    ASSUME NEW N \in Nat, NEW S \in SUBSET (0..N), S # {}
    PROVE  \E x \in S : \A y \in S : y <= x
<1> DEFINE T == {n \in 0..N : N - n \in S}
<1>1. T \subseteq Nat /\ T # {}
  <2>1. PICK y \in S : y \in 0..N
    BY Zenon
  <2>2. N - y \in 0..N /\ N - (N - y) = y
    BY <2>1
  <2> QED BY <2>1, <2>2
<1>2. \E x \in T : \A y \in T : ~(<<y, x>> \in OpToRel(<, Nat))
  BY <1>1, NatLessThanWellFounded, WFMin
<1>3. \A x, y \in Nat : y < x => <<y, x>> \in OpToRel(<, Nat)
  BY Zenon DEF OpToRel
<1> HIDE DEF T
<1>4. PICK x \in T : \A y \in T : x <= y
  <2>1. PICK x \in T : \A y \in T : ~(<<y, x>> \in OpToRel(<, Nat))
    BY <1>2
  <2>2. \A y \in T : ~(y < x)
    BY <1>1, <1>3, <2>1
  <2>3. \A y \in T : x <= y
    BY <1>1, <2>2
  <2> QED BY <2>3, Zenon
<1> USE DEF T
<1>5. N - x \in S
  OBVIOUS
<1>6. ASSUME NEW y \in S PROVE y <= N - x
  <2>1. N - y \in 0..N /\ N - (N - y) = y
    OBVIOUS
  <2>2. x <= N - y
    BY <1>4, <2>1
  <2> QED BY <2>2
<1> QED BY <1>5, <1>6

----------------------------------------------------------------------------
(* A stack of locks h, its tokens t and the highest rank top: no lock is   *)
(* held twice, and the rank that exit would restore at depth k bounds the  *)
(* ranks below that depth and is one of them.                              *)
Once(h) == \A i, j \in 1..Len(h) : i < j => h[i] # h[j]
RankAt(h, t, top, k) == IF k = Len(h) THEN top ELSE t[k + 1]
Bounds(h, k, r) ==
    /\ \A i \in 1..k : Rank[h[i]] <= r
    /\ r = 0 \/ \E i \in 1..k : Rank[h[i]] = r
Tracked(h, t, top) ==
    /\ h \in Seq(Locks) /\ t \in Seq(Nat) /\ top \in Nat /\ Len(t) = Len(h)
    /\ Once(h)
    /\ \A k \in 0..Len(h) : Bounds(h, k, RankAt(h, t, top, k))

\* One more lock: the tracked rank is the largest of those held.
LEMMA PushTracks ==
    ASSUME Sound, NEW h, NEW t, NEW top, NEW l \in Locks, Tracked(h, t, top),
           l \notin Elements(h)
    PROVE  Tracked(Append(h, l), Append(t, top), IF Rank[l] > top THEN Rank[l] ELSE top)
<1> DEFINE n == Len(h)
           g == Append(h, l)
           u == Append(t, top)
           r == IF Rank[l] > top THEN Rank[l] ELSE top
<1>0. /\ h \in Seq(Locks) /\ t \in Seq(Nat) /\ top \in Nat /\ Len(t) = n /\ n \in Nat
      /\ Rank[l] \in Nat /\ \A i \in 1..n : Rank[h[i]] \in Nat
      /\ \A i \in 1..n : h[i] # l
  BY DEF Tracked, Sound, Elements
<1>1. /\ g \in Seq(Locks) /\ Len(g) = n + 1 /\ g[n + 1] = l /\ \A i \in 1..n : g[i] = h[i]
      /\ u \in Seq(Nat) /\ Len(u) = n + 1 /\ u[n + 1] = top /\ \A i \in 1..n : u[i] = t[i]
      /\ r \in Nat /\ r >= Rank[l] /\ r >= top /\ (r = top \/ r = Rank[l])
  BY <1>0, AppendFacts
<1>2. /\ Once(h)
      /\ \A k \in 0..n : Bounds(h, k, RankAt(h, t, top, k))
  BY DEF Tracked
<1> HIDE DEF n, g, u, r
<1>3. Once(g)
  <2> SUFFICES ASSUME NEW i \in 1..n + 1, NEW j \in 1..n + 1, i < j
               PROVE  g[i] # g[j]
    BY <1>1 DEF Once
  <2>1. i \in 1..n
    BY <1>0
  <2>2. CASE j = n + 1
    BY Zenon, <1>0, <1>1, <2>1, <2>2
  <2>3. CASE j # n + 1
    <3>1. j \in 1..n
      BY <1>0, <2>3
    <3>2. h[i] # h[j]
      BY <1>2, <2>1, <3>1 DEF Once, n
    <3> QED BY <1>1, <2>1, <3>1, <3>2
  <2> QED BY <2>2, <2>3
<1>4. ASSUME NEW k \in 0..n + 1 PROVE Bounds(g, k, RankAt(g, u, r, k))
  <2>1. CASE k = n + 1
    <3>1. RankAt(g, u, r, k) = r
      BY <1>1, <2>1 DEF RankAt
    <3>2. RankAt(h, t, top, n) = top /\ n \in 0..n
      BY <1>0 DEF RankAt, n
    <3>3. Bounds(h, n, top)
      BY <1>2, <3>2
    <3>4. \A i \in 1..k : Rank[g[i]] <= r
      <4>1. \A i \in 1..n : Rank[g[i]] <= r
        <5> SUFFICES ASSUME NEW i \in 1..n PROVE Rank[g[i]] <= r
          OBVIOUS
        <5>1. g[i] = h[i] /\ Rank[h[i]] <= top
          BY <1>1, <3>3 DEF Bounds
        <5>2. Rank[h[i]] \in Nat /\ top \in Nat
          BY <1>0 DEF n
        <5> QED BY <1>1, <5>1, <5>2
      <4>2. \A i \in 1..k : i \in 1..n \/ i = n + 1
        BY <1>0, <2>1
      <4> QED BY <1>1, <4>1, <4>2
    <3>5. r = 0 \/ \E i \in 1..k : Rank[g[i]] = r
      <4>1. CASE r = Rank[l]
        BY <1>0, <1>1, <2>1, <4>1
      <4>2. CASE r = top
        <5>1. ASSUME NEW i \in 1..n, Rank[h[i]] = top
              PROVE  i \in 1..k /\ Rank[g[i]] = r
          BY <1>0, <1>1, <2>1, <4>2, <5>1
        <5> QED BY <3>3, <4>2, <5>1 DEF Bounds
      <4> QED BY <1>1, <4>1, <4>2
    <3> QED BY <3>1, <3>4, <3>5 DEF Bounds
  <2>2. CASE k # n + 1
    <3>1. k \in 0..n /\ \A i \in 1..k : i \in 1..n
      BY <1>0, <2>2
    <3>2. RankAt(g, u, r, k) = RankAt(h, t, top, k)
      <4>1. CASE k = n
        BY <1>1, <2>2, <4>1 DEF RankAt, n
      <4>2. CASE k # n
        <5>1. k + 1 \in 1..n
          BY <1>0, <3>1, <4>2
        <5> QED BY <1>1, <2>2, <4>2, <5>1 DEF RankAt, n
      <4> QED BY <4>1, <4>2
    <3>3. \A i \in 1..k : g[i] = h[i]
      BY Zenon, <1>1, <3>1
    <3> QED BY <1>2, <3>1, <3>2, <3>3 DEF Bounds
  <2> QED BY <2>1, <2>2
<1>5. Tracked(g, u, r)
  BY <1>1, <1>3, <1>4 DEF Tracked
<1> QED BY Zenon, <1>5 DEF g, u, r

\* One lock less: the rank that was saved is that of the locks still held.
LEMMA PopTracks ==
    ASSUME NEW h, NEW t, NEW top, Tracked(h, t, top), h # <<>>
    PROVE  Tracked(Front(h), Front(t), Last(t))
<1> DEFINE n == Len(h) - 1
           g == Front(h)
           u == Front(t)
           r == Last(t)
<1>0. /\ h \in Seq(Locks) /\ t \in Seq(Nat) /\ Len(t) = Len(h) /\ t # <<>>
  BY DEF Tracked
<1>1. /\ g \in Seq(Locks) /\ Len(g) = n /\ \A i \in 1..n : g[i] = h[i]
      /\ u \in Seq(Nat) /\ Len(u) = n /\ \A i \in 1..n : u[i] = t[i]
      /\ r \in Nat /\ r = t[n + 1] /\ n \in Nat /\ Len(h) = n + 1
  <2>1. /\ g \in Seq(Locks) /\ Len(g) = n /\ \A i \in 1..n : g[i] = h[i]
        /\ Len(h) \in Nat \ {0}
    BY Zenon, <1>0, FrontFacts
  <2>2. /\ u \in Seq(Nat) /\ Len(u) = n /\ \A i \in 1..n : u[i] = t[i]
        /\ r \in Nat /\ r = t[Len(t)]
    BY Zenon, <1>0, FrontFacts
  <2>3. n \in Nat /\ n + 1 = Len(h)
    BY <2>1
  <2> QED BY <1>0, <2>1, <2>2, <2>3
<1>2. Once(h) /\ \A k \in 0..n + 1 : Bounds(h, k, RankAt(h, t, top, k))
  BY <1>1 DEF Tracked
<1> HIDE DEF n, g, u, r
<1>3. Once(g)
  BY <1>1, <1>2 DEF Once
<1>4. ASSUME NEW k \in 0..n PROVE Bounds(g, k, RankAt(g, u, r, k))
  <2>1. k \in 0..n + 1 /\ k # n + 1 /\ \A i \in 1..k : i \in 1..n
    BY <1>1
  <2>2. RankAt(g, u, r, k) = RankAt(h, t, top, k)
    <3>1. RankAt(h, t, top, k) = t[k + 1]
      BY <1>1, <2>1 DEF RankAt
    <3>2. CASE k = n
      BY <1>1, <3>1, <3>2 DEF RankAt
    <3>3. CASE k # n
      <4>1. k + 1 \in 1..n
        BY <1>1, <3>3
      <4> QED BY <1>1, <3>1, <3>3, <4>1 DEF RankAt
    <3> QED BY <3>2, <3>3
  <2>3. \A i \in 1..k : g[i] = h[i]
    BY <1>1, <2>1
  <2> QED BY <1>2, <2>1, <2>2, <2>3 DEF Bounds
<1>5. Tracked(g, u, r)
  BY <1>1, <1>3, <1>4 DEF Tracked
<1> QED BY <1>5 DEF g, u, r
----------------------------------------------------------------------------
(* The inductive invariant.  A spinning CPU has entered what it spins on.  *)
Typed ==
    /\ held \in [CPUs -> Seq(Locks)]
    /\ tokens \in [CPUs -> Seq(Nat)]
    /\ highest \in [CPUs -> Nat]
    /\ waiting \in [CPUs -> BOOLEAN]
    /\ panicked \in [CPUs -> BOOLEAN]
    /\ owner \in [Locks -> CPUs \cup {NoCpu}]
    /\ \A c \in CPUs : waiting[c] => held[c] # <<>>

StacksTracked == \A c \in CPUs : Tracked(held[c], tokens[c], highest[c])

Has(h, w, l) == \E i \in 1..Len(h) : h[i] = l /\ ~(w /\ i = Len(h))
Owned == \A l \in Locks, c \in CPUs : owner[l] = c <=> Has(held[c], waiting[c], l)

LockInv == Typed /\ StacksTracked /\ Owned

\* No lock is held and none is waited for at the start.
LEMMA LockInitKeeps == Sound /\ LockInit => LockInv
<1> SUFFICES ASSUME Sound, LockInit PROVE LockInv
  OBVIOUS
<1>1. Typed
  BY DEF LockInit, Typed, Sound
<1>2. Tracked(<<>>, <<>>, 0)
  BY DEF Tracked, Once, RankAt, Bounds
<1>3. StacksTracked
  BY <1>2 DEF LockInit, StacksTracked
<1>4. Owned
  <2>1. \A l \in Locks, c \in CPUs : owner[l] # c /\ Len(held[c]) = 0
    BY DEF LockInit, Sound
  <2>2. 1..0 = {}
    OBVIOUS
  <2> QED BY <2>1, <2>2 DEF Owned, Has
<1> QED BY <1>1, <1>3, <1>4 DEF LockInv

(* What a CPU has after entering, acquiring and releasing its last lock.   *)
LEMMA HasAfter ==
    ASSUME NEW h \in Seq(Locks), NEW l \in Locks, NEW m \in Locks
    PROVE  /\ Has(Append(h, l), TRUE, m) <=> Has(h, FALSE, m)
           /\ Has(Append(h, l), FALSE, m) <=> Has(h, FALSE, m) \/ m = l
<1> DEFINE n == Len(h)
           g == Append(h, l)
<1>1. n \in Nat /\ Len(g) = n + 1 /\ g[n + 1] = l /\ \A i \in 1..n : g[i] = h[i]
  BY AppendFacts
<1>2. \A i : i \in 1..n + 1 <=> i \in 1..n \/ i = n + 1
  BY <1>1
<1>3. \A i \in 1..n : i # n + 1
  BY <1>1
<1> HIDE DEF g, n
<1>4. Len(h) = n
  BY DEF n
<1>5. Has(g, TRUE, m) <=> Has(h, FALSE, m)
  BY <1>1, <1>2, <1>3, <1>4 DEF Has
<1>6. Has(g, FALSE, m) <=> Has(h, FALSE, m) \/ m = l
  BY <1>1, <1>2, <1>3, <1>4 DEF Has
<1> QED BY Zenon, <1>5, <1>6 DEF g

\* Which locks a CPU has while it waits for the last one of its stack, and after.
LEMMA HasBefore ==
    ASSUME NEW h \in Seq(Locks), h # <<>>, Once(h), NEW m \in Locks
    PROVE  /\ Has(h, TRUE, m) <=> Has(Front(h), FALSE, m)
           /\ Has(h, FALSE, m) <=> Has(h, TRUE, m) \/ m = Last(h)
           /\ ~Has(h, TRUE, Last(h))
<1> DEFINE n == Len(h)
           g == Front(h)
           l == Last(h)
<1>1. /\ n \in Nat /\ n >= 1 /\ Len(g) = n - 1 /\ l = h[n]
      /\ \A i \in 1..n - 1 : g[i] = h[i]
  BY FrontFacts
<1>2. \A i : i \in 1..n <=> i \in 1..n - 1 \/ i = n
  BY <1>1
<1>3. \A i \in 1..n - 1 : i # n /\ h[i] # h[n]
  BY <1>1 DEF Once
<1> HIDE DEF g, n, l
<1>4. Len(h) = n
  BY DEF n
<1>5. Has(h, TRUE, m) <=> Has(g, FALSE, m)
  BY <1>1, <1>2, <1>3, <1>4 DEF Has
<1>6. Has(h, FALSE, m) <=> Has(h, TRUE, m) \/ m = l
  BY <1>1, <1>2, <1>3, <1>4 DEF Has
<1>7. ~Has(h, TRUE, l)
  BY <1>1, <1>2, <1>3, <1>4 DEF Has
<1> QED BY Zenon, <1>5, <1>6, <1>7 DEF g, l
----------------------------------------------------------------------------
\* lock: the rank is checked and pushed before the CPU spins.
LEMMA LockKeeps ==
    ASSUME Sound, LockInv, NEW c \in CPUs, NEW l \in Locks, Lock(c, l)
    PROVE  LockInv'
<1>1. CASE Rejects(c, l)
  <2>1. UNCHANGED <<held, tokens, highest, waiting, owner>> /\ panicked' \in [CPUs -> BOOLEAN]
    BY Zenon, <1>1 DEF Lock, LockInv, Typed
  <2> QED BY <2>1 DEF LockInv, Typed, StacksTracked, Owned
<1>2. CASE ~Rejects(c, l)
  <2>1. /\ Push(c, l) /\ waiting' = [waiting EXCEPT ![c] = TRUE]
        /\ UNCHANGED <<owner, panicked>> /\ ~waiting[c]
    BY <1>2 DEF Lock, Runs
  <2>2. /\ held'[c] = Append(held[c], l) /\ tokens'[c] = Append(tokens[c], highest[c])
        /\ highest'[c] = IF Rank[l] > highest[c] THEN Rank[l] ELSE highest[c]
        /\ \A d \in CPUs \ {c} : /\ held'[d] = held[d] /\ tokens'[d] = tokens[d]
                                 /\ highest'[d] = highest[d]
    BY <2>1 DEF Push, LockInv, Typed
  <2>3. Tracked(held'[c], tokens'[c], highest'[c])
    <3>1. Tracked(held[c], tokens[c], highest[c])
      BY Zenon DEF LockInv, StacksTracked
    <3>2. l \notin Elements(held[c])
      BY Zenon, <1>2 DEF Rejects, Recursive
    <3>3. Tracked(Append(held[c], l), Append(tokens[c], highest[c]),
                  IF Rank[l] > highest[c] THEN Rank[l] ELSE highest[c])
      BY Zenon, <3>1, <3>2, PushTracks
    <3> QED BY Zenon, <2>2, <3>3
  <2>4. StacksTracked'
    BY Zenon, <2>2, <2>3 DEF LockInv, StacksTracked
  <2>5. held[c] \in Seq(Locks) /\ held'[c] # <<>>
    <3>1. held[c] \in Seq(Locks)
      BY DEF LockInv, Typed
    <3> QED BY <2>2, <3>1
  <2>6. Typed'
    <3>1. /\ held' \in [CPUs -> Seq(Locks)] /\ tokens' \in [CPUs -> Seq(Nat)]
          /\ highest' \in [CPUs -> Nat]
      BY Zenon, <2>1, <2>4 DEF Push, LockInv, Typed, StacksTracked, Tracked
    <3>2. \A d \in CPUs : waiting'[d] => held'[d] # <<>>
      BY <2>1, <2>2, <2>5 DEF LockInv, Typed
    <3> QED BY Zenon, <2>1, <3>1, <3>2 DEF LockInv, Typed
  <2>7. waiting[c] = FALSE /\ waiting'[c] = TRUE /\ \A d \in CPUs \ {c} : waiting'[d] = waiting[d]
    BY <2>1 DEF LockInv, Typed
  <2>8. ASSUME NEW m \in Locks
        PROVE  Has(held'[c], waiting'[c], m) <=> Has(held[c], waiting[c], m)
    <3>1. Has(Append(held[c], l), TRUE, m) <=> Has(held[c], FALSE, m)
      BY Zenon, <2>5, HasAfter
    <3> QED BY Zenon, <2>2, <2>7, <3>1
  <2>9. ASSUME NEW m \in Locks, NEW d \in CPUs
        PROVE  owner'[m] = d <=> Has(held'[d], waiting'[d], m)
    <3>1. owner[m] = d <=> Has(held[d], waiting[d], m)
      BY DEF LockInv, Owned
    <3>2. CASE d = c
      BY Zenon, <2>1, <2>8, <3>1, <3>2
    <3>3. CASE d # c
      BY Zenon, <2>1, <2>2, <2>7, <3>1, <3>3
    <3> QED BY <3>2, <3>3
  <2> QED BY <2>4, <2>6, <2>9 DEF LockInv, Owned
<1> QED BY <1>1, <1>2

\* The exchange that ends the spinning.
LEMMA AcquireKeeps ==
    ASSUME Sound, LockInv, NEW c \in CPUs, Acquire(c)
    PROVE  LockInv'
<1> DEFINE l == Last(held[c])
<1>1. /\ held[c] \in Seq(Locks) /\ held[c] # <<>> /\ waiting[c] = TRUE
      /\ Once(held[c])
  BY Zenon DEF Acquire, LockInv, Typed, StacksTracked, Tracked
<1>2. l \in Locks /\ owner[l] = NoCpu
  BY <1>1, FrontFacts DEF Acquire
<1>3. /\ UNCHANGED <<held, tokens, highest, panicked>>
      /\ owner'[l] = c /\ \A m \in Locks \ {l} : owner'[m] = owner[m]
      /\ waiting'[c] = FALSE /\ \A d \in CPUs \ {c} : waiting'[d] = waiting[d]
  BY <1>2 DEF Acquire, LockInv, Typed
<1>4. Typed' /\ StacksTracked'
  BY Zenon, <1>2, <1>3 DEF Acquire, LockInv, Typed, StacksTracked
<1>5. \A m \in Locks : /\ Has(held[c], FALSE, m) <=> Has(held[c], TRUE, m) \/ m = l
                       /\ ~Has(held[c], TRUE, l)
  BY Zenon, <1>1, HasBefore
<1>6. \A d \in CPUs : ~Has(held[d], waiting[d], l)
  BY <1>2 DEF Sound, LockInv, Owned
<1>7. ASSUME NEW m \in Locks, NEW d \in CPUs
      PROVE  owner'[m] = d <=> Has(held'[d], waiting'[d], m)
  <2>1. owner[m] = d <=> Has(held[d], waiting[d], m)
    BY DEF LockInv, Owned
  <2>2. CASE d = c
    BY Zenon, <1>1, <1>2, <1>3, <1>5, <2>1, <2>2
  <2>3. CASE d # c
    BY <1>2, <1>3, <1>6, <2>1, <2>3
  <2> QED BY <2>2, <2>3
<1> QED BY <1>4, <1>7 DEF LockInv, Owned

\* try_lock: the rank is pushed only with the lock.
LEMMA TryLockKeeps ==
    ASSUME Sound, LockInv, NEW c \in CPUs, NEW l \in Locks, TryLock(c, l)
    PROVE  LockInv'
<1>1. CASE Rejects(c, l) \/ owner[l] # NoCpu
  <2>1. /\ UNCHANGED <<held, tokens, highest, waiting, owner>>
        /\ panicked' \in [CPUs -> BOOLEAN]
    BY Zenon, <1>1 DEF TryLock, LockInv, Typed
  <2> QED BY <2>1 DEF LockInv, Typed, StacksTracked, Owned
<1>2. CASE ~Rejects(c, l) /\ owner[l] = NoCpu
  <2>1. /\ Push(c, l) /\ owner' = [owner EXCEPT ![l] = c]
        /\ UNCHANGED <<waiting, panicked>> /\ waiting[c] = FALSE
    BY <1>2 DEF TryLock, Runs, LockInv, Typed
  <2>2. /\ held'[c] = Append(held[c], l) /\ tokens'[c] = Append(tokens[c], highest[c])
        /\ highest'[c] = IF Rank[l] > highest[c] THEN Rank[l] ELSE highest[c]
        /\ \A d \in CPUs \ {c} : /\ held'[d] = held[d] /\ tokens'[d] = tokens[d]
                                 /\ highest'[d] = highest[d]
        /\ owner'[l] = c /\ \A m \in Locks \ {l} : owner'[m] = owner[m]
    BY Zenon, <2>1 DEF Push, LockInv, Typed
  <2>3. Tracked(held'[c], tokens'[c], highest'[c])
    <3>1. Tracked(held[c], tokens[c], highest[c])
      BY Zenon DEF LockInv, StacksTracked
    <3>2. l \notin Elements(held[c])
      BY Zenon, <1>2 DEF Rejects, Recursive
    <3>3. Tracked(Append(held[c], l), Append(tokens[c], highest[c]),
                  IF Rank[l] > highest[c] THEN Rank[l] ELSE highest[c])
      BY Zenon, <3>1, <3>2, PushTracks
    <3> QED BY Zenon, <2>2, <3>3
  <2>4. StacksTracked'
    BY Zenon, <2>2, <2>3 DEF LockInv, StacksTracked
  <2>5. held[c] \in Seq(Locks)
    BY DEF LockInv, Typed
  <2>6. Typed'
    <3>1. /\ held' \in [CPUs -> Seq(Locks)] /\ tokens' \in [CPUs -> Seq(Nat)]
          /\ highest' \in [CPUs -> Nat]
      BY Zenon, <2>1, <2>4 DEF Push, LockInv, Typed, StacksTracked, Tracked
    <3>2. \A d \in CPUs : waiting'[d] => held'[d] # <<>>
      BY <2>1, <2>2 DEF LockInv, Typed
    <3> QED BY <2>1, <3>1, <3>2 DEF LockInv, Typed
  <2>7. ASSUME NEW m \in Locks
        PROVE  Has(held'[c], FALSE, m) <=> Has(held[c], FALSE, m) \/ m = l
    <3>1. Has(Append(held[c], l), FALSE, m) <=> Has(held[c], FALSE, m) \/ m = l
      BY Zenon, <2>5, HasAfter
    <3> QED BY Zenon, <2>2, <3>1
  <2>8. \A d \in CPUs : ~Has(held[d], waiting[d], l)
    BY <1>2 DEF Sound, LockInv, Owned
  <2>9. ASSUME NEW m \in Locks, NEW d \in CPUs
        PROVE  owner'[m] = d <=> Has(held'[d], waiting'[d], m)
    <3>1. owner[m] = d <=> Has(held[d], waiting[d], m)
      BY DEF LockInv, Owned
    <3>2. CASE d = c
      BY Zenon, <2>1, <2>2, <2>7, <2>8, <3>1, <3>2
    <3>3. CASE d # c
      BY Zenon, <2>1, <2>2, <2>8, <3>1, <3>3
    <3> QED BY <3>2, <3>3
  <2> QED BY <2>4, <2>6, <2>9 DEF LockInv, Owned
<1> QED BY <1>1, <1>2

\* drop: the lock is given up and its rank popped.
LEMMA ReleaseKeeps ==
    ASSUME Sound, LockInv, NEW c \in CPUs, Release(c)
    PROVE  LockInv'
<1> DEFINE l == Last(held[c])
<1>1. /\ held[c] \in Seq(Locks) /\ held[c] # <<>> /\ waiting[c] = FALSE
      /\ Once(held[c]) /\ Tracked(held[c], tokens[c], highest[c])
  BY Zenon DEF Release, Runs, LockInv, Typed, StacksTracked, Tracked
<1>2. l \in Locks
  BY <1>1, FrontFacts
<1>3. /\ held'[c] = Front(held[c]) /\ tokens'[c] = Front(tokens[c])
      /\ highest'[c] = Last(tokens[c])
      /\ \A d \in CPUs \ {c} : /\ held'[d] = held[d] /\ tokens'[d] = tokens[d]
                               /\ highest'[d] = highest[d]
      /\ owner'[l] = NoCpu /\ \A m \in Locks \ {l} : owner'[m] = owner[m]
      /\ UNCHANGED <<waiting, panicked>>
  BY Zenon, <1>2 DEF Release, Pop, LockInv, Typed
<1>4. Tracked(held'[c], tokens'[c], highest'[c])
  BY Zenon, <1>1, <1>3, PopTracks
<1>5. StacksTracked'
  BY <1>3, <1>4 DEF LockInv, StacksTracked
<1>6. Typed'
  <2>1. /\ held' \in [CPUs -> Seq(Locks)] /\ tokens' \in [CPUs -> Seq(Nat)]
        /\ highest' \in [CPUs -> Nat]
    BY Zenon, <1>5 DEF Release, Pop, LockInv, Typed, StacksTracked, Tracked
  <2>2. \A d \in CPUs : waiting'[d] => held'[d] # <<>>
    BY <1>1, <1>3 DEF LockInv, Typed
  <2>3. owner' \in [Locks -> CPUs \cup {NoCpu}]
    BY Zenon DEF Release, LockInv, Typed
  <2> QED BY <1>3, <2>1, <2>2, <2>3 DEF LockInv, Typed
<1>7. ASSUME NEW m \in Locks
      PROVE  /\ Has(held[c], FALSE, m) <=> Has(held'[c], FALSE, m) \/ m = l
             /\ m = l => ~Has(held'[c], FALSE, m)
  <2>1. /\ Has(held[c], TRUE, m) <=> Has(Front(held[c]), FALSE, m)
        /\ Has(held[c], FALSE, m) <=> Has(held[c], TRUE, m) \/ m = l
        /\ ~Has(held[c], TRUE, l)
    BY Zenon, <1>1, HasBefore
  <2> QED BY Zenon, <1>3, <2>1
<1>8. \A d \in CPUs \ {c} : ~Has(held[d], waiting[d], l)
  <2>1. owner[l] = c
    <3>1. Has(held[c], FALSE, l)
      BY Zenon, <1>2, <1>7
    <3>2. Has(held[c], waiting[c], l)
      BY Zenon, <1>1, <3>1
    <3> QED BY <1>2, <3>2 DEF LockInv, Owned
  <2> QED BY Zenon, <1>2, <2>1 DEF LockInv, Owned
<1>9. ASSUME NEW m \in Locks, NEW d \in CPUs
      PROVE  owner'[m] = d <=> Has(held'[d], waiting'[d], m)
  <2>1. owner[m] = d <=> Has(held[d], waiting[d], m)
    BY DEF LockInv, Owned
  <2>2. CASE d = c
    BY Zenon, <1>1, <1>2, <1>3, <1>7, <2>1, <2>2 DEF Sound
  <2>3. CASE d # c
    BY <1>2, <1>3, <1>8, <2>1, <2>3 DEF Sound
  <2> QED BY <2>2, <2>3
<1> QED BY <1>5, <1>6, <1>9 DEF LockInv, Owned

\* Every step of a CPU keeps the tracker and the owners right.
LEMMA LockStepKeeps == Sound /\ LockInv /\ [LockNext]_lockVars => LockInv'
<1> SUFFICES ASSUME Sound, LockInv, [LockNext]_lockVars PROVE LockInv'
  OBVIOUS
<1>1. CASE UNCHANGED lockVars
  BY <1>1 DEF lockVars, LockInv, Typed, StacksTracked, Owned
<1>2. ASSUME NEW c \in CPUs, NEW l \in Locks, Lock(c, l) PROVE LockInv'
  BY <1>2, LockKeeps
<1>3. ASSUME NEW c \in CPUs, Acquire(c) PROVE LockInv'
  BY <1>3, AcquireKeeps
<1>4. ASSUME NEW c \in CPUs, NEW l \in Locks, TryLock(c, l) PROVE LockInv'
  BY <1>4, TryLockKeeps
<1>5. ASSUME NEW c \in CPUs, Release(c) PROVE LockInv'
  BY <1>5, ReleaseKeeps
<1> QED BY <1>1, <1>2, <1>3, <1>4, <1>5 DEF LockNext

\* The invariant of the locks holds in every behaviour.
LEMMA AlwaysLockInv == LockSpec => [](Sound => LockInv)
<1>1. LockInit => (Sound => LockInv)
  BY LockInitKeeps
<1>2. (Sound => LockInv) /\ [LockNext]_lockVars => (Sound => LockInv)'
  BY LockStepKeeps
<1> QED BY <1>1, <1>2, PTL DEF LockSpec
----------------------------------------------------------------------------
(* HIGHEST_RANK is always the highest rank held, whatever the paths nest:  *)
(* the tokens restore it at every release.                                 *)
THEOREM RanksAlwaysTracked == LockSpec => [](Sound => RankTracked)
<1>1. ASSUME LockInv PROVE RankTracked
  <2> SUFFICES ASSUME NEW c \in CPUs
               PROVE  /\ \A l \in Elements(held[c]) : Rank[l] <= highest[c]
                      /\ highest[c] \in {0} \cup {Rank[l] : l \in Elements(held[c])}
    BY DEF RankTracked
  <2>1. Len(held[c]) \in 0..Len(held[c])
    BY <1>1 DEF LockInv, Typed
  <2>2. Bounds(held[c], Len(held[c]), highest[c])
    BY <1>1, <2>1 DEF LockInv, StacksTracked, Tracked, RankAt
  <2> QED BY <2>2 DEF Bounds, Elements
<1> QED BY <1>1, AlwaysLockInv, PTL

(* A mutex is owned by the CPU whose tracker records it as entered and not *)
(* spun on, and by no other.                                               *)
THEOREM OwnersAlwaysRecorded == LockSpec => [](Sound => OwnersRecorded)
<1>1. LockInv => OwnersRecorded
  BY DEF LockInv, Owned, Has, OwnersRecorded
<1> QED BY <1>1, AlwaysLockInv, PTL

(* If the paths of the kernel keep the discipline of the ranks, the        *)
(* tracker never stops one of them, on any number of CPUs.                 *)
THEOREM DisciplineNeverPanics == LockSpec => [](Sound /\ Disciplined => NoPanic)
<1>1. ASSUME Sound, Disciplined, LockInv, NEW c \in CPUs, NEW l \in Locks,
             Append(held[c], l) \in Stacks
      PROVE  ~Rejects(c, l)
  <2> DEFINE h == held[c]
             n == Len(h)
             s == Append(h, l)
  <2>1. /\ h \in Seq(Locks) /\ n \in Nat /\ highest[c] \in Nat
        /\ Bounds(h, n, highest[c])
    <3>1. h \in Seq(Locks) /\ n \in Nat /\ highest[c] \in Nat
      BY <1>1 DEF LockInv, Typed
    <3>2. n \in 0..n
      BY <3>1
    <3> QED BY <1>1, <3>1, <3>2 DEF LockInv, StacksTracked, Tracked, RankAt
  <2>2. Len(s) = n + 1 /\ s[n + 1] = l /\ \A i \in 1..n : s[i] = h[i]
    BY <2>1, AppendFacts
  <2>3. /\ Len(s) <= MAX_DEPTH
        /\ \A i, j \in 1..Len(s) : i < j => s[i] # s[j] /\ Rank[s[i]] <= Rank[s[j]]
    BY Zenon, <1>1 DEF Disciplined
  <2> HIDE DEF s
  <2>4. \A i \in 1..n : h[i] # l /\ Rank[h[i]] <= Rank[l]
    <3> TAKE i \in 1..n
    <3>1. i \in 1..Len(s) /\ n + 1 \in 1..Len(s) /\ i < n + 1
      BY <2>1, <2>2
    <3>2. s[i] # s[n + 1] /\ Rank[s[i]] <= Rank[s[n + 1]]
      BY <2>3, <3>1
    <3> QED BY <2>2, <3>2
  <2>5. ~TooDeep(c)
    BY <1>1, <2>1, <2>2, <2>3 DEF TooDeep, Sound
  <2>6. ~Recursive(c, l)
    BY <2>4 DEF Recursive, Elements
  <2>7. ~Inversion(c, l)
    <3>1. highest[c] = 0 \/ highest[c] <= Rank[l]
      BY <2>1, <2>4 DEF Bounds
    <3>2. Rank[l] \in Nat
      BY <1>1 DEF Sound
    <3> QED BY <2>1, <3>1, <3>2 DEF Inversion
  <2> QED BY <2>5, <2>6, <2>7 DEF Rejects
<1>2. LockInit => (Sound /\ Disciplined => NoPanic)
  BY DEF LockInit, NoPanic
<1>3. /\ Sound => LockInv
      /\ Sound /\ Disciplined => NoPanic
      /\ [LockNext]_lockVars
      => (Sound /\ Disciplined => NoPanic)'
  <2> SUFFICES ASSUME Sound, Disciplined, LockInv, NoPanic, [LockNext]_lockVars PROVE NoPanic'
    BY DEF Sound, Disciplined
  <2>1. CASE UNCHANGED lockVars
    BY <2>1 DEF lockVars, NoPanic
  <2>2. ASSUME NEW c \in CPUs, NEW l \in Locks, Lock(c, l) \/ TryLock(c, l) PROVE NoPanic'
    <3>1. Append(held[c], l) \in Stacks
      BY <2>2 DEF Lock, TryLock, Sound
    <3>2. ~Rejects(c, l)
      BY Zenon, <1>1, <3>1
    <3> QED BY <2>2, <3>2 DEF Lock, TryLock, NoPanic
  <2>3. ASSUME NEW c \in CPUs, Acquire(c) \/ Release(c) PROVE NoPanic'
    BY <2>3 DEF Acquire, Release, NoPanic
  <2> QED BY <2>1, <2>2, <2>3 DEF LockNext
<1> QED BY <1>2, <1>3, AlwaysLockInv, PTL DEF LockSpec
----------------------------------------------------------------------------
(* What a CPU holds climbs the levels, as the paths do.                    *)
Climbing(level) == \A c \in CPUs : \A i, j \in 1..Len(held[c]) :
    i < j => level[held[c][i]] < level[held[c][j]]

\* If all paths climb an order, so do the locks a CPU holds.
LEMMA StepClimbs ==
    ASSUME NEW level, Sound, Climbs(level), LockInv, Climbing(level), [LockNext]_lockVars
    PROVE  Climbing(level)'
<1>1. ASSUME NEW c \in CPUs, NEW l \in Locks, Lock(c, l) \/ TryLock(c, l)
      PROVE  Climbing(level)'
  <2>1. held' = held \/ held' = [held EXCEPT ![c] = Append(held[c], l)]
    BY <1>1 DEF Lock, TryLock, Push
  <2>2. Append(held[c], l) \in Stacks
    BY <1>1 DEF Lock, TryLock, Sound
  <2>3. held'[c] = held[c] \/ held'[c] \in Stacks
    BY Zenon, <2>1, <2>2 DEF LockInv, Typed
  <2>4. \A d \in CPUs \ {c} : held'[d] = held[d]
    BY <2>1 DEF LockInv, Typed
  <2>5. \A i, j \in 1..Len(held'[c]) : i < j => level[held'[c][i]] < level[held'[c][j]]
    BY <2>3 DEF Climbs, Climbing
  <2> QED BY <2>4, <2>5 DEF Climbing
<1>2. ASSUME NEW c \in CPUs, Release(c) PROVE Climbing(level)'
  <2>1. /\ held[c] \in Seq(Locks) /\ held[c] # <<>>
        /\ held'[c] = Front(held[c]) /\ \A d \in CPUs \ {c} : held'[d] = held[d]
    BY <1>2 DEF Release, Pop, LockInv, Typed
  <2>2. /\ Len(held[c]) \in Nat /\ Len(held'[c]) = Len(held[c]) - 1
        /\ \A i \in 1..Len(held[c]) - 1 : held'[c][i] = held[c][i]
    BY <2>1, FrontFacts
  <2>3. \A i \in 1..Len(held'[c]) : i \in 1..Len(held[c]) /\ held'[c][i] = held[c][i]
    BY <2>2
  <2>4. \A i, j \in 1..Len(held'[c]) : i < j => level[held'[c][i]] < level[held'[c][j]]
    BY <2>3 DEF Climbing
  <2> QED BY <2>1, <2>4 DEF Climbing
<1>3. ASSUME NEW c \in CPUs, Acquire(c) PROVE Climbing(level)'
  BY <1>3 DEF Acquire, Climbing
<1>4. CASE UNCHANGED lockVars
  BY <1>4 DEF lockVars, Climbing
<1> QED BY <1>1, <1>2, <1>3, <1>4 DEF LockNext

(* If the paths of the kernel climb some order of the locks, no set of     *)
(* CPUs, of any size, ever waits in a circle: among the CPUs of such a set *)
(* the one awaiting the highest lock would await one whose owner awaits a  *)
(* higher one still.                                                       *)
THEOREM ClimbingNeverDeadlocks ==
    ASSUME NEW CONSTANT N \in Nat, NEW CONSTANT level \in [Locks -> 0..N]
    PROVE  LockSpec => [](Sound /\ Climbs(level) => NoDeadlock)
<1>1. ASSUME Sound, LockInv, Climbing(level) PROVE NoDeadlock
  <2> SUFFICES ASSUME NEW S \in (SUBSET CPUs) \ {{}},
                      \A c \in S : waiting[c] /\ owner[Last(held[c])] \in S
               PROVE  FALSE
    BY DEF NoDeadlock
  <2> DEFINE awaited(c) == level[Last(held[c])]
             L == {awaited(c) : c \in S}
  <2>1. \A c \in S : /\ c \in CPUs /\ waiting[c] = TRUE
                     /\ held[c] \in Seq(Locks) /\ held[c] # <<>>
    BY <1>1 DEF LockInv, Typed
  <2>2. \A c \in S : /\ Last(held[c]) \in Locks /\ Last(held[c]) = held[c][Len(held[c])]
                     /\ Len(held[c]) \in Nat \ {0}
    BY Zenon, <2>1, FrontFacts
  <2>3. L \in SUBSET (0..N) /\ L # {}
    BY <2>2
  <2>4. PICK x \in L : \A y \in L : y <= x
    BY Zenon, <2>3, Largest
  <2>5. PICK c \in S : x = awaited(c)
    OBVIOUS
  <2> DEFINE d == owner[Last(held[c])]
  <2>6. d \in S /\ Has(held[d], TRUE, Last(held[c]))
    <3>1. d \in S /\ d \in CPUs /\ waiting[d] = TRUE
      BY Zenon, <2>1
    <3>2. Has(held[d], waiting[d], Last(held[c]))
      BY <1>1, <2>2, <3>1 DEF LockInv, Owned
    <3> QED BY Zenon, <3>1, <3>2
  <2>7. PICK i \in 1..Len(held[d]) : held[d][i] = Last(held[c]) /\ i # Len(held[d])
    BY Zenon, <2>6 DEF Has
  <2>8. Len(held[d]) \in 1..Len(held[d]) /\ i < Len(held[d])
    BY SMTT(30), <2>2, <2>6, <2>7
  <2>9. level[held[d][i]] < level[held[d][Len(held[d])]]
    BY Zenon, <1>1, <2>1, <2>6, <2>8 DEF Climbing
  <2>10. awaited(c) < awaited(d)
    BY Zenon, <2>2, <2>6, <2>7, <2>9
  <2>11. awaited(d) <= x
    BY Zenon, <2>4, <2>6
  <2>12. awaited(c) \in 0..N /\ awaited(d) \in 0..N
    BY <2>2, <2>6
  <2> HIDE DEF awaited
  <2> QED BY <2>5, <2>10, <2>11, <2>12
<1> DEFINE J == Sound /\ Climbs(level) => Climbing(level)
           Safe == Sound /\ Climbs(level) => NoDeadlock
<1>2. LockInit => J
  <2> SUFFICES ASSUME LockInit PROVE Climbing(level)
    OBVIOUS
  <2>1. \A c \in CPUs : Len(held[c]) = 0
    BY DEF LockInit
  <2> QED BY <2>1 DEF Climbing
<1>3. (Sound => LockInv) /\ J /\ [LockNext]_lockVars => J'
  <2> SUFFICES ASSUME Sound, Climbs(level), LockInv, Climbing(level), [LockNext]_lockVars
               PROVE  Climbing(level)'
    BY DEF Sound, Climbs
  <2> QED BY StepClimbs
<1>4. (Sound => LockInv) /\ J => Safe
  BY <1>1
<1> HIDE DEF J, Safe
<1>5. LockSpec => []Safe
  BY <1>2, <1>3, <1>4, AlwaysLockInv, PTL DEF LockSpec
<1> QED BY <1>5 DEF Safe

(* Paths that respect the ranks and climb some order of the locks neither  *)
(* panic in the tracker nor spin in a circle, on any number of CPUs        *)
(* (IrqMutex::lock and try_lock).  TLC checks that the kernel's own paths  *)
(* satisfy the three hypotheses: PathsOrdered.                             *)
THEOREM LocksAlwaysSafe ==
    ASSUME NEW CONSTANT N \in Nat, NEW CONSTANT level \in [Locks -> 0..N]
    PROVE  LockSpec => [](Sound /\ Disciplined /\ Climbs(level) => LocksSafe)
<1>1. LockSpec => [](Sound /\ Climbs(level) => NoDeadlock)
  BY ClimbingNeverDeadlocks
<1> DEFINE S == Sound
           D == Disciplined
           C == Climbs(level)
<1>2. LockSpec => [](S /\ C => NoDeadlock)
  BY <1>1
<1>3. LockSpec => [](S /\ D => NoPanic)
  BY DisciplineNeverPanics
<1>4. NoPanic /\ NoDeadlock => LocksSafe
  BY DEF LocksSafe
<1> HIDE DEF S, D, C
<1>5. LockSpec => [](S /\ D /\ C => LocksSafe)
  BY <1>2, <1>3, <1>4, PTL
<1> QED BY <1>5 DEF S, D, C
=============================================================================

----------------------------- MODULE AsyncProofs -----------------------------
(***************************************************************************)
(* The theorems about the asynchronous runtime: its records are exact, no  *)
(* wakeup is lost and it implements AsyncLifecycle, for any number of      *)
(* tasks, workers, operation slots and ports.  A step of one task is shown *)
(* to keep the tables sound, to leave to the other tasks what is theirs    *)
(* (Spared) and to leave its own call in a sound place.                    *)
(***************************************************************************)
EXTENDS AsyncTables

\* A task is spared by a step that changes none of its operations and ports and withdraws no signal.
LEMMA OthersSpared ==
    ASSUME NEW u \in Tasks,
           \A s \in OpSlots : (slot[s].state # "Free" /\ slot[s].owner = u) \/ (slot'[s].state # "Free" /\ slot'[s].owner = u) =>
              /\ slot'[s].state = slot[s].state /\ slot'[s].owner = slot[s].owner
              /\ slot'[s].generation = slot[s].generation /\ slot'[s].waiting = slot[s].waiting,
           \A i \in Ports : port[i].owner = u \/ port'[i].owner = u => port'[i] = port[i],
           \A kind \in {"op", "port"} : SignalDue(kind, u) => SignalDue(kind, u)'
    PROVE  Spared(u)
<1>1. ASSUME NEW p \in PortHandle, PortOwned(u, p) PROVE port'[p.index] = port[p.index] /\ PortOwned(u, p)'
  <2>1. port'[p.index] = port[p.index]
    BY <1>1, HandleTyped DEF PortOwned
  <2> QED BY <1>1, <2>1 DEF PortOwned, PortOpen
<1>2. ASSUME NEW h \in Handle, Owned(u, h)
      PROVE  /\ slot'[h.slot].state = slot[h.slot].state /\ slot'[h.slot].waiting = slot[h.slot].waiting
             /\ Owned(u, h)'
  BY <1>2, HandleTyped DEF Owned, Valid
<1> QED BY <1>1, <1>2 DEF Spared

\* No signal is withdrawn by a step that sends none.
LEMMA SameSignals ==
    ASSUME todo' = todo PROVE \A kind \in {"op", "port"}, u \in Tasks : SignalDue(kind, u) => SignalDue(kind, u)'
  BY DEF SignalDue

\* async_create.
LEMMA Allocation ==
    ASSUME TablesSound, NEW t \in Tasks, NEW class \in Class, NEW k \in Allocatable, slot' = Allocate(k, class, t),
           UNCHANGED <<port, acked, todo>>
    PROVE  TablesSound' /\ LifeStep /\ \A u \in Tasks \ {t} : Spared(u)
<1>1. k \in OpSlots /\ TablesTyped
  BY DEF Allocatable, TablesSound
<1>2. /\ \A s \in OpSlots \ {k} : slot'[s] = slot[s]
      /\ slot'[k].generation = slot[k].generation + 1 /\ slot'[k].state = "Pending" /\ slot'[k].owner = t
  BY <1>1 DEF Allocate, Allocated, TablesTyped, SlotRecord
<1>3. LifeStep
  BY <1>1, <1>2, LifeBorn DEF LifeStep
<1> QED BY <1>3, Allocates

\* wait_ready registers the owner.
WaitRegistered(h) ==
    slot' = [slot EXCEPT ![h.slot].waiting = TRUE] /\ UNCHANGED <<port, acked, todo>>

\* wait_ready keeps the tables sound and spares the other tasks.
LEMMA WaitRegisters ==
    ASSUME TablesSound, NEW t \in Tasks, NEW h \in Handle, Owned(t, h), WaitRegistered(h)
    PROVE  /\ TablesSound' /\ LifeStep /\ \A u \in Tasks \ {t} : Spared(u)
           /\ Owned(t, h)' /\ slot'[h.slot].waiting /\ slot'[h.slot].state = slot[h.slot].state
<1>1. TablesTyped /\ h.slot \in OpSlots /\ slot[h.slot] \in SlotRecord
  BY HandleTyped DEF TablesSound, TablesTyped
<1>2. /\ \A s \in OpSlots \ {h.slot} : slot'[s] = slot[s]
      /\ slot'[h.slot].state = slot[h.slot].state /\ slot'[h.slot].owner = slot[h.slot].owner
      /\ slot'[h.slot].generation = slot[h.slot].generation /\ slot'[h.slot].port = slot[h.slot].port
      /\ slot'[h.slot].completion = slot[h.slot].completion /\ slot'[h.slot].waiting = TRUE
  BY <1>1 DEF WaitRegistered, TablesTyped, SlotRecord
<1>3. TablesTyped'
  <2>1. slot' \in [OpSlots -> SlotRecord]
    BY Zenon, <1>1 DEF WaitRegistered, TablesTyped, SlotRecord
  <2> QED BY <1>1, <2>1 DEF WaitRegistered, TablesTyped
<1>4. TablesSound'
  <2>1. \A s \in OpSlots : SlotShrinks(s)
    BY <1>2 DEF SlotShrinks
  <2>2. \A i \in Ports : PortShrinks(i)
    <3>1. port' = port /\ \A i \in Ports : port[i].reserved \subseteq Handle
      BY <1>1, RecordTyped DEF WaitRegistered
    <3>2. ASSUME NEW i \in Ports, NEW g \in port[i].reserved PROVE slot'[g.slot].state = "Pending"
      <4>1. g.slot \in OpSlots /\ slot[g.slot].state = "Pending"
        BY <3>1, HandleTyped DEF TablesSound, PortSound
      <4> QED BY <1>2, <4>1
    <3> QED BY <3>1, <3>2 DEF PortShrinks, TablesSound, PortSound
  <2>3. AckedGrows
    BY DEF AckedGrows, WaitRegistered
  <2> QED BY <1>3, <2>1, <2>2, <2>3, Shrinks
<1>5. LifeStep
  BY <1>2, LifeSame DEF LifeStep
<1>6. ASSUME NEW u \in Tasks \ {t} PROVE Spared(u)
  <2>1. slot[h.slot].owner # u /\ slot'[h.slot].owner # u
    BY <1>2 DEF Owned
  <2>2. \A kind \in {"op", "port"} : SignalDue(kind, u) => SignalDue(kind, u)'
    BY SameSignals DEF WaitRegistered
  <2>3. port' = port
    BY DEF WaitRegistered
  <2> QED BY <1>2, <2>1, <2>2, <2>3, OthersSpared
<1>7. Owned(t, h)'
  BY <1>2 DEF Owned, Valid
<1> QED BY <1>2, <1>4, <1>5, <1>6, <1>7

\* Only the flags of port n, which belongs to task t, change: its waiters and its reader.
Flagged(n, waiters, consumer) ==
    /\ port' = [port EXCEPT ![n].waiters = waiters, ![n].consumer = consumer]
    /\ UNCHANGED <<slot, acked, todo>>

\* The owner's flags on its port do not disturb the tables or another task.
LEMMA Flags ==
    ASSUME TablesSound, NEW t \in Tasks, NEW n \in Ports, port[n].owner = t, NEW waiters \in SUBSET {t},
           NEW consumer \in {None, t}, Flagged(n, waiters, consumer)
    PROVE  /\ TablesSound' /\ LifeStep /\ \A u \in Tasks \ {t} : Spared(u)
           /\ port'[n].generation = port[n].generation /\ port'[n].owner = t
           /\ port'[n].ready = port[n].ready /\ port'[n].waiters = waiters /\ port'[n].consumer = consumer
<1>1. TablesTyped /\ port[n] \in PortRecord /\ slot' = slot /\ acked' = acked /\ todo' = todo
  BY DEF TablesSound, TablesTyped, Flagged
<1>2. /\ \A i \in Ports \ {n} : port'[i] = port[i]
      /\ port'[n].generation = port[n].generation /\ port'[n].owner = port[n].owner
      /\ port'[n].ready = port[n].ready /\ port'[n].reserved = port[n].reserved
      /\ port'[n].waiters = waiters /\ port'[n].consumer = consumer
  BY <1>1 DEF Flagged, TablesTyped, PortRecord
<1>3. TablesTyped'
  <2>1. port' \in [Ports -> PortRecord]
    BY Zenon, <1>1 DEF Flagged, TablesTyped, PortRecord
  <2> QED BY <1>1, <2>1 DEF TablesTyped
<1>4. TablesSound'
  <2>1. \A s \in OpSlots : SlotShrinks(s)
    BY <1>1 DEF SlotShrinks
  <2>2. ASSUME NEW i \in Ports PROVE PortShrinks(i)
    <3>1. \A g \in port[i].reserved : slot'[g.slot].state = "Pending"
      BY <1>1 DEF TablesSound, PortSound
    <3>2. /\ port'[i].generation = port[i].generation /\ port'[i].owner = port[i].owner
          /\ port'[i].ready = port[i].ready /\ port'[i].reserved = port[i].reserved
      BY <1>2
    <3>3. port'[i].waiters \subseteq {port'[i].owner} /\ port'[i].consumer \in {None, port'[i].owner}
      <4>1. CASE i = n
        BY <1>2, <4>1
      <4>2. CASE i # n
        BY <1>2, <4>2 DEF TablesSound, PortSound
      <4> QED BY <4>1, <4>2
    <3> QED BY <3>1, <3>2, <3>3 DEF PortShrinks
  <2>3. AckedGrows
    BY <1>1 DEF AckedGrows
  <2> QED BY <1>3, <2>1, <2>2, <2>3, Shrinks
<1>5. LifeStep
  BY <1>1, LifeSame DEF LifeStep
<1>6. ASSUME NEW u \in Tasks \ {t} PROVE Spared(u)
  <2>1. \A i \in Ports : port[i].owner = u \/ port'[i].owner = u => port'[i] = port[i]
    BY <1>2
  <2>2. \A kind \in {"op", "port"} : SignalDue(kind, u) => SignalDue(kind, u)'
    BY <1>1, SameSignals
  <2> QED BY <1>1, <2>1, <2>2, OthersSpared
<1> QED BY <1>2, <1>4, <1>5, <1>6

\* completion_port::create.
LEMMA Creation ==
    ASSUME TablesSound, NEW t \in Tasks, NEW k \in Creatable, Opened(k, t), todo' = todo
    PROVE  TablesSound' /\ LifeStep /\ \A u \in Tasks \ {t} : Spared(u)
<1>1. TablesSound' /\ (\A i \in Ports \ {k} : port'[i] = port[i]) /\ port'[k].owner = t
  BY Opens
<1>2. slot' = slot /\ k \in Ports /\ port[k].owner = None /\ None \notin Tasks
  BY AsyncAssumption DEF Opened, Creatable
<1>3. LifeStep
  BY <1>2, LifeSame DEF LifeStep
<1>4. ASSUME NEW u \in Tasks \ {t} PROVE Spared(u)
  <2>1. \A i \in Ports : port[i].owner = u \/ port'[i].owner = u => port'[i] = port[i]
    BY <1>1, <1>2
  <2>2. \A kind \in {"op", "port"} : SignalDue(kind, u) => SignalDue(kind, u)'
    BY SameSignals
  <2> QED BY <1>2, <2>1, <2>2, OthersSpared
<1> QED BY <1>1, <1>3, <1>4

\* The ports of C, which belong to task t, are closed: completion_port::close and release_owner.
Closed(C) ==
    /\ port' = [i \in Ports |-> IF i \in C THEN Cleared(port[i]) ELSE port[i]]
    /\ UNCHANGED <<slot, acked>>

\* Closing ports takes nothing from another task.
LEMMA Closes ==
    ASSUME TablesSound, NEW t \in Tasks, NEW C \in SUBSET OwnedPorts(t), Closed(C),
           \A kind \in {"op", "port"}, u \in Tasks \ {t} : SignalDue(kind, u) => SignalDue(kind, u)'
    PROVE  /\ TablesSound' /\ LifeStep /\ \A u \in Tasks \ {t} : Spared(u)
           /\ \A i \in C : port'[i].owner = None
           /\ \A i \in Ports \ C : port'[i] = port[i]
<1>1. TablesTyped /\ C \subseteq Ports /\ slot' = slot /\ acked' = acked
  BY DEF TablesSound, Closed, OwnedPorts
<1>2. ASSUME NEW i \in C
      PROVE  /\ port'[i].generation = port[i].generation /\ port'[i].owner = None
             /\ port'[i].reserved = {} /\ port'[i].ready = {} /\ port'[i].waiters = {} /\ port'[i].consumer = None
             /\ port'[i] \in PortRecord
  <2>1. port'[i] = Cleared(port[i]) /\ port[i] \in PortRecord
    BY <1>1 DEF Closed, TablesTyped
  <2> QED BY Zenon, <2>1 DEF Cleared, PortRecord
<1>3. \A i \in Ports \ C : port'[i] = port[i]
  BY DEF Closed
<1>4. TablesTyped'
  <2>1. \A i \in Ports : port'[i] \in PortRecord
    BY <1>1, <1>2, <1>3 DEF TablesTyped
  <2>2. port' \in [Ports -> PortRecord]
    BY <2>1 DEF Closed
  <2> QED BY <1>1, <2>2 DEF TablesTyped
<1>5. TablesSound'
  <2>1. \A s \in OpSlots : SlotShrinks(s)
    BY <1>1 DEF SlotShrinks
  <2>2. ASSUME NEW i \in Ports PROVE PortShrinks(i)
    <3>1. CASE i \in C
      BY <1>2, <3>1 DEF PortShrinks
    <3>2. CASE i \notin C
      <4>1. port'[i] = port[i] /\ PortSound(i)
        BY <1>3, <3>2 DEF TablesSound
      <4> QED BY <1>1, <4>1 DEF PortShrinks, PortSound
    <3> QED BY <3>1, <3>2
  <2>3. AckedGrows
    BY <1>1 DEF AckedGrows
  <2> QED BY <1>4, <2>1, <2>2, <2>3, Shrinks
<1>6. LifeStep
  BY <1>1, LifeSame DEF LifeStep
<1>7. ASSUME NEW u \in Tasks \ {t} PROVE Spared(u)
  <2>1. \A i \in Ports : port[i].owner = u \/ port'[i].owner = u => port'[i] = port[i]
    BY <1>2, <1>3, AsyncAssumption DEF OwnedPorts
  <2> QED BY <1>1, <2>1, OthersSpared
<1> QED BY <1>2, <1>3, <1>5, <1>6, <1>7

\* associate_current, for the lifecycle and the other tasks.
LEMMA Association ==
    ASSUME TablesSound, NEW t \in Tasks, NEW h \in Handle, NEW p \in PortHandle, Joinable(t, h, p), Joined(h, p),
           \A kind \in {"op", "port"}, u \in Tasks \ {t} : SignalDue(kind, u) => SignalDue(kind, u)'
    PROVE  TablesSound' /\ LifeStep /\ \A u \in Tasks \ {t} : Spared(u)
<1>1. /\ TablesSound'
      /\ \A s \in OpSlots \ {h.slot} : slot'[s] = slot[s]
      /\ slot'[h.slot].state = slot[h.slot].state /\ slot'[h.slot].owner = t
      /\ slot'[h.slot].generation = slot[h.slot].generation
      /\ slot'[h.slot].waiting = slot[h.slot].waiting
      /\ \A i \in Ports : /\ port'[i].generation = port[i].generation /\ port'[i].owner = port[i].owner
                          /\ port'[i] = port[i] \/ i = p.index
  BY Joins
<1>2. slot[h.slot].owner = t /\ port[p.index].owner = t
  BY DEF Joinable, Owned, PortOwned
<1>3. LifeStep
  BY <1>1, <1>2, LifeSame DEF LifeStep
<1>4. ASSUME NEW u \in Tasks \ {t} PROVE Spared(u)
  <2>1. \A i \in Ports : port[i].owner = u \/ port'[i].owner = u => port'[i] = port[i]
    BY <1>1, <1>2
  <2> QED BY <1>1, <1>2, <2>1, OthersSpared
<1> QED BY <1>1, <1>3, <1>4

\* finish: the reader's batch leaves the port.
Finished(n, removed) ==
    /\ port' = [port EXCEPT ![n].ready = Without(@, removed), ![n].reserved = @ \ removed, ![n].consumer = None]
    /\ acked' = acked \cup removed
    /\ UNCHANGED <<slot, todo>>

\* finish acknowledges the records of the reader's batch and no others.
LEMMA Finishes ==
    ASSUME TablesSound, NEW t \in Tasks, NEW n \in Ports, port[n].owner = t,
           NEW removed \in SUBSET OpsIn(port[n].ready), Finished(n, removed)
    PROVE  TablesSound' /\ LifeStep /\ \A u \in Tasks \ {t} : Spared(u)
<1>1. /\ TablesTyped /\ port[n] \in PortRecord /\ slot' = slot /\ todo' = todo /\ acked' = acked \cup removed
      /\ PortSound(n)
  BY DEF TablesSound, TablesTyped, Finished
<1>2. /\ \A i \in Ports \ {n} : port'[i] = port[i]
      /\ port'[n].generation = port[n].generation /\ port'[n].owner = port[n].owner
      /\ port'[n].ready = Without(port[n].ready, removed) /\ port'[n].reserved = port[n].reserved \ removed
      /\ port'[n].waiters = port[n].waiters /\ port'[n].consumer = None
  BY <1>1 DEF Finished, TablesTyped, PortRecord
<1>3. ASSUME NEW h \in removed
      PROVE  /\ h \in Handle /\ \E e \in port[n].ready : e.op = h
             /\ \A i \in Ports : h \notin port[i].reserved
             /\ \A i \in Ports : i # n => h \notin OpsIn(port[i].ready)
  <2>1. PICK e \in port[n].ready : e.op = h
    BY DEF OpsIn
  <2>2. h \in Handle /\ (Valid(h) => slot[h.slot].state = "Complete")
    BY Zenon, <1>1, <2>1, RecordTyped, EventTyped DEF PortSound
  <2>3. \A i \in Ports : h \notin port[i].reserved
    BY <2>2 DEF TablesSound, PortSound
  <2>4. ASSUME NEW i \in Ports, i # n, h \in OpsIn(port[i].ready) PROVE FALSE
    <3>1. PICK f \in port[i].ready : f.op = h
      BY <2>4 DEF OpsIn
    <3> QED BY <2>1, <2>4, <3>1 DEF TablesSound, PortsApart
  <2> QED BY <2>1, <2>2, <2>3, <2>4
<1>4. port'[n].reserved = port[n].reserved /\ port'[n].ready \subseteq port[n].ready
  BY <1>2, <1>3 DEF Without
<1>5. TablesTyped'
  <2>1. port[n].reserved \ removed \subseteq Handle /\ Without(port[n].ready, removed) \subseteq Event
    BY <1>1 DEF PortRecord, Without
  <2>2. port' \in [Ports -> PortRecord]
    BY Zenon, <1>1, <2>1 DEF Finished, TablesTyped, PortRecord
  <2>3. removed \subseteq Handle
    BY <1>3
  <2> QED BY <1>1, <2>2, <2>3 DEF TablesTyped
<1>6. TablesSound'
  <2>1. \A s \in OpSlots : SlotShrinks(s)
    BY <1>1 DEF SlotShrinks
  <2>2. ASSUME NEW i \in Ports PROVE PortShrinks(i)
    <3>1. \A g \in port[i].reserved : slot'[g.slot].state = "Pending"
      BY Zenon, <1>1 DEF TablesSound, PortSound
    <3>2. /\ port'[i].generation = port[i].generation /\ port'[i].owner = port[i].owner
          /\ port'[i].ready \subseteq port[i].ready /\ port'[i].reserved = port[i].reserved
          /\ port'[i].waiters = port[i].waiters /\ port'[i].consumer \in {None, port[i].consumer}
      BY <1>2, <1>4
    <3>3. port'[i].waiters \subseteq {port'[i].owner} /\ port'[i].consumer \in {None, port'[i].owner}
      BY <3>2 DEF TablesSound, PortSound
    <3> QED BY <3>1, <3>2, <3>3 DEF PortShrinks
  <2>3. AckedGrows
    <3>1. ASSUME NEW i \in Ports, NEW h \in acked' \ acked
          PROVE  h \notin port'[i].reserved /\ h \notin OpsIn(port'[i].ready)
      <4>1. h \in removed
        BY <1>1, <3>1
      <4>2. CASE i = n
        BY <1>2, <1>3, <1>4, <4>1, <4>2 DEF OpsIn, Without
      <4>3. CASE i # n
        BY <1>2, <1>3, <4>1, <4>3
      <4> QED BY <4>2, <4>3
    <3>2. \A h \in acked' \ acked : h \in OpsIn(port[n].ready)
      BY <1>1
    <3> QED BY <1>1, <3>1, <3>2 DEF AckedGrows
  <2> QED BY <1>5, <2>1, <2>2, <2>3, Shrinks
<1>7. LifeStep
  BY <1>1, LifeSame DEF LifeStep
<1>8. ASSUME NEW u \in Tasks \ {t} PROVE Spared(u)
  <2>1. \A i \in Ports : port[i].owner = u \/ port'[i].owner = u => port'[i] = port[i]
    BY <1>2
  <2>2. \A kind \in {"op", "port"} : SignalDue(kind, u) => SignalDue(kind, u)'
    BY <1>1, SameSignals
  <2> QED BY <1>1, <2>1, <2>2, OthersSpared
<1> QED BY <1>6, <1>7, <1>8

\* async_op::release_owner.
OwnerFreed(t) ==
    /\ slot' = [s \in OpSlots |-> IF HandleOf(s) \in OpsOf(t) THEN Release(slot[s]) ELSE slot[s]]
    /\ port' = [i \in Ports |->
                  LET gone == {h \in OpsOf(t) : slot[h.slot].port =
                                  [index |-> i, generation |-> port[i].generation]}
                  IN  IF port[i].owner = None THEN port[i]
                      ELSE [port[i] EXCEPT !.reserved = @ \ gone,
                                           !.ready = Without(@, gone)]]
    /\ UNCHANGED <<acked, todo>>

\* Table::release_owner gives back the operations of one task and spares the others.
LEMMA OwnerFrees ==
    ASSUME TablesSound, NEW t \in Tasks, OwnerFreed(t)
    PROVE  /\ TablesSound' /\ LifeStep /\ \A u \in Tasks \ {t} : Spared(u)
           /\ \A s \in OpSlots : slot'[s].state # "Free" => slot'[s].owner # t
           /\ \A i \in Ports : port'[i].owner = port[i].owner
<1> DEFINE Gone(i) == {h \in OpsOf(t) : slot[h.slot].port = PortHandleOf(i)}
<1>1. TablesTyped /\ acked' = acked /\ todo' = todo
  BY Zenon DEF TablesSound, OwnerFreed
<1>2. \A s \in OpSlots : HandleOf(s) \in OpsOf(t) <=> slot[s].state # "Free" /\ slot[s].owner = t
  <2>1. \A r, s \in OpSlots : HandleOf(r) = HandleOf(s) => r = s
    BY DEF HandleOf
  <2> QED BY <2>1 DEF OpsOf
<1>3. ASSUME NEW h \in OpsOf(t) PROVE h \in Handle /\ Owned(t, h) /\ HandleOf(h.slot) = h
  <2>1. PICK s \in OpSlots : h = HandleOf(s) /\ slot[s].state # "Free" /\ slot[s].owner = t
    BY DEF OpsOf
  <2>2. slot[s].generation \in 0 .. MaxGeneration /\ slot[s].generation # 0 /\ slot[s].generation \in Nat
    BY <1>1, <2>1, RecordTyped DEF TablesSound, SlotSound
  <2>3. h.slot = s /\ h.generation = slot[s].generation
    BY <2>1 DEF HandleOf
  <2>4. h \in Handle
    BY <2>1, <2>2, AsyncAssumption DEF HandleOf, Handle, Generations
  <2> QED BY <2>1, <2>3, <2>4 DEF Owned, Valid
<1>4. ASSUME NEW s \in OpSlots
      PROVE  /\ slot'[s].generation = slot[s].generation /\ slot'[s] \in SlotRecord
             /\ HandleOf(s) \in OpsOf(t) => slot'[s].state = "Free" /\ slot'[s].completion = None /\ slot'[s].port = None
             /\ HandleOf(s) \notin OpsOf(t) => slot'[s] = slot[s]
  <2>1. slot[s] \in SlotRecord
    BY <1>1 DEF TablesTyped
  <2>2. CASE HandleOf(s) \in OpsOf(t)
    <3>1. slot'[s] = Release(slot[s])
      BY Zenon, <2>2 DEF OwnerFreed
    <3> QED BY Zenon, <2>1, <2>2, <3>1 DEF Release, SlotRecord
  <2>3. CASE HandleOf(s) \notin OpsOf(t)
    <3>1. slot'[s] = slot[s]
      BY Zenon, <2>3 DEF OwnerFreed
    <3> QED BY <2>1, <2>3, <3>1
  <2> QED BY <2>2, <2>3
<1>5. ASSUME NEW i \in Ports
      PROVE  /\ port'[i] = IF port[i].owner = None THEN port[i]
                           ELSE [port[i] EXCEPT !.reserved = @ \ Gone(i), !.ready = Without(@, Gone(i))]
             /\ port[i] \in PortRecord
  BY Zenon, <1>1 DEF OwnerFreed, TablesTyped, PortHandleOf
<1> HIDE DEF Gone
<1>6. ASSUME NEW i \in Ports
      PROVE  /\ port'[i].generation = port[i].generation /\ port'[i].owner = port[i].owner
             /\ port'[i].waiters = port[i].waiters /\ port'[i].consumer = port[i].consumer
             /\ port'[i].reserved = port[i].reserved \ Gone(i) /\ port'[i].ready \subseteq port[i].ready
             /\ Gone(i) = {} => port'[i].ready = port[i].ready
             /\ port'[i] \in PortRecord
  <2>1. CASE port[i].owner = None
    <3>1. port'[i] = port[i] /\ port[i].reserved = {} /\ port[i] \in PortRecord
      BY Zenon, <1>5, <2>1 DEF TablesSound, PortSound
    <3> QED BY <3>1
  <2>2. CASE port[i].owner # None
    <3>1. port'[i] = [port[i] EXCEPT !.reserved = @ \ Gone(i), !.ready = Without(@, Gone(i))] /\ port[i] \in PortRecord
      BY Zenon, <1>5, <2>2
    <3> QED BY Zenon, <3>1 DEF PortRecord, Without
  <2> QED BY <2>1, <2>2
<1>7. TablesTyped'
  <2>1. slot' \in [OpSlots -> SlotRecord]
    BY Zenon, <1>4 DEF OwnerFreed
  <2>2. port' \in [Ports -> PortRecord]
    BY Zenon, <1>6 DEF OwnerFreed
  <2> QED BY <1>1, <2>1, <2>2 DEF TablesTyped
<1>8. TablesSound'
  <2>1. \A s \in OpSlots : SlotShrinks(s)
    BY <1>4 DEF SlotShrinks
  <2>2. ASSUME NEW i \in Ports PROVE PortShrinks(i)
    <3>1. ASSUME NEW h \in port[i].reserved
          PROVE  /\ h \in Gone(i) => slot'[h.slot].state # "Pending"
                 /\ h \notin Gone(i) => slot'[h.slot].state = "Pending"
      <4>1. h \in Handle /\ h.slot \in OpSlots /\ Valid(h) /\ slot[h.slot].state = "Pending" /\ slot[h.slot].port = PortHandleOf(i)
        BY <1>1, RecordTyped, HandleTyped DEF TablesSound, PortSound
      <4>2. HandleOf(h.slot) = h
        BY <1>1, <4>1, ValidIs
      <4>3. h \in Gone(i) <=> h \in OpsOf(t)
        BY <4>1 DEF Gone
      <4> QED BY Zenon, <1>4, <4>1, <4>2, <4>3
    <3>2. PortSound(i)
      BY DEF TablesSound
    <3> QED BY <1>6, <3>1, <3>2 DEF PortShrinks, PortSound
  <2>3. AckedGrows
    BY <1>1 DEF AckedGrows
  <2> QED BY <1>7, <2>1, <2>2, <2>3, Shrinks
<1>9. LifeStep
  <2>1. OpsOf(t) \in SUBSET Handle /\ \A h \in OpsOf(t) : Owned(t, h)
    BY <1>3
  <2>2. \A s \in OpSlots : IF HandleOf(s) \in OpsOf(t) THEN slot'[s].state = "Free" ELSE slot'[s] = slot[s]
    BY <1>4
  <2>3. \A s \in OpSlots : slot'[s].generation = slot[s].generation
    BY <1>4
  <2>4. PICK gone \in SUBSET Handle : gone = OpsOf(t)
    BY <2>1
  <2> QED BY <1>1, <2>1, <2>2, <2>3, <2>4, LifeReleased
<1>10. ASSUME NEW u \in Tasks \ {t} PROVE Spared(u)
  <2>1. ASSUME NEW i \in Ports, port[i].owner = u PROVE port'[i] = port[i]
    <3>1. Gone(i) = {}
      <4> SUFFICES ASSUME NEW h \in Gone(i) PROVE FALSE
        OBVIOUS
      <4>1. h \in OpsOf(t) /\ slot[h.slot].port = PortHandleOf(i)
        BY DEF Gone
      <4>2. h.slot \in OpSlots /\ slot[h.slot].owner = t
        BY <1>3, <4>1, HandleTyped DEF Owned
      <4>3. PortHandleOf(i) # None /\ PortHandleOf(i).index = i /\ PortOpen(PortHandleOf(i))
        <5>1. port[i].owner # None
          BY <2>1, AsyncAssumption
        <5>2. PortHandleOf(i) \in PortHandle
          BY <5>1, OpenPort
        <5>3. PortHandleOf(i).index = i /\ PortHandleOf(i).generation = port[i].generation
          BY DEF PortHandleOf
        <5> QED BY <5>1, <5>2, <5>3, HandleTyped DEF PortOpen
      <4>4. slot[h.slot].owner = port[i].owner
        BY <4>1, <4>2, <4>3 DEF TablesSound, SlotSound
      <4> QED BY <2>1, <4>2, <4>4
    <3>2. port'[i] = [port[i] EXCEPT !.reserved = @ \ {}, !.ready = Without(@, {})] /\ port[i] \in PortRecord
      BY Zenon, <1>5, <2>1, <3>1, AsyncAssumption
    <3>3. port[i].reserved \ {} = port[i].reserved /\ Without(port[i].ready, {}) = port[i].ready
      BY DEF Without
    <3> QED BY Zenon, <3>2, <3>3 DEF PortRecord
  <2>2. \A i \in Ports : port[i].owner = u \/ port'[i].owner = u => port'[i] = port[i]
    BY <1>6, <2>1
  <2>3. \A s \in OpSlots : (slot[s].state # "Free" /\ slot[s].owner = u) \/ (slot'[s].state # "Free" /\ slot'[s].owner = u) =>
           slot'[s] = slot[s]
    BY <1>2, <1>4
  <2>4. \A kind \in {"op", "port"} : SignalDue(kind, u) => SignalDue(kind, u)'
    BY <1>1, SameSignals
  <2> QED BY <2>2, <2>3, <2>4, OthersSpared
<1>11. \A s \in OpSlots : slot'[s].state # "Free" => slot'[s].owner # t
  BY <1>2, <1>4
<1> QED BY <1>6, <1>8, <1>9, <1>10, <1>11

----------------------------------------------------------------------------
\* The tasks: what a step leaves to the tasks it does not name, and where it takes the one it names.

\* The variables of the calls have their types.
CallsTyped ==
    /\ sched \in [Tasks -> {"Running", "Ready", "Blocked", "Dead"}]
    /\ pending \in [Tasks -> BOOLEAN]
    /\ at \in [Tasks -> Labels]
    /\ op \in [Tasks -> Handle \cup {None}]
    /\ pt \in [Tasks -> PortHandle \cup {None}]
    /\ batch \in [Tasks -> SUBSET Event]

\* A step that does not move task u.
KeptCall(u) ==
    /\ at'[u] = at[u] /\ op'[u] = op[u] /\ pt'[u] = pt[u] /\ batch'[u] = batch[u]
    /\ sched'[u] = sched[u] /\ pending'[u] = pending[u]

\* What is left to show of a step of task t about its own call, and about the tables.
CallStepSound(t) ==
    CallsTyped' /\ (\A u \in Tasks \ {t} : KeptCall(u)) /\ CallSound(t)' /\ WakeSound(t)'

TableStepSound(t) ==
    TablesSound' /\ SignalsTyped' /\ jobs' \subseteq Handle /\ LifeStep /\ \A u \in Tasks \ {t} : Spared(u)

\* A spared task that does not move stays sound: this is what another actor's step may do to it.
LEMMA OthersSound ==
    ASSUME CallsTyped, NEW u \in Tasks, CallSound(u), WakeSound(u), Spared(u), KeptCall(u)
    PROVE  CallSound(u)' /\ WakeSound(u)'
<1>1. op[u] \in Handle \cup {None} /\ pt[u] \in PortHandle \cup {None}
  BY DEF CallsTyped
<1>2. PICK h \in Handle \cup {None}, p \in PortHandle \cup {None} :
        h = op[u] /\ p = pt[u] /\ h = op'[u] /\ p = pt'[u]
  BY Zenon, <1>1 DEF KeptCall
<1>3. \A kind \in {"op", "port"} : SignalDue(kind, u) => SignalDue(kind, u)'
  BY DEF Spared
<1>4. ASSUME PortOwned(u, pt[u]), p # None
      PROVE  /\ PortOwned(u, p)' /\ port'[p.index].consumer = port[p.index].consumer
             /\ port[p.index].ready \subseteq port'[p.index].ready
             /\ Watching(u) => Watching(u)' \/ SignalDue("port", u)'
  BY Zenon, <1>2, <1>4 DEF Spared, Watching
<1>5. ASSUME Owned(u, op[u]), h # None
      PROVE  Owned(u, h)' /\ (Registered(u) => Registered(u)' \/ SignalDue("op", u)')
  BY Zenon, <1>2, <1>5 DEF Spared, Registered
<1>6. /\ \A s \in OpSlots : slot'[s].state # "Free" /\ slot'[s].owner = u => slot[s].state # "Free" /\ slot[s].owner = u
      /\ \A i \in Ports : port'[i].owner = u => port[i].owner = u
  BY DEF Spared
<1>7. /\ PortOwned(u, p)' => PortOwned(u, pt[u])'
      /\ Owned(u, h)' => Owned(u, op[u])'
  BY Zenon, <1>2 DEF PortOwned, PortOpen, Owned, Valid
<1>8. CallSound(u)'
  <2>1. at[u] = "portcopy" => /\ PortOwned(u, pt[u])' /\ port'[p.index].consumer = u
                              /\ batch[u] \subseteq port'[p.index].ready
    BY Zenon, <1>2, <1>4, <1>7, HandleTyped DEF CallSound, PortLabels
  <2> QED BY <1>2, <1>6, <2>1 DEF CallSound, KeptCall
<1>9. WakeSound(u)'
  <2>1. at[u] = "opsleep" => Owned(u, op[u])' /\ (Registered(u)' \/ SignalDue("op", u)' \/ pending[u])
    BY Zenon, <1>2, <1>3, <1>5, <1>7, HandleTyped DEF CallSound, WakeSound, OpLabels
  <2>2. at[u] = "opwait" /\ sched[u] = "Blocked" => Owned(u, op[u])' /\ (Registered(u)' \/ SignalDue("op", u)')
    BY Zenon, <1>2, <1>3, <1>5, <1>7, HandleTyped DEF CallSound, WakeSound, OpLabels
  <2>3. at[u] = "portsleep" => PortOwned(u, pt[u])' /\ (Watching(u)' \/ SignalDue("port", u)' \/ pending[u])
    BY ZenonT(30), <1>2, <1>3, <1>4, <1>7, HandleTyped DEF CallSound, WakeSound, PortLabels
  <2>4. at[u] = "portwoken" /\ sched[u] = "Blocked" => PortOwned(u, pt[u])' /\ (Watching(u)' \/ SignalDue("port", u)')
    BY <1>2, <1>3, <1>4, <1>7, HandleTyped DEF CallSound, WakeSound, PortLabels
  <2> QED BY Zenon, <2>1, <2>2, <2>3, <2>4 DEF WakeSound, KeptCall
<1> QED BY <1>8, <1>9

\* The parts of the invariant as the lemmas use them.
LEMMA InvParts ==
    AsyncInv <=> /\ TablesSound /\ SignalsTyped /\ jobs \subseteq Handle /\ CallsTyped
                 /\ \A t \in Tasks : CallSound(t) /\ WakeSound(t)
  BY DEF AsyncInv, AsyncTypeOK, TablesSound, TablesTyped, SignalsTyped, CallsTyped

\* A step of task t preserves the invariant when it is sound for the tables and for its own call.
LEMMA TaskStep ==
    ASSUME AsyncInv, NEW t \in Tasks, TableStepSound(t), CallStepSound(t)
    PROVE  AsyncInv' /\ LifeStep
<1>1. ASSUME NEW u \in Tasks \ {t} PROVE CallSound(u)' /\ WakeSound(u)'
  BY OthersSound, InvParts DEF TableStepSound, CallStepSound
<1>2. AsyncInv' <=> (/\ TablesSound /\ SignalsTyped /\ jobs \subseteq Handle /\ CallsTyped
                     /\ \A u \in Tasks : CallSound(u) /\ WakeSound(u))'
  BY DEF AsyncInv, AsyncTypeOK, TablesSound, TablesTyped, SignalsTyped, CallsTyped
<1> QED BY <1>1, <1>2 DEF TableStepSound, CallStepSound

\* The call returns, or user code made a call that takes one step.
LEMMA Returns ==
    ASSUME CallsTyped, NEW t \in Tasks, sched[t] = "Running", Return(t), UNCHANGED <<sched, pending>>,
           batch' = batch \/ batch' = [batch EXCEPT ![t] = {}]
    PROVE  CallStepSound(t)
<1>1. CallsTyped'
  BY DEF CallsTyped, Return, Goto, Labels
<1>2. \A u \in Tasks \ {t} : KeptCall(u)
  BY DEF CallsTyped, Return, Goto, KeptCall
<1>3. at'[t] = "user" /\ sched'[t] = "Running"
  BY DEF CallsTyped, Return, Goto
<1>4. CallSound(t)' /\ WakeSound(t)'
  BY <1>3 DEF CallSound, WakeSound, OpLabels, PortLabels
<1> QED BY <1>1, <1>2, <1>4 DEF CallStepSound

\* User code made a call that takes one step and did not move.
LEMMA StaysInUser ==
    ASSUME CallsTyped, NEW t \in Tasks, sched[t] = "Running", at[t] = "user",
           UNCHANGED <<at, op, pt, batch, sched, pending>>
    PROVE  CallStepSound(t)
<1>1. CallsTyped' /\ \A u \in Tasks \ {t} : KeptCall(u)
  BY Zenon DEF CallsTyped, KeptCall
<1>2. CallSound(t)' /\ WakeSound(t)'
  BY DEF CallSound, WakeSound, OpLabels, PortLabels
<1> QED BY <1>1, <1>2 DEF CallStepSound

\* The call goes on to the next of its places on an operation.
LEMMA InOperation ==
    ASSUME CallsTyped, NEW t \in Tasks, sched[t] = "Running", UNCHANGED <<pt, batch, sched, pending>>,
           NEW label \in {"submit", "service", "opwait", "opcopy", "cancel"}, Goto(t, label),
           NEW h \in Handle, op' = [op EXCEPT ![t] = h] \/ (op' = op /\ op[t] = h)
    PROVE  CallStepSound(t)
<1>1. CallsTyped'
  BY DEF CallsTyped, Goto, Labels
<1>2. \A u \in Tasks \ {t} : KeptCall(u)
  BY DEF CallsTyped, Goto, KeptCall
<1>3. at'[t] = label /\ sched'[t] = "Running" /\ op'[t] = h
  BY Zenon DEF CallsTyped, Goto
<1>4. CallSound(t)' /\ WakeSound(t)'
  BY <1>3 DEF CallSound, WakeSound, OpLabels, PortLabels
<1> QED BY <1>1, <1>2, <1>4 DEF CallStepSound

\* A step that leaves the tables and the signals alone.
LEMMA Plain ==
    ASSUME AsyncInv, NEW t \in Tasks, UNCHANGED <<slot, port, acked, todo>>, jobs' \subseteq Handle
    PROVE  TableStepSound(t)
<1>1. TablesSound' /\ LifeStep /\ \A u \in Tasks : Spared(u)
  BY InvParts, Unaffected
<1>2. SignalsTyped'
  BY InvParts DEF SignalsTyped
<1> QED BY <1>1, <1>2 DEF TableStepSound

\* The system calls on operations.
LEMMA OperationStep ==
    ASSUME AsyncInv, NEW t \in Tasks,
           \/ \E class \in Class : AsyncCreate(t, class)
           \/ Submit(t) \/ SubmitQueued(t) \/ SubmitFull(t) \/ ServiceComplete(t)
           \/ CopyOut(t) \/ CopyFault(t) \/ Cancel(t)
           \/ \E h \in Handle : ServiceCheck(t, h) \/ StartWait(t, h) \/ Poll(t, h) \/ CancelDetach(t, h)
    PROVE  AsyncInv' /\ LifeStep
<1>1. /\ TablesSound /\ SignalsTyped /\ jobs \subseteq Handle /\ CallsTyped /\ TablesTyped
      /\ CallSound(t) /\ WakeSound(t) /\ t \in Actors
  BY InvParts DEF TablesSound, Actors
<1> SUFFICES TableStepSound(t) /\ CallStepSound(t)
  BY TaskStep
<1>2. ASSUME NEW class \in Class, AsyncCreate(t, class) PROVE TableStepSound(t) /\ CallStepSound(t)
  <2>1. PICK k \in Allocatable : slot' = Allocate(k, class, t)
    BY <1>2 DEF AsyncCreate, First
  <2>2. TablesSound' /\ LifeStep /\ \A u \in Tasks \ {t} : Spared(u)
    BY <1>1, <1>2, <2>1, Allocation DEF AsyncCreate
  <2>3. SignalsTyped' /\ jobs' \subseteq Handle
    BY Zenon, <1>1, <1>2 DEF AsyncCreate, SignalsTyped
  <2>4. CallStepSound(t)
    BY <1>1, <1>2, StaysInUser DEF AsyncCreate, Runs
  <2> QED BY <2>2, <2>3, <2>4 DEF TableStepSound
<1>3. CASE Submit(t)
  <2>1. PICK k \in Allocatable : /\ slot' = Allocate(k, "Kernel", t)
                                 /\ op' = [op EXCEPT ![t] = [slot |-> k, generation |-> slot[k].generation + 1]]
    BY ZenonT(30), <1>3 DEF Submit, First
  <2>2. TablesSound' /\ LifeStep /\ \A u \in Tasks \ {t} : Spared(u)
    BY <1>1, <1>3, <2>1, Allocation DEF Submit, Class
  <2>3. SignalsTyped' /\ jobs' \subseteq Handle
    BY ZenonT(30), <1>1, <1>3 DEF Submit, SignalsTyped
  <2>4. PICK h \in Handle : h = [slot |-> k, generation |-> slot[k].generation + 1]
    <3>1. /\ k \in OpSlots /\ slot[k].generation \in Nat /\ slot[k].generation \in 0 .. MaxGeneration
          /\ slot[k].generation # MaxGeneration
      BY Zenon, <1>1, RecordTyped DEF Allocatable
    <3>2. [slot |-> k, generation |-> slot[k].generation + 1] \in Handle
      BY <3>1, AsyncAssumption DEF Handle, Generations
    <3> QED BY <3>2
  <2>5. op' = [op EXCEPT ![t] = h]
    BY Zenon, <2>1, <2>4
  <2>6. CallStepSound(t)
    BY Zenon, <1>1, <1>3, <2>5, InOperation DEF Submit, Runs
  <2> QED BY <2>2, <2>3, <2>6 DEF TableStepSound
<1>4. CASE SubmitQueued(t)
  <2>1. op[t] \in Handle
    BY Zenon, <1>1, <1>4 DEF SubmitQueued, Runs, CallSound, OpLabels
  <2>2. TableStepSound(t)
    BY Zenon, <1>1, <1>4, <2>1, Plain DEF SubmitQueued
  <2>3. CallStepSound(t)
    BY Zenon, <1>1, <1>4, Returns DEF SubmitQueued, Runs
  <2> QED BY Zenon, <2>2, <2>3
<1>5. ASSUME SubmitFull(t) \/ CopyOut(t) \/ Cancel(t) PROVE TableStepSound(t) /\ CallStepSound(t)
  <2>1. /\ sched[t] = "Running" /\ at[t] \in {"submit", "opcopy", "cancel"} /\ todo[t] = {}
        /\ ReleaseCurrent(t, op[t]) /\ Return(t) /\ UNCHANGED <<jobs, acked, sched, pending, batch>>
    BY Zenon, <1>5 DEF SubmitFull, CopyOut, Cancel, Runs
  <2>2. PICK h \in Handle : h = op[t]
    BY Zenon, <1>1, <2>1 DEF CallSound, OpLabels
  <2>3. ReleaseCurrent(t, h)
    BY Zenon, <2>1, <2>2
  <2>4. TablesSound' /\ SignalsTyped' /\ LifeStep /\ \A u \in Tasks \ {t} : Spared(u)
    BY Zenon, <1>1, <2>1, <2>3, Releases
  <2>5. CallStepSound(t)
    BY Zenon, <1>1, <2>1, Returns
  <2> QED BY Zenon, <1>1, <2>1, <2>4, <2>5 DEF TableStepSound
<1>6. CASE ServiceComplete(t)
  <2>1. PICK h \in Handle : h = op[t]
    BY Zenon, <1>1, <1>6 DEF ServiceComplete, Runs, CallSound, OpLabels
  <2>2. Complete(t, h) /\ todo[t] = {} /\ acked' = acked
    BY <1>6, <2>1 DEF ServiceComplete, Runs
  <2>3. TablesSound' /\ SignalsTyped' /\ LifeStep /\ \A u \in Tasks : Spared(u)
    BY Zenon, <1>1, <2>2, Completes
  <2>4. CallStepSound(t)
    BY Zenon, <1>1, <1>6, Returns DEF ServiceComplete, Runs
  <2> QED BY Zenon, <1>1, <1>6, <2>3, <2>4 DEF TableStepSound, ServiceComplete
<1>7. CASE CopyFault(t)
  <2>1. TableStepSound(t)
    BY <1>1, <1>7, Plain DEF CopyFault
  <2>2. CallStepSound(t)
    BY Zenon, <1>1, <1>7, Returns DEF CopyFault, Runs
  <2> QED BY <2>1, <2>2
<1>8. ASSUME NEW h \in Handle, ServiceCheck(t, h) \/ StartWait(t, h) \/ Poll(t, h) \/ CancelDetach(t, h)
      PROVE  TableStepSound(t) /\ CallStepSound(t)
  <2>1. /\ sched[t] = "Running" /\ UNCHANGED <<slot, port, acked, todo, pt, batch, sched, pending>>
        /\ op' = [op EXCEPT ![t] = h] /\ jobs' \subseteq Handle
    BY Zenon, <1>1, <1>8 DEF ServiceCheck, StartWait, Poll, CancelDetach, Runs
  <2>2. PICK label \in {"submit", "service", "opwait", "opcopy", "cancel"} : Goto(t, label)
    BY Zenon, <1>8 DEF ServiceCheck, StartWait, Poll, CancelDetach
  <2>3. TableStepSound(t)
    BY <2>1, Plain
  <2>4. CallStepSound(t)
    BY Zenon, <1>1, <2>1, <2>2, InOperation
  <2> QED BY <2>3, <2>4
<1> QED BY Zenon, <1>2, <1>3, <1>4, <1>5, <1>6, <1>7, <1>8

\* The event latch of task t is set, or t is woken.
LEMMA Latches ==
    ASSUME CallsTyped, NEW t \in Tasks, CallSound(t), WakeSound(t), LatchEvent(t),
           UNCHANGED <<slot, port, at, op, pt, batch>>
    PROVE  CallStepSound(t)
<1>1. CallsTyped' /\ \A u \in Tasks \ {t} : KeptCall(u)
  BY Zenon DEF CallsTyped, KeptCall, LatchEvent
<1>2. \/ sched[t] = "Blocked" /\ sched'[t] = "Ready"
      \/ /\ sched[t] # "Blocked" /\ sched'[t] = sched[t]
         /\ pending'[t] <=> sched[t] # "Dead"
  BY Zenon DEF CallsTyped, LatchEvent
<1>3. CallSound(t)'
  BY Zenon, <1>2 DEF CallSound, PortOwned, PortOpen
<1>4. /\ Owned(t, op[t])' <=> Owned(t, op[t])
      /\ PortOwned(t, pt[t])' <=> PortOwned(t, pt[t])
  BY ZenonT(30) DEF Owned, Valid, PortOwned, PortOpen
<1>5. WakeSound(t)'
  <2>1. at[t] \in {"opsleep", "portsleep"} => sched[t] = "Running"
    BY DEF CallSound, OpLabels, PortLabels
  <2> QED BY Zenon, <1>2, <1>4, <2>1 DEF WakeSound
<1> QED BY <1>1, <1>3, <1>5 DEF CallStepSound

\* wait_ready and wait_for_event.
LEMMA WaitStep ==
    ASSUME AsyncInv, NEW t \in Tasks, WaitCheck(t) \/ OpSleep(t) \/ PortSleep(t)
    PROVE  AsyncInv' /\ LifeStep
<1>1. /\ TablesSound /\ SignalsTyped /\ jobs \subseteq Handle /\ CallsTyped
      /\ CallSound(t) /\ WakeSound(t)
  BY InvParts
<1> SUFFICES TableStepSound(t) /\ CallStepSound(t)
  BY TaskStep
<1>2. CASE WaitCheck(t)
  <2>1. /\ sched[t] = "Running" /\ at[t] = "opwait"
        /\ UNCHANGED <<port, jobs, acked, sched, pending, batch, todo>>
    BY <1>2 DEF WaitCheck, Runs
  <2>2. PICK h \in Handle : h = op[t]
    BY Zenon, <1>1, <2>1 DEF CallSound, OpLabels
  <2>3. CASE ~Owned(t, op[t])
    <3>1. Return(t) /\ slot' = slot
      BY <1>2, <2>3 DEF WaitCheck
    <3> QED BY <1>1, <2>1, <3>1, Returns, Plain
  <2>4. CASE Owned(t, op[t]) /\ slot[op[t].slot].state = "Complete"
    <3>1. Goto(t, "opcopy") /\ op' = op /\ pt' = pt /\ slot' = slot
      BY <1>2, <2>4 DEF WaitCheck, Stay
    <3>2. CallStepSound(t)
      BY <1>1, <2>1, <2>2, <3>1, InOperation
    <3> QED BY <1>1, <2>1, <3>1, <3>2, Plain
  <2>5. CASE Owned(t, op[t]) /\ slot[op[t].slot].state # "Complete"
    <3>1. slot' = [slot EXCEPT ![h.slot].waiting = TRUE] /\ Goto(t, "opsleep") /\ op' = op /\ pt' = pt
      BY <1>2, <2>2, <2>5 DEF WaitCheck, Stay
    <3>2. WaitRegistered(h) /\ Owned(t, h)
      BY <2>1, <2>2, <2>5, <3>1 DEF WaitRegistered
    <3>3. /\ TablesSound' /\ LifeStep /\ \A u \in Tasks \ {t} : Spared(u)
          /\ Owned(t, h)' /\ slot'[h.slot].waiting /\ slot'[h.slot].state = slot[h.slot].state
      BY Zenon, <1>1, <3>2, WaitRegisters
    <3>4. TableStepSound(t)
      BY <1>1, <2>1, <3>3 DEF TableStepSound, SignalsTyped
    <3>5. slot[h.slot].state = "Pending"
      <4>1. h.slot \in OpSlots /\ slot[h.slot].state \in {"Free", "Pending", "Complete"}
        BY <1>1, HandleTyped, RecordTyped DEF TablesSound
      <4> QED BY Zenon, <2>2, <2>5, <4>1 DEF Owned, Valid
    <3>6. at'[t] = "opsleep" /\ op'[t] = h /\ sched'[t] = "Running"
      BY <1>1, <2>1, <2>2, <3>1 DEF CallsTyped, Goto
    <3>7. Owned(t, op[t])' /\ Registered(t)'
      BY ZenonT(30), <3>3, <3>5, <3>6 DEF Owned, Valid, Registered
    <3>8. CallSound(t)' /\ WakeSound(t)'
      BY <3>6, <3>7 DEF CallSound, WakeSound, OpLabels, PortLabels
    <3>9. CallsTyped' /\ \A u \in Tasks \ {t} : KeptCall(u)
      BY <1>1, <2>1, <3>1 DEF CallsTyped, KeptCall, Goto, Labels
    <3> QED BY <3>4, <3>8, <3>9 DEF CallStepSound
  <2> QED BY <2>3, <2>4, <2>5
<1>3. ASSUME OpSleep(t) \/ PortSleep(t) PROVE TableStepSound(t) /\ CallStepSound(t)
  <2>1. /\ sched[t] = "Running" /\ UNCHANGED <<slot, port, jobs, acked, op, pt, batch, todo>>
        /\ \/ at[t] = "opsleep" /\ WaitForEvent(t, "opwait")
           \/ at[t] = "portsleep" /\ WaitForEvent(t, "portwoken")
    BY ZenonT(30), <1>3 DEF OpSleep, PortSleep, Runs
  <2>2. TableStepSound(t)
    BY <1>1, <2>1, Plain
  <2>3. CallsTyped' /\ \A u \in Tasks \ {t} : KeptCall(u)
    BY Zenon, <1>1, <2>1 DEF CallsTyped, KeptCall, WaitForEvent, Goto, Labels
  <2>4. /\ pending[t] => sched'[t] = "Running"
        /\ ~pending[t] => sched'[t] = "Blocked"
        /\ at[t] = "opsleep" => at'[t] = "opwait"
        /\ at[t] = "portsleep" => at'[t] = "portwoken"
    BY Zenon, <1>1, <2>1 DEF CallsTyped, WaitForEvent, Goto
  <2>5. /\ Owned(t, op[t])' <=> Owned(t, op[t])
        /\ PortOwned(t, pt[t])' <=> PortOwned(t, pt[t])
        /\ Registered(t)' <=> Registered(t)
        /\ Watching(t)' <=> Watching(t)
        /\ SignalDue("op", t)' <=> SignalDue("op", t)
        /\ SignalDue("port", t)' <=> SignalDue("port", t)
    BY <2>1 DEF Owned, Valid, PortOwned, PortOpen, Registered, Watching, SignalDue
  <2>6. CallSound(t)'
    BY Zenon, <1>1, <2>1, <2>4 DEF CallSound, OpLabels, PortLabels
  <2>7. WakeSound(t)'
    BY Zenon, <1>1, <2>1, <2>4, <2>5 DEF WakeSound
  <2> QED BY Zenon, <2>2, <2>3, <2>6, <2>7 DEF CallStepSound
<1> QED BY <1>2, <1>3

\* begin claims a batch of port p.
LEMMA Claims ==
    ASSUME AsyncInv, NEW t \in Tasks, NEW p \in PortHandle, Readable(t, p), sched[t] = "Running", Claim(t, p),
           pt' = [pt EXCEPT ![t] = p] \/ (pt' = pt /\ pt[t] = p),
           UNCHANGED <<slot, jobs, acked, sched, pending, op, todo>>
    PROVE  TableStepSound(t) /\ CallStepSound(t)
<1> DEFINE n == p.index
<1>1. /\ TablesSound /\ SignalsTyped /\ jobs \subseteq Handle /\ CallsTyped /\ TablesTyped
      /\ n \in Ports /\ port[n].owner = t /\ port[n] \in PortRecord /\ PortSound(n) /\ PortOwned(t, p)
  BY Zenon, InvParts, HandleTyped DEF TablesSound, TablesTyped, Readable, PortOwned
<1>2. PICK events \in SUBSET port[n].ready :
        /\ batch' = [batch EXCEPT ![t] = events]
        /\ port' = [port EXCEPT ![n].consumer = t]
        /\ Goto(t, "portcopy")
  BY Zenon DEF Claim
<1>3. PICK waiters \in SUBSET {t} : waiters = port[n].waiters
  BY <1>1 DEF PortSound
<1>4. Flagged(n, waiters, t)
  <2>1. [port EXCEPT ![n].consumer = t] = [port EXCEPT ![n].waiters = waiters, ![n].consumer = t]
    BY Zenon, <1>1, <1>3 DEF TablesTyped, PortRecord
  <2> QED BY <1>2, <2>1 DEF Flagged
<1>5. /\ TablesSound' /\ LifeStep /\ \A u \in Tasks \ {t} : Spared(u)
      /\ port'[n].generation = port[n].generation /\ port'[n].owner = t
      /\ port'[n].ready = port[n].ready /\ port'[n].consumer = t
  BY ZenonT(30), <1>1, <1>4, Flags
<1>6. TableStepSound(t)
  BY Zenon, <1>1, <1>5 DEF TableStepSound, SignalsTyped
<1>7. events \subseteq Event
  BY <1>1 DEF PortRecord
<1>8. CallsTyped' /\ \A u \in Tasks \ {t} : KeptCall(u)
  BY <1>1, <1>2, <1>7 DEF CallsTyped, KeptCall, Goto, Labels
<1>9. at'[t] = "portcopy" /\ pt'[t] = p /\ batch'[t] = events /\ sched'[t] = "Running"
  BY Zenon, <1>1, <1>2 DEF CallsTyped, Goto
<1>10. PortOwned(t, pt[t])'
  BY Zenon, <1>1, <1>5, <1>9 DEF PortOwned, PortOpen
<1>11. CallSound(t)' /\ WakeSound(t)'
  BY Zenon, <1>5, <1>9, <1>10 DEF CallSound, WakeSound, OpLabels, PortLabels
<1> QED BY Zenon, <1>6, <1>8, <1>11 DEF CallStepSound

\* Task t, which is not asleep, is inside a wait on port p.
LEMMA InPortWait ==
    ASSUME CallsTyped, NEW t \in Tasks, sched[t] = "Running", UNCHANGED <<op, batch, sched, pending>>,
           Goto(t, "portwait"), NEW p \in PortHandle, pt' = [pt EXCEPT ![t] = p] \/ (pt' = pt /\ pt[t] = p)
    PROVE  CallStepSound(t)
<1>1. CallsTyped'
  BY DEF CallsTyped, Goto, Labels
<1>2. \A u \in Tasks \ {t} : KeptCall(u)
  BY DEF CallsTyped, Goto, KeptCall
<1>3. at'[t] = "portwait" /\ sched'[t] = "Running" /\ pt'[t] = p
  BY Zenon DEF CallsTyped, Goto
<1>4. CallSound(t)' /\ WakeSound(t)'
  BY <1>3 DEF CallSound, WakeSound, OpLabels, PortLabels
<1> QED BY <1>1, <1>2, <1>4 DEF CallStepSound

\* unwatch.
LEMMA Unwatches ==
    ASSUME AsyncInv, NEW t \in Tasks, NEW p \in PortHandle, port' = Unwatched(t, p),
           UNCHANGED <<slot, jobs, acked, todo>>
    PROVE  TableStepSound(t)
<1> DEFINE n == p.index
<1>1. /\ TablesSound /\ SignalsTyped /\ jobs \subseteq Handle /\ TablesTyped
      /\ n \in Ports /\ port[n] \in PortRecord /\ PortSound(n)
  BY InvParts, HandleTyped DEF TablesSound, TablesTyped
<1>2. CASE PortOpen(p) /\ port[n].owner = t
  <2>1. PICK waiters \in SUBSET {t}, consumer \in {None, t} :
          waiters = port[n].waiters \ {t} /\ consumer = port[n].consumer
    BY Zenon, <1>1, <1>2 DEF PortSound
  <2>2. Flagged(n, waiters, consumer)
    <3>1. [port EXCEPT ![n].waiters = @ \ {t}] = [port EXCEPT ![n].waiters = waiters, ![n].consumer = consumer]
      BY Zenon, <1>1, <2>1 DEF TablesTyped, PortRecord
    <3> QED BY <1>2, <3>1 DEF Flagged, Unwatched
  <2>3. TablesSound' /\ LifeStep /\ \A u \in Tasks \ {t} : Spared(u)
    <3>1. TablesSound /\ n \in Ports /\ port[n].owner = t
      BY <1>1, <1>2
    <3> QED BY <2>2, <3>1, Flags
  <2> QED BY Zenon, <1>1, <2>3 DEF TableStepSound, SignalsTyped
<1>3. CASE ~(PortOpen(p) /\ port[n].owner = t)
  <2>1. port' = port
    <3>1. CASE ~PortOpen(p)
      BY <3>1 DEF Unwatched
    <3>2. CASE PortOpen(p)
      <4>1. port[n].waiters \ {t} = port[n].waiters
        BY <1>1, <1>3, <3>2 DEF PortSound
      <4>2. [port EXCEPT ![n].waiters = @ \ {t}] = port
        BY Zenon, <1>1, <4>1 DEF TablesTyped, PortRecord
      <4> QED BY Zenon, <3>2, <4>2 DEF Unwatched
    <3> QED BY <3>1, <3>2
  <2> QED BY <1>1, <2>1, Plain
<1> QED BY Zenon, <1>2, <1>3

\* The system calls on ports.
LEMMA PortStep ==
    ASSUME AsyncInv, NEW t \in Tasks,
           \/ \E p \in PortHandle : PortClose(t, p) \/ PortPoll(t, p) \/ StartPortWait(t, p)
           \/ PortCreate(t) \/ PortBegin(t) \/ PortExpire(t) \/ PortUnwatch(t)
           \/ \E copied \in BOOLEAN : Finish(t, copied)
           \/ \E h \in Handle, p \in PortHandle : Associate(t, h, p)
    PROVE  AsyncInv' /\ LifeStep
<1>1. /\ TablesSound /\ SignalsTyped /\ jobs \subseteq Handle /\ CallsTyped /\ TablesTyped
      /\ CallSound(t) /\ WakeSound(t) /\ t \in Actors
  BY InvParts DEF TablesSound, Actors
<1> SUFFICES TableStepSound(t) /\ CallStepSound(t)
  BY Zenon, TaskStep
<1>2. ASSUME NEW p \in PortHandle, PortClose(t, p) PROVE TableStepSound(t) /\ CallStepSound(t)
  <2> DEFINE n == p.index
             signals == {"port"} \X port[n].waiters
  <2>1. /\ sched[t] = "Running" /\ at[t] = "user" /\ todo[t] = {} /\ n \in Ports /\ port[n].owner = t
        /\ todo' = [todo EXCEPT ![t] = signals]
        /\ UNCHANGED <<slot, jobs, acked, sched, pending, at, op, pt, batch>>
    BY Zenon, <1>2, HandleTyped DEF PortClose, Runs, PortOwned
  <2>2. Closed({n}) /\ {n} \in SUBSET OwnedPorts(t)
    <3>1. port' = [i \in Ports |-> IF i \in {n} THEN Cleared(port[i]) ELSE port[i]]
      BY Zenon, <1>1, <1>2, <2>1 DEF PortClose, TablesTyped
    <3> QED BY Zenon, <2>1, <3>1 DEF Closed, OwnedPorts
  <2>3. signals \subseteq Signal
    <3>1. port[n].waiters \subseteq Tasks
      BY Zenon, <1>1, <2>1, RecordTyped
    <3> QED BY <3>1 DEF Signal
  <2> HIDE DEF signals
  <2>4. \A kind \in {"op", "port"}, u \in Tasks \ {t} : SignalDue(kind, u) => SignalDue(kind, u)'
    BY Zenon, <1>1, <2>1, SignalsStay
  <2>5. TablesSound' /\ LifeStep /\ \A u \in Tasks \ {t} : Spared(u)
    BY Zenon, <1>1, <2>2, <2>4, Closes
  <2>6. TableStepSound(t)
    BY Zenon, <1>1, <2>1, <2>3, <2>5 DEF TableStepSound, SignalsTyped
  <2> QED BY <1>1, <2>1, <2>6, StaysInUser
<1>3. ASSUME NEW p \in PortHandle, PortPoll(t, p) PROVE TableStepSound(t) /\ CallStepSound(t)
  <2>1. /\ Readable(t, p) /\ sched[t] = "Running" /\ Claim(t, p) /\ pt' = [pt EXCEPT ![t] = p]
        /\ UNCHANGED <<slot, jobs, acked, sched, pending, op, todo>>
    BY Zenon, <1>3 DEF PortPoll, Runs
  <2> QED BY Zenon, <2>1, Claims
<1>4. ASSUME NEW p \in PortHandle, StartPortWait(t, p) PROVE TableStepSound(t) /\ CallStepSound(t)
  <2>1. TableStepSound(t)
    BY <1>1, <1>4, Plain DEF StartPortWait
  <2>2. CallStepSound(t)
    BY Zenon, <1>1, <1>4, InPortWait DEF StartPortWait, Runs
  <2> QED BY <2>1, <2>2
<1>5. CASE PortCreate(t)
  <2>1. PICK k \in Creatable : port' = [port EXCEPT ![k].generation = @ + 1, ![k].owner = t]
    BY Zenon, <1>5 DEF PortCreate, First
  <2>2. Opened(k, t) /\ todo' = todo
    BY Zenon, <1>5, <2>1 DEF PortCreate, Opened
  <2>3. TablesSound' /\ LifeStep /\ \A u \in Tasks \ {t} : Spared(u)
    BY <1>1, <2>2, Creation
  <2>4. TableStepSound(t)
    BY <1>1, <1>5, <2>3 DEF TableStepSound, SignalsTyped, PortCreate
  <2>5. CallStepSound(t)
    BY <1>1, <1>5, StaysInUser DEF PortCreate, Runs
  <2> QED BY <2>4, <2>5
<1>6. CASE PortBegin(t)
  <2>1. /\ sched[t] = "Running" /\ at[t] = "portwait"
        /\ UNCHANGED <<slot, jobs, acked, sched, pending, todo>>
    BY ZenonT(30), <1>6 DEF PortBegin, Runs
  <2>2. PICK p \in PortHandle : p = pt[t]
    BY <1>1, <2>1 DEF CallSound, PortLabels
  <2>3. CASE ~Readable(t, p)
    <3>1. Return(t) /\ port' = port /\ batch' = batch
      BY <1>6, <2>2, <2>3 DEF PortBegin
    <3> QED BY Zenon, <1>1, <2>1, <3>1, Returns, Plain
  <2>4. CASE Readable(t, p) /\ port[p.index].ready # {}
    <3>1. Claim(t, p) /\ pt' = pt /\ op' = op
      BY <1>6, <2>2, <2>4 DEF PortBegin, Stay
    <3> QED BY <2>1, <2>2, <2>4, <3>1, Claims
  <2>5. CASE Readable(t, p) /\ port[p.index].ready = {}
    <3> DEFINE n == p.index
    <3>1. /\ port' = [port EXCEPT ![n].waiters = @ \cup {t}]
          /\ Goto(t, "portsleep") /\ pt' = pt /\ op' = op /\ batch' = batch
      BY <1>6, <2>2, <2>5 DEF PortBegin, Stay
    <3>2. /\ n \in Ports /\ port[n].owner = t /\ port[n].consumer = None /\ PortOwned(t, p)
          /\ port[n] \in PortRecord /\ PortSound(n)
      BY Zenon, <1>1, <2>5, HandleTyped DEF Readable, PortOwned, TablesSound, TablesTyped
    <3>3. PICK waiters \in SUBSET {t} : waiters = port[n].waiters \cup {t}
      BY Zenon, <3>2 DEF PortSound
    <3>4. Flagged(n, waiters, None)
      <4>1. [port EXCEPT ![n].waiters = @ \cup {t}] = [port EXCEPT ![n].waiters = waiters, ![n].consumer = None]
        BY Zenon, <1>1, <3>2, <3>3 DEF TablesTyped, PortRecord
      <4> QED BY <2>1, <3>1, <4>1 DEF Flagged
    <3>5. /\ TablesSound' /\ LifeStep /\ \A u \in Tasks \ {t} : Spared(u)
          /\ port'[n].generation = port[n].generation /\ port'[n].owner = t
          /\ port'[n].ready = port[n].ready /\ port'[n].waiters = waiters
      <4>1. None \in {None, t}
        OBVIOUS
      <4>2. TablesSound /\ n \in Ports /\ port[n].owner = t
        BY Zenon, <1>1, <3>2
      <4>3. PICK i \in Ports : i = n
        BY <4>2
      <4>4. TablesSound /\ port[i].owner = t /\ Flagged(i, waiters, None)
        BY Zenon, <3>4, <4>2, <4>3
      <4>5. /\ TablesSound' /\ LifeStep /\ \A u \in Tasks \ {t} : Spared(u)
            /\ port'[i].generation = port[i].generation /\ port'[i].owner = t
            /\ port'[i].ready = port[i].ready /\ port'[i].waiters = waiters
        BY ZenonT(30), <4>1, <4>4, Flags
      <4> QED BY Zenon, <4>3, <4>5
    <3>6. TableStepSound(t)
      BY Zenon, <1>1, <2>1, <3>5 DEF TableStepSound, SignalsTyped
    <3>7. CallsTyped' /\ \A u \in Tasks \ {t} : KeptCall(u)
      BY <1>1, <2>1, <3>1 DEF CallsTyped, KeptCall, Goto, Labels
    <3>8. at'[t] = "portsleep" /\ pt'[t] = p /\ sched'[t] = "Running"
      BY <1>1, <2>1, <2>2, <3>1 DEF CallsTyped, Goto
    <3>9. PortOwned(t, pt[t])' /\ Watching(t)'
      BY Zenon, <2>5, <3>2, <3>3, <3>5, <3>8 DEF PortOwned, PortOpen, Watching
    <3>10. CallSound(t)' /\ WakeSound(t)'
      BY Zenon, <3>8, <3>9 DEF CallSound, WakeSound, OpLabels, PortLabels
    <3> QED BY <3>6, <3>7, <3>10 DEF CallStepSound
  <2> QED BY Zenon, <2>3, <2>4, <2>5
<1>7. ASSUME PortExpire(t) \/ PortUnwatch(t) PROVE TableStepSound(t) /\ CallStepSound(t)
  <2>1. /\ sched[t] = "Running" /\ at[t] \in {"portsleep", "portwoken"} /\ port' = Unwatched(t, pt[t])
        /\ UNCHANGED <<slot, jobs, acked, sched, pending, batch, todo>>
    BY Zenon, <1>7 DEF PortExpire, PortUnwatch, Runs
  <2>2. PICK p \in PortHandle : p = pt[t]
    BY Zenon, <1>1, <2>1 DEF CallSound, PortLabels
  <2>3. TableStepSound(t)
    <3>1. port' = Unwatched(t, p)
      BY <2>1, <2>2
    <3> QED BY ZenonT(30), <2>1, <3>1, Unwatches
  <2>4. CASE PortExpire(t)
    BY Zenon, <1>1, <2>1, <2>3, <2>4, Returns DEF PortExpire
  <2>5. CASE PortUnwatch(t)
    BY <1>1, <2>1, <2>2, <2>3, <2>5, InPortWait DEF PortUnwatch
  <2> QED BY <1>7, <2>4, <2>5
<1>8. ASSUME NEW copied \in BOOLEAN, Finish(t, copied) PROVE TableStepSound(t) /\ CallStepSound(t)
  <2>1. /\ sched[t] = "Running" /\ at[t] = "portcopy" /\ batch' = [batch EXCEPT ![t] = {}] /\ Return(t)
        /\ UNCHANGED <<slot, jobs, sched, pending, todo>>
    BY Zenon, <1>8 DEF Finish, Runs
  <2>2. PICK p \in PortHandle : p = pt[t]
    BY Zenon, <1>1, <2>1 DEF CallSound, PortLabels
  <2>3. PICK removed : removed = IF copied THEN OpsIn(batch[t]) ELSE {}
    BY Zenon
  <2>4. PortOwned(t, p) /\ port[p.index].consumer = t /\ batch[t] \subseteq port[p.index].ready
    BY Zenon, <1>1, <2>1, <2>2 DEF CallSound
  <2>5. p.index \in Ports /\ port[p.index].owner = t /\ removed \in SUBSET OpsIn(port[p.index].ready)
    BY Zenon, <2>3, <2>4, HandleTyped DEF OpsIn, PortOwned
  <2>6. Finished(p.index, removed)
    BY Zenon, <1>8, <2>1, <2>2, <2>3, <2>4 DEF Finish, Finished
  <2>7. TablesSound' /\ LifeStep /\ \A u \in Tasks \ {t} : Spared(u)
    BY Zenon, <1>1, <2>5, <2>6, Finishes
  <2>8. TableStepSound(t)
    BY Zenon, <1>1, <2>1, <2>7 DEF TableStepSound, SignalsTyped
  <2> QED BY Zenon, <1>1, <2>1, <2>8, Returns
<1>9. ASSUME NEW h \in Handle, NEW p \in PortHandle, Associate(t, h, p) PROVE TableStepSound(t) /\ CallStepSound(t)
  <2> DEFINE signals == {"port"} \X port[p.index].waiters
  <2>1. /\ sched[t] = "Running" /\ at[t] = "user" /\ todo[t] = {} /\ Joinable(t, h, p)
        /\ UNCHANGED <<jobs, acked, sched, pending, at, op, pt, batch>>
        /\ todo' = [todo EXCEPT ![t] = signals] \/ todo' = todo
    BY <1>9 DEF Associate, Runs, Joinable
  <2>2. Joined(h, p)
    BY Zenon, <1>9 DEF Associate, Joined
  <2>3. signals \subseteq Signal
    <3>1. port[p.index].waiters \subseteq Tasks
      BY Zenon, <1>1, HandleTyped, RecordTyped
    <3> QED BY Zenon, <3>1 DEF Signal
  <2> HIDE DEF signals
  <2>4. \A kind \in {"op", "port"}, u \in Tasks \ {t} : SignalDue(kind, u) => SignalDue(kind, u)'
    BY Zenon, <1>1, <2>1, SignalsStay, SameSignals
  <2>5. TablesSound' /\ LifeStep /\ \A u \in Tasks \ {t} : Spared(u)
    BY Zenon, <1>1, <2>1, <2>2, <2>4, Association
  <2>6. TableStepSound(t)
    BY Zenon, <1>1, <2>1, <2>3, <2>5 DEF TableStepSound, SignalsTyped
  <2> QED BY Zenon, <1>1, <2>1, <2>6, StaysInUser
<1> QED BY Zenon, <1>2, <1>3, <1>4, <1>5, <1>6, <1>7, <1>8, <1>9

\* The scheduler's own steps: signals, timeouts, preemption and dispatch.
LEMMA LatchStep ==
    ASSUME AsyncInv, NEW t \in Tasks, UnrelatedSignal(t) \/ WakeTimeout(t) \/ Preempt(t) \/ Dispatch(t)
    PROVE  AsyncInv' /\ LifeStep
<1>1. /\ TablesSound /\ SignalsTyped /\ jobs \subseteq Handle /\ CallsTyped
      /\ CallSound(t) /\ WakeSound(t)
  BY InvParts
<1> SUFFICES TableStepSound(t) /\ CallStepSound(t)
  BY TaskStep
<1>2. UNCHANGED <<slot, port, jobs, acked, at, op, pt, batch, todo>>
  BY Zenon DEF UnrelatedSignal, WakeTimeout, Preempt, Dispatch
<1>3. TableStepSound(t)
  BY <1>1, <1>2, Plain
<1>4. CASE UnrelatedSignal(t)
  BY <1>1, <1>2, <1>3, <1>4, Latches DEF UnrelatedSignal
<1>5. ASSUME WakeTimeout(t) \/ Preempt(t) \/ Dispatch(t) PROVE CallStepSound(t)
  <2>1. /\ pending' = pending /\ sched' = [sched EXCEPT ![t] = sched'[t]]
        /\ \/ sched[t] = "Blocked" /\ at[t] = "portwoken" /\ sched'[t] = "Ready"
           \/ sched[t] = "Running" /\ at[t] = "user" /\ sched'[t] = "Ready"
           \/ sched[t] = "Ready" /\ sched'[t] = "Running"
    BY <1>1, <1>5 DEF WakeTimeout, Preempt, Dispatch, Runs, CallsTyped
  <2>2. CallsTyped' /\ \A u \in Tasks \ {t} : KeptCall(u)
    BY ZenonT(30), <1>1, <1>2, <2>1 DEF CallsTyped, KeptCall
  <2>3. CallSound(t)'
    BY <1>1, <1>2, <2>1 DEF CallSound, PortOwned, PortOpen, OpLabels, PortLabels
  <2>4. at[t] \notin {"opsleep", "portsleep"} /\ sched'[t] # "Blocked"
    BY Zenon, <1>1, <2>1 DEF CallSound, OpLabels, PortLabels
  <2>5. WakeSound(t)'
    BY Zenon, <1>2, <2>4 DEF WakeSound
  <2> QED BY ZenonT(30), <2>2, <2>3, <2>5 DEF CallStepSound
<1> QED BY <1>3, <1>4, <1>5

\* Exit, a kill, and the end of the teardown.
LEMMA TeardownStep ==
    ASSUME AsyncInv, NEW t \in Tasks, Exit(t) \/ Kill(t) \/ ReleasePorts(t)
    PROVE  AsyncInv' /\ LifeStep
<1>1. /\ TablesSound /\ SignalsTyped /\ jobs \subseteq Handle /\ CallsTyped
      /\ CallSound(t) /\ WakeSound(t)
  BY InvParts
<1> SUFFICES TableStepSound(t) /\ CallStepSound(t)
  BY TaskStep
<1>2. ASSUME Exit(t) \/ Kill(t) PROVE TableStepSound(t) /\ CallStepSound(t)
  <2>1. ReleaseOwner(t) /\ sched' = sched /\ sched[t] # "Dead"
    BY <1>2 DEF Exit, Kill, Runs
  <2>2. OwnerFreed(t)
    BY Zenon, <2>1 DEF ReleaseOwner, OwnerFreed
  <2>3. /\ TablesSound' /\ LifeStep /\ \A u \in Tasks \ {t} : Spared(u)
        /\ \A s \in OpSlots : slot'[s].state # "Free" => slot'[s].owner # t
    BY <1>1, <2>2, OwnerFrees
  <2>4. jobs' \subseteq Handle /\ SignalsTyped'
    BY Zenon, <1>1, <2>1 DEF ReleaseOwner, SignalsTyped
  <2>5. CallsTyped' /\ \A u \in Tasks \ {t} : KeptCall(u)
    BY Zenon, <1>1, <2>1 DEF CallsTyped, KeptCall, ReleaseOwner, Goto, Labels
  <2>6. at'[t] = "exiting" /\ sched'[t] # "Dead"
    BY Zenon, <1>1, <2>1 DEF CallsTyped, ReleaseOwner, Goto
  <2>7. CallSound(t)' /\ WakeSound(t)'
    BY Zenon, <2>3, <2>6 DEF CallSound, WakeSound, OpLabels, PortLabels
  <2> QED BY Zenon, <2>3, <2>4, <2>5, <2>7 DEF TableStepSound, CallStepSound
<1>3. CASE ReleasePorts(t)
  <2>1. /\ at[t] = "exiting" /\ UNCHANGED <<slot, jobs, acked, op, pt, batch, todo>>
        /\ sched' = [sched EXCEPT ![t] = "Dead"] /\ pending' = [pending EXCEPT ![t] = FALSE] /\ Goto(t, "dead")
    BY Zenon, <1>3 DEF ReleasePorts
  <2>2. Closed(OwnedPorts(t))
    <3>1. port' = [i \in Ports |-> IF i \in OwnedPorts(t) THEN Cleared(port[i]) ELSE port[i]]
      BY Zenon, <1>3 DEF ReleasePorts, OwnedPorts
    <3> QED BY Zenon, <2>1, <3>1 DEF Closed
  <2>3. \A kind \in {"op", "port"}, u \in Tasks \ {t} : SignalDue(kind, u) => SignalDue(kind, u)'
    BY <2>1, SameSignals
  <2>4. PICK C \in SUBSET OwnedPorts(t) : C = OwnedPorts(t)
    BY Zenon
  <2>5. /\ TablesSound' /\ LifeStep /\ \A u \in Tasks \ {t} : Spared(u)
        /\ \A i \in C : port'[i].owner = None
        /\ \A i \in Ports \ C : port'[i] = port[i]
    BY <1>1, <2>2, <2>3, <2>4, Closes
  <2>6. TableStepSound(t)
    BY Zenon, <1>1, <2>1, <2>5 DEF TableStepSound, SignalsTyped
  <2>7. CallsTyped' /\ \A u \in Tasks \ {t} : KeptCall(u)
    BY <1>1, <2>1 DEF CallsTyped, KeptCall, Goto, Labels
  <2>8. at'[t] = "dead" /\ sched'[t] = "Dead"
    BY <1>1, <2>1 DEF CallsTyped, Goto
  <2>9. \A i \in Ports : port'[i].owner # t
    BY <2>4, <2>5, AsyncAssumption DEF OwnedPorts
  <2>10. \A s \in OpSlots : slot'[s].state # "Free" => slot'[s].owner # t
    BY Zenon, <1>1, <2>1 DEF CallSound
  <2>11. CallSound(t)' /\ WakeSound(t)'
    BY Zenon, <2>8, <2>9, <2>10 DEF CallSound, WakeSound, OpLabels, PortLabels
  <2> QED BY Zenon, <2>6, <2>7, <2>11 DEF CallStepSound
<1> QED BY <1>2, <1>3

\* A producer completes a request it holds.
LEMMA ProducerStep ==
    ASSUME AsyncInv, NEW w \in Workers, NEW h \in Handle, Produce(w, h)
    PROVE  AsyncInv' /\ LifeStep
<1>1. /\ TablesSound /\ SignalsTyped /\ jobs \subseteq Handle /\ CallsTyped /\ w \in Actors
      /\ \A t \in Tasks : CallSound(t) /\ WakeSound(t)
  BY InvParts DEF Actors
<1>2. /\ todo[w] = {} /\ Complete(w, h) /\ jobs' = jobs \ {h}
      /\ UNCHANGED <<acked, sched, pending, at, op, pt, batch>>
  BY DEF Produce
<1>3. TablesSound' /\ SignalsTyped' /\ LifeStep /\ \A u \in Tasks : Spared(u)
  BY Zenon, <1>1, <1>2, Completes
<1>4. CallsTyped' /\ \A u \in Tasks : KeptCall(u)
  BY <1>1, <1>2 DEF CallsTyped, KeptCall
<1>5. \A u \in Tasks : CallSound(u)' /\ WakeSound(u)'
  BY Zenon, <1>1, <1>3, <1>4, OthersSound
<1>6. jobs' \subseteq Handle
  BY Zenon, <1>1, <1>2
<1>7. AsyncInv'
  BY <1>3, <1>4, <1>5, <1>6 DEF AsyncInv, AsyncTypeOK, TablesSound, TablesTyped, SignalsTyped, CallsTyped
<1> QED BY <1>3, <1>7

\* An actor sends a signal it owes.
LEMMA NotifyStep ==
    ASSUME AsyncInv, NEW actor \in Actors, NEW signal \in Signal, Notify(actor, signal)
    PROVE  AsyncInv' /\ LifeStep
<1>1. /\ TablesSound /\ SignalsTyped /\ jobs \subseteq Handle /\ CallsTyped
      /\ \A t \in Tasks : CallSound(t) /\ WakeSound(t)
  BY InvParts
<1>2. PICK kind \in {"op", "port"}, t \in Tasks : signal = <<kind, t>>
  BY DEF Signal
<1>3. /\ todo' = [todo EXCEPT ![actor] = @ \ {signal}] /\ LatchEvent(t)
      /\ UNCHANGED <<slot, port, jobs, acked, at, op, pt, batch>>
  BY <1>2 DEF Notify
<1>4. CallStepSound(t)
  BY <1>1, <1>3, Latches
<1>5. TablesSound' /\ LifeStep
  BY <1>1, <1>3, Rests, LifeSame DEF LifeStep
<1>6. SignalsTyped'
  <2>1. todo[actor] \ {signal} \subseteq Signal
    BY Zenon, <1>1 DEF SignalsTyped
  <2> QED BY <1>1, <1>3, <2>1 DEF SignalsTyped
<1>7. ASSUME NEW u \in Tasks \ {t} PROVE Spared(u)
  <2>1. ASSUME NEW k \in {"op", "port"}, SignalDue(k, u) PROVE SignalDue(k, u)'
    <3>1. PICK a \in Actors : <<k, u>> \in todo[a]
      BY <2>1 DEF SignalDue
    <3>2. <<k, u>> # signal
      BY <1>2
    <3>3. <<k, u>> \in todo'[a]
      <4>1. CASE a = actor
        BY Zenon, <1>1, <1>3, <3>1, <3>2, <4>1 DEF SignalsTyped
      <4>2. CASE a # actor
        BY <1>1, <1>3, <3>1, <4>2 DEF SignalsTyped
      <4> QED BY <4>1, <4>2
    <3> QED BY <3>3 DEF SignalDue
  <2> QED BY <1>3, <2>1, OthersSpared
<1>8. TableStepSound(t)
  BY <1>1, <1>3, <1>5, <1>6, <1>7 DEF TableStepSound
<1> QED BY <1>4, <1>8, TaskStep

\* Every step of every actor preserves the invariant and is a step of the lifecycle or none.
LEMMA Preserved ==
    ASSUME AsyncInv, [AsyncNext]_asyncVars
    PROVE  AsyncInv' /\ LifeStep
<1>1. ASSUME NEW t \in Tasks, UserStep(t) PROVE AsyncInv' /\ LifeStep
  <2>1. \/ \/ \E class \in Class : AsyncCreate(t, class)
           \/ Submit(t) \/ SubmitQueued(t) \/ SubmitFull(t) \/ ServiceComplete(t)
           \/ CopyOut(t) \/ CopyFault(t) \/ Cancel(t)
           \/ \E h \in Handle : ServiceCheck(t, h) \/ StartWait(t, h) \/ Poll(t, h) \/ CancelDetach(t, h)
        \/ WaitCheck(t) \/ OpSleep(t) \/ PortSleep(t)
        \/ \/ \E p \in PortHandle : PortClose(t, p) \/ PortPoll(t, p) \/ StartPortWait(t, p)
           \/ PortCreate(t) \/ PortBegin(t) \/ PortExpire(t) \/ PortUnwatch(t)
           \/ \E copied \in BOOLEAN : Finish(t, copied)
           \/ \E h \in Handle, p \in PortHandle : Associate(t, h, p)
        \/ Exit(t)
    BY <1>1 DEF UserStep
  <2> QED BY Zenon, <2>1, OperationStep, WaitStep, PortStep, TeardownStep
<1>2. ASSUME NEW t \in Tasks, SchedulerStep(t) PROVE AsyncInv' /\ LifeStep
  BY <1>2, LatchStep, TeardownStep DEF SchedulerStep
<1>3. CASE UNCHANGED asyncVars
  <2>1. UNCHANGED <<slot, port, jobs, acked, todo, at, op, pt, batch, sched, pending>>
    BY <1>3 DEF asyncVars
  <2>2. /\ TablesSound /\ SignalsTyped /\ jobs \subseteq Handle /\ CallsTyped
        /\ \A t \in Tasks : CallSound(t) /\ WakeSound(t)
    BY InvParts
  <2>3. TablesSound' /\ LifeStep /\ \A u \in Tasks : Spared(u)
    BY Zenon, <2>1, <2>2, Unaffected
  <2>4. CallsTyped' /\ SignalsTyped' /\ jobs' \subseteq Handle /\ \A u \in Tasks : KeptCall(u)
    BY <2>1, <2>2 DEF CallsTyped, KeptCall, SignalsTyped
  <2>5. \A u \in Tasks : CallSound(u)' /\ WakeSound(u)'
    BY Zenon, <2>2, <2>3, <2>4, OthersSound
  <2>6. AsyncInv'
    BY <2>3, <2>4, <2>5 DEF AsyncInv, AsyncTypeOK, TablesSound, TablesTyped, SignalsTyped, CallsTyped
  <2> QED BY <2>3, <2>6
<1> QED BY Zenon, <1>1, <1>2, <1>3, ProducerStep, NotifyStep DEF AsyncNext

\* The initial states satisfy the invariant and are initial for the lifecycle.
LEMMA Initially == AsyncInit => AsyncInv /\ Life!Init
<1> SUFFICES ASSUME AsyncInit PROVE AsyncInv /\ Life!Init
  BY Zenon
<1>1. TablesTyped
  BY SMTT(30), AsyncAssumption DEF AsyncInit, TablesTyped, SlotRecord, PortRecord, Class
<1>2. /\ \A s \in OpSlots : /\ slot[s].generation = 0 /\ slot[s].state = "Free" /\ slot[s].owner = None
                            /\ slot[s].completion = None /\ slot[s].port = None
      /\ \A i \in Ports : /\ port[i].generation = 0 /\ port[i].owner = None /\ port[i].reserved = {}
                          /\ port[i].ready = {} /\ port[i].waiters = {} /\ port[i].consumer = None
      /\ acked = {} /\ jobs = {}
  BY DEF AsyncInit
<1>3. TablesSound
  <2>1. \A s \in OpSlots : SlotSound(s)
    BY ZenonT(30), <1>2 DEF SlotSound
  <2>2. ASSUME NEW i \in Ports PROVE PortSound(i)
    <3>1. IsFiniteSet({}) /\ Cardinality({}) = 0
      BY FS_EmptySet
    <3>2. IsFiniteSet(port[i].reserved) /\ IsFiniteSet(port[i].ready) /\ Used(i) <= PORT_CAPACITY
      <4>1. port[i].reserved = {} /\ port[i].ready = {}
        BY Zenon, <1>2
      <4>2. Used(i) = 0
        BY <3>1, <4>1 DEF Used
      <4> QED BY <3>1, <4>1, <4>2, AsyncAssumption
    <3> QED BY <1>2, <3>2 DEF PortSound
  <2>3. PortsApart /\ AckedOld
    BY Zenon, <1>2 DEF PortsApart, AckedOld
  <2> QED BY Zenon, <1>1, <2>1, <2>2, <2>3 DEF TablesSound
<1>4. CallsTyped /\ SignalsTyped
  BY DEF AsyncInit, CallsTyped, SignalsTyped, Labels
<1>5. ASSUME NEW t \in Tasks PROVE CallSound(t) /\ WakeSound(t)
  <2>1. at[t] = "user" /\ sched[t] = "Running"
    BY DEF AsyncInit
  <2> QED BY Zenon, <2>1 DEF CallSound, WakeSound, OpLabels, PortLabels
<1>6. AsyncInv
  BY Zenon, <1>2, <1>3, <1>4, <1>5, InvParts
<1>7. \A h \in Handle : Phase(h) = "unborn" /\ ~Valid(h)
  <2> SUFFICES ASSUME NEW h \in Handle PROVE Phase(h) = "unborn" /\ ~Valid(h)
    OBVIOUS
  <2>1. h.slot \in OpSlots /\ 0 < h.generation
    BY HandleTyped
  <2> QED BY <1>2, <2>1 DEF Phase, Valid
<1>8. Life!Init
  BY <1>7 DEF Life!Init
<1> QED BY <1>6, <1>8

\* The invariant implies the properties.
LEMMA InvExact == AsyncInv => RecordsExact /\ NoLostWakeup
<1> SUFFICES ASSUME AsyncInv PROVE RecordsExact /\ NoLostWakeup
  OBVIOUS
<1>1. /\ TablesSound /\ TablesTyped /\ AsyncTypeOK
      /\ \A t \in Tasks : CallSound(t) /\ WakeSound(t)
  BY Zenon, InvParts DEF TablesSound, AsyncInv
<1>2. CompletionMatches
  BY <1>1 DEF CompletionMatches, TablesSound, SlotSound
<1>3. OneRecord
  <2> SUFFICES ASSUME NEW i \in Ports, port[i].owner # None
               PROVE  /\ \A h \in port[i].reserved :
                           Valid(h) /\ slot[h.slot].state = "Pending" /\ slot[h.slot].port = PortHandleOf(i)
                      /\ \A s \in OpSlots :
                           (slot[s].state = "Pending" /\ slot[s].port = PortHandleOf(i)) => HandleOf(s) \in port[i].reserved
                      /\ \A event, other \in port[i].ready : event.op = other.op => event = other
                      /\ \A event \in port[i].ready : Valid(event.op) => slot[event.op.slot].state = "Complete"
                      /\ (port[i].reserved \cup OpsIn(port[i].ready)) \cap acked = {}
                      /\ Used(i) <= PORT_CAPACITY
    BY Zenon DEF OneRecord
  <2>1. ASSUME NEW s \in OpSlots, slot[s].state = "Pending", slot[s].port = PortHandleOf(i)
        PROVE  HandleOf(s) \in port[i].reserved
    <3>1. PortHandleOf(i) # None /\ PortHandleOf(i).index = i /\ PortHandleOf(i).generation = port[i].generation
      <4>1. PortHandleOf(i).index = i /\ PortHandleOf(i).generation = port[i].generation
        BY DEF PortHandleOf
      <4> QED BY <1>1, <4>1, OpenPort, HandleTyped
    <3>2. PortOpen(PortHandleOf(i))
      BY <3>1 DEF PortOpen
    <3> QED BY Zenon, <1>1, <2>1, <3>1, <3>2 DEF TablesSound, SlotSound
  <2>2. PortSound(i)
    BY <1>1 DEF TablesSound
  <2> QED BY Zenon, <2>1, <2>2 DEF PortSound
<1>4. NoDeadResidue
  <2> SUFFICES ASSUME NEW t \in Tasks, sched[t] = "Dead"
               PROVE  /\ \A s \in OpSlots : slot[s].state # "Free" => slot[s].owner # t
                      /\ \A i \in Ports : port[i].owner # t /\ t \notin port[i].waiters /\ port[i].consumer # t
    BY DEF NoDeadResidue
  <2>1. /\ \A s \in OpSlots : slot[s].state # "Free" => slot[s].owner # t
        /\ \A i \in Ports : port[i].owner # t
    BY Zenon, <1>1 DEF CallSound
  <2>2. \A i \in Ports : port[i].waiters \subseteq {port[i].owner} /\ port[i].consumer \in {None, port[i].owner}
    BY ZenonT(30), <1>1 DEF TablesSound, PortSound
  <2> QED BY Zenon, <2>1, <2>2, AsyncAssumption
<1>5. NoLostWakeup
  BY <1>1 DEF NoLostWakeup, NoLostOpWakeup, NoLostPortWakeup, WakeSound, Registered, Watching
<1> QED BY <1>1, <1>2, <1>3, <1>4, <1>5 DEF RecordsExact

\* Whatever tasks, producers and the scheduler do in whichever order: a completed operation holds its own
\* generation's result, an accepted association has exactly one record, which a reader acknowledges at
\* most once, ports never exceed their capacity, and a dead task leaves nothing behind (operations.rs
\* and completion_port.rs).
THEOREM RecordsAlwaysExact == AsyncSpec => []RecordsExact
  BY Initially, Preserved, InvExact, PTL DEF AsyncSpec

\* No task sleeps in async_wait or completion_port_read through a completion or a publication: the check
\* under the lock, the registration and the sleep leave no gap (wait_ready, begin_wait, wait_for_signal).
THEOREM WakeupsNeverLost == AsyncSpec => []NoLostWakeup
  BY Initially, Preserved, InvExact, PTL DEF AsyncSpec

\* The runtime implements AsyncLifecycle: every operation is born once, completes at most once, is
\* released once by or for its owner, and its handle is never good again (allocate, complete, release).
THEOREM OperationsLiveOnce == AsyncSpec => ImplementsLifecycle
<1>1. AsyncInit => AsyncInv /\ Life!Init
  BY Initially
<1>2. AsyncInv /\ [AsyncNext]_asyncVars => AsyncInv' /\ [Life!Next]_(Life!lifeVars)
  BY Preserved DEF LifeStep
<1> QED BY <1>1, <1>2, PTL DEF AsyncSpec, ImplementsLifecycle, Life!Spec

==============================================================================

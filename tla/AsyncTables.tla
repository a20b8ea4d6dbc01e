----------------------------- MODULE AsyncTables -----------------------------
(***************************************************************************)
(* The invariant of the asynchronous runtime (AsyncRuntime) and what the   *)
(* operations on its two tables, of operations and of completion ports, do *)
(* to it.  AsyncProofs takes the calls of the tasks from here to the       *)
(* theorems.  The invariant adds to the properties what makes them stable: *)
(* which operations a port's records belong to, in which generation, and   *)
(* where in its call a task may be asleep.                                 *)
(***************************************************************************)
EXTENDS AsyncRuntime, FiniteSetTheorems, TLAPS

\* The operation table, the port table and the history of acknowledged records have their types.
TablesTyped ==
    /\ slot \in [OpSlots -> SlotRecord]
    /\ port \in [Ports -> PortRecord]
    /\ acked \subseteq Handle

\* An operation slot: a free one belongs to no port, a complete one holds the result of its own
\* generation, and one that is joined to a port that is still open has the port's owner and, until it is
\* complete, a record reserved there.
SlotSound(s) ==
    /\ slot[s].state = "Free" => slot[s].port = None
    /\ slot[s].state # "Free" => slot[s].owner \in Tasks /\ slot[s].generation # 0
    /\ slot[s].state = "Complete" => slot[s].completion = HandleOf(s)
    /\ slot[s].state # "Complete" => slot[s].completion = None
    /\ slot[s].port # None =>
          slot[s].port.generation <= port[slot[s].port.index].generation
    /\ slot[s].port # None /\ PortOpen(slot[s].port) =>
          /\ slot[s].owner = port[slot[s].port.index].owner
          /\ slot[s].state = "Pending" => HandleOf(s) \in port[slot[s].port.index].reserved
    /\ slot[s].state # "Free" /\ HandleOf(s) \in acked => slot[s].port # None

\* A port: its records are those of pending operations that are joined to it (reserved) and of operations
\* that were published (ready), one each, none of them acknowledged, within the capacity; only the
\* owner waits or reads.
PortSound(i) ==
    /\ port[i].owner = None => port[i].reserved = {} /\ port[i].ready = {}
    /\ port[i].owner # None => port[i].generation # 0
    /\ port[i].waiters \subseteq {port[i].owner} /\ port[i].consumer \in {None, port[i].owner}
    /\ IsFiniteSet(port[i].reserved) /\ IsFiniteSet(port[i].ready) /\ Used(i) <= PORT_CAPACITY
    /\ \A h \in port[i].reserved :
          Valid(h) /\ slot[h.slot].state = "Pending" /\ slot[h.slot].port = PortHandleOf(i)
    /\ \A e \in port[i].ready :
          /\ e.op.generation <= slot[e.op.slot].generation
          /\ Valid(e.op) => slot[e.op.slot].state = "Complete" /\ slot[e.op.slot].port = PortHandleOf(i)
    /\ \A e, f \in port[i].ready : e.op = f.op => e = f
    /\ (port[i].reserved \cup OpsIn(port[i].ready)) \cap acked = {}

\* A record is ready on one port only.
PortsApart ==
    \A i, j \in Ports : \A e \in port[i].ready, f \in port[j].ready : e.op = f.op => i = j
\* What was acknowledged existed.
AckedOld == \A h \in acked : h.generation <= slot[h.slot].generation

\* The two tables together.
TablesSound ==
    /\ TablesTyped
    /\ \A s \in OpSlots : SlotSound(s)
    /\ \A i \in Ports : PortSound(i)
    /\ PortsApart /\ AckedOld

\* Where a call works on an operation, and on a port.
OpLabels == {"submit", "service", "opwait", "opsleep", "opcopy", "cancel"}
PortLabels == {"portwait", "portsleep", "portwoken", "portcopy"}

\* A task in a call: it has the handle the call works on, only the two sleeping places give up the CPU, a
\* task that exits owns no operation, a dead one no port, and a reader that copies out has its batch.
CallSound(t) ==
    /\ at[t] \in OpLabels => op[t] \in Handle
    /\ at[t] \in PortLabels => pt[t] \in PortHandle
    /\ at[t] \in (OpLabels \cup PortLabels) \ {"opwait", "portwoken"} => sched[t] = "Running"
    /\ at[t] = "dead" <=> sched[t] = "Dead"
    /\ at[t] \in {"exiting", "dead"} => \A s \in OpSlots : slot[s].state # "Free" => slot[s].owner # t
    /\ at[t] = "dead" => \A i \in Ports : port[i].owner # t
    /\ at[t] = "portcopy" => /\ PortOwned(t, pt[t]) /\ port[pt[t].index].consumer = t
                             /\ batch[t] \subseteq port[pt[t].index].ready

\* A completion, and a publication, would wake the task.
Registered(t) == slot[op[t].slot].state = "Pending" /\ slot[op[t].slot].waiting
Watching(t) == port[pt[t].index].ready = {} /\ t \in port[pt[t].index].waiters

\* A task that is about to sleep, or asleep, has not been forgotten: it is registered, or a signal is on
\* its way to it, or the signal has arrived.
WakeSound(t) ==
    /\ at[t] = "opsleep" => Owned(t, op[t]) /\ (Registered(t) \/ SignalDue("op", t) \/ pending[t])
    /\ at[t] = "opwait" /\ sched[t] = "Blocked" => Owned(t, op[t]) /\ (Registered(t) \/ SignalDue("op", t))
    /\ at[t] = "portsleep" => PortOwned(t, pt[t]) /\ (Watching(t) \/ SignalDue("port", t) \/ pending[t])
    /\ at[t] = "portwoken" /\ sched[t] = "Blocked" => PortOwned(t, pt[t]) /\ (Watching(t) \/ SignalDue("port", t))

\* The inductive invariant.
AsyncInv ==
    /\ AsyncTypeOK
    /\ TablesSound
    /\ \A t \in Tasks : CallSound(t) /\ WakeSound(t)

----------------------------------------------------------------------------
\* What a step of another actor leaves to task t: it gains no operation and no port, keeps the
\* ones it has, and a registration of its own is replaced by a signal, not dropped.
Spared(t) ==
    /\ \A s \in OpSlots : slot'[s].state # "Free" /\ slot'[s].owner = t =>
          slot[s].state # "Free" /\ slot[s].owner = t
    /\ \A i \in Ports : port'[i].owner = t => port[i].owner = t
    /\ \A p \in PortHandle : PortOwned(t, p) =>
          /\ PortOwned(t, p)' /\ port'[p.index].consumer = port[p.index].consumer
          /\ port[p.index].ready \subseteq port'[p.index].ready
          /\ port[p.index].ready = {} /\ t \in port[p.index].waiters =>
               (port'[p.index].ready = {} /\ t \in port'[p.index].waiters) \/ SignalDue("port", t)'
    /\ \A h \in Handle : Owned(t, h) =>
          /\ Owned(t, h)'
          /\ slot[h.slot].state = "Pending" /\ slot[h.slot].waiting =>
               (slot'[h.slot].state = "Pending" /\ slot'[h.slot].waiting) \/ SignalDue("op", t)'
    /\ \A kind \in {"op", "port"} : SignalDue(kind, t) => SignalDue(kind, t)'

\* A handle names a slot and a generation that is not 0, and is no Option's None.
LEMMA HandleTyped ==
    /\ \A h \in Handle : h.slot \in OpSlots /\ h.generation \in Nat /\ h.generation # 0 /\ h # None
    /\ \A p \in PortHandle : p.index \in Ports /\ p.generation \in Nat /\ p.generation # 0 /\ p # None
    /\ \A g, h \in Handle : g.slot = h.slot /\ g.generation = h.generation => g = h
    /\ \A p, q \in PortHandle : p.index = q.index /\ p.generation = q.generation => p = q
  BY AsyncAssumption DEF Handle, PortHandle, Generations

\* The count of a finite set without one of its elements.
LEMMA OneLess ==
    ASSUME NEW S, IsFiniteSet(S), NEW x \in S
    PROVE  /\ IsFiniteSet(S \ {x}) /\ Cardinality(S) \in Nat
           /\ Cardinality(S \ {x}) = Cardinality(S) - 1
  BY FS_RemoveElement, FS_CardinalityType

\* The count of a finite set with one more element.
LEMMA OneMore ==
    ASSUME NEW S, IsFiniteSet(S), NEW x, x \notin S
    PROVE  /\ IsFiniteSet(S \cup {x}) /\ Cardinality(S) \in Nat
           /\ Cardinality(S \cup {x}) = Cardinality(S) + 1
  BY FS_AddElement, FS_CardinalityType

\* The fields of the tables' records.
LEMMA RecordTyped ==
    ASSUME TablesTyped
    PROVE  /\ \A s \in OpSlots :
                /\ slot[s].generation \in 0 .. MaxGeneration /\ slot[s].generation \in Nat
                /\ slot[s].state \in {"Free", "Pending", "Complete"}
                /\ slot[s].class \in Class /\ slot[s].owner \in Tasks \cup {None}
                /\ slot[s].waiting \in BOOLEAN /\ slot[s].completion \in Handle \cup {None}
                /\ slot[s].port \in PortHandle \cup {None}
           /\ \A i \in Ports :
                /\ port[i].generation \in 0 .. MaxGeneration /\ port[i].generation \in Nat
                /\ port[i].owner \in Tasks \cup {None} /\ port[i].reserved \subseteq Handle
                /\ port[i].ready \subseteq Event /\ port[i].waiters \subseteq Tasks
                /\ port[i].consumer \in Tasks \cup {None}
  BY AsyncAssumption DEF TablesTyped, SlotRecord, PortRecord

\* The fields of a ready record.
LEMMA EventTyped == \A e \in Event : e.op \in Handle /\ e.flag \in {"done", "cancelled"}
  BY DEF Event

\* A valid handle is the handle of its slot.
LEMMA ValidIs ==
    ASSUME TablesTyped
    PROVE  /\ \A h \in Handle : Valid(h) => HandleOf(h.slot) = h
           /\ \A p \in PortHandle : PortOpen(p) => PortHandleOf(p.index) = p
  BY DEF Valid, HandleOf, PortOpen, PortHandleOf, Handle, PortHandle

\* An open port has a handle.
LEMMA OpenPort ==
    ASSUME TablesSound, NEW i \in Ports, port[i].owner # None
    PROVE  PortHandleOf(i) \in PortHandle
<1>1. port[i].generation # 0
  BY DEF TablesSound, PortSound
<1>2. port[i].generation \in Nat /\ port[i].generation \in 0 .. MaxGeneration
  BY Zenon, RecordTyped DEF TablesSound
<1> QED BY <1>1, <1>2, AsyncAssumption DEF PortHandleOf, PortHandle, Generations

\* Steps that leave the tables and the signals alone.
LEMMA Rests ==
    ASSUME TablesSound, UNCHANGED <<slot, port, acked>>
    PROVE  TablesSound'
  BY DEF TablesSound, TablesTyped, SlotSound, PortSound, PortsApart, AckedOld, HandleOf, PortHandleOf,
         Valid, PortOpen, Used, OpsIn

\* Table::allocate.
LEMMA Allocates ==
    ASSUME TablesSound, NEW t \in Tasks, NEW class \in Class, NEW k \in Allocatable,
           slot' = Allocate(k, class, t), UNCHANGED <<port, acked, todo>>
    PROVE  TablesSound' /\ \A u \in Tasks \ {t} : Spared(u)
<1>1. k \in OpSlots /\ slot[k].state = "Free" /\ slot[k].generation # MaxGeneration /\ TablesTyped
  BY DEF Allocatable, TablesSound
<1>2. /\ \A s \in OpSlots \ {k} : slot'[s] = slot[s]
      /\ slot'[k].generation = slot[k].generation + 1 /\ slot'[k].state = "Pending"
      /\ slot'[k].class = class /\ slot'[k].owner = t /\ slot'[k].waiting = FALSE
      /\ slot'[k].completion = None /\ slot'[k].port = slot[k].port
      /\ DOMAIN slot' = OpSlots
  BY <1>1 DEF Allocate, Allocated, TablesTyped, SlotRecord
<1>3. slot' \in [OpSlots -> SlotRecord]
  <2>1. slot[k].generation + 1 \in 0 .. MaxGeneration
    BY <1>1, RecordTyped, AsyncAssumption
  <2> QED BY ZenonT(30), <1>1, <2>1 DEF Allocate, Allocated, TablesTyped, SlotRecord
<1>4. TablesTyped'
  BY <1>1, <1>3 DEF TablesTyped
<1>5. slot[k].port = None /\ slot[k].generation \in Nat
  BY <1>1, RecordTyped DEF TablesSound, SlotSound
<1>6. ASSUME NEW s \in OpSlots PROVE SlotSound(s)'
  <2>1. CASE s = k
    <3>1. slot[k].generation + 1 # 0
      BY <1>5
    <3>2. HandleOf(k)' \notin acked
      <4>1. SUFFICES ASSUME HandleOf(k)' \in acked PROVE FALSE
        OBVIOUS
      <4>2. slot[k].generation + 1 <= slot[k].generation
        BY Zenon, <1>2, <4>1 DEF HandleOf, TablesSound, AckedOld
      <4> QED BY <1>5, <4>2
    <3> QED BY <1>2, <1>5, <2>1, <3>1, <3>2 DEF SlotSound
  <2>2. CASE s # k
    BY <1>2, <2>2 DEF TablesSound, SlotSound, HandleOf, PortOpen
  <2> QED BY <2>1, <2>2
<1>7. ASSUME NEW i \in Ports PROVE PortSound(i)'
  <2>1. \A h \in port[i].reserved : h.slot # k
    BY <1>1 DEF TablesSound, PortSound, Valid
  <2>2. PortSound(i) /\ port[i].reserved \subseteq Handle /\ port[i].ready \subseteq Event
    BY <1>1, RecordTyped DEF TablesSound
  <2>3. \A h \in port[i].reserved :
          Valid(h)' /\ slot'[h.slot].state = "Pending" /\ slot'[h.slot].port = PortHandleOf(i)'
    BY <1>2, <2>1, <2>2, HandleTyped DEF PortSound, Valid, PortHandleOf
  <2>4. ASSUME NEW e \in port[i].ready
        PROVE  /\ e.op.generation <= slot'[e.op.slot].generation
               /\ Valid(e.op)' => slot'[e.op.slot].state = "Complete" /\ slot'[e.op.slot].port = PortHandleOf(i)'
    <3>1. e.op \in Handle /\ e.op.slot \in OpSlots /\ e.op.generation \in Nat
      BY <2>2, EventTyped, HandleTyped
    <3>2. CASE e.op.slot = k
      <4>1. e.op.generation <= slot[k].generation
        BY <2>2, <3>2 DEF PortSound
      <4>2. e.op.generation <= slot[k].generation + 1 /\ e.op.generation # slot[k].generation + 1
        BY <1>5, <3>1, <4>1
      <4> QED BY <1>2, <3>2, <4>2 DEF Valid
    <3>3. CASE e.op.slot # k
      BY <1>2, <2>2, <3>1, <3>3 DEF PortSound, Valid, PortHandleOf
    <3> QED BY <3>2, <3>3
  <2> QED BY <2>2, <2>3, <2>4 DEF PortSound, Used, OpsIn
<1>8. PortsApart' /\ AckedOld'
  <2>1. ASSUME NEW h \in acked PROVE h.generation <= slot'[h.slot].generation
    <3>1. h \in Handle /\ h.slot \in OpSlots /\ h.generation \in Nat /\ h.generation <= slot[h.slot].generation
      BY <1>1, HandleTyped DEF TablesTyped, TablesSound, AckedOld
    <3> QED BY <1>2, <1>5, <3>1
  <2> QED BY <2>1 DEF TablesSound, PortsApart, AckedOld
<1>9. ASSUME NEW u \in Tasks \ {t} PROVE Spared(u)
  <2>1. \A s \in OpSlots : slot'[s].state # "Free" /\ slot'[s].owner = u =>
          slot[s].state # "Free" /\ slot[s].owner = u
    BY <1>2
  <2>2. \A h \in Handle : Owned(u, h) => h.slot # k /\ h.slot \in OpSlots
    BY <1>1, HandleTyped DEF Owned, Valid
  <2>3. \A h \in Handle : Owned(u, h) => Owned(u, h)' /\ slot'[h.slot] = slot[h.slot]
    BY <1>2, <2>2 DEF Owned, Valid
  <2>4. /\ \A p \in PortHandle : PortOwned(u, p) => PortOwned(u, p)'
        /\ \A kind : SignalDue(kind, u) => SignalDue(kind, u)'
    BY DEF PortOwned, PortOpen, SignalDue
  <2> QED BY <2>1, <2>3, <2>4 DEF Spared
<1> QED BY <1>4, <1>6, <1>7, <1>8, <1>9 DEF TablesSound

\* The operation of h is completed or its slot freed; port i publishes the record it has reserved.
SlotLeft(h) ==
    /\ \A s \in OpSlots \ {h.slot} : slot'[s] = slot[s]
    /\ slot'[h.slot].generation = slot[h.slot].generation
    /\ \/ /\ slot'[h.slot].state = "Free" /\ slot'[h.slot].port = None
          /\ slot'[h.slot].completion = None
       \/ /\ slot[h.slot].state = "Pending" /\ slot'[h.slot].state = "Complete"
          /\ slot'[h.slot].completion = h /\ slot'[h.slot].port = slot[h.slot].port
          /\ slot'[h.slot].owner = slot[h.slot].owner
PortLeft(i, h, new) ==
    /\ port'[i].generation = port[i].generation /\ port'[i].owner = port[i].owner
    /\ port'[i].consumer = port[i].consumer
    /\ port'[i].reserved = port[i].reserved \ {h}
    /\ \/ h \notin port[i].reserved /\ port'[i] = port[i]
       \/ /\ h \in port[i].reserved /\ port'[i].ready = port[i].ready \cup {new}
          /\ port'[i].waiters = {}

\* Table::complete and Table::release with publish: the tables stay sound when one operation leaves.
LEMMA Leaves ==
    ASSUME TablesSound, TablesTyped', NEW h \in Handle, Valid(h), NEW new \in Event, new.op = h,
           SlotLeft(h), \A i \in Ports : PortLeft(i, h, new), acked' = acked
    PROVE  TablesSound'
<1> DEFINE k == h.slot
<1>1. /\ k \in OpSlots /\ h.generation \in Nat /\ TablesTyped /\ HandleOf(k) = h /\ slot[k].state # "Free"
      /\ slot[k].generation = h.generation
  BY HandleTyped, RecordTyped, ValidIs DEF TablesSound, Valid
<1>2. slot'[k].generation = h.generation
  BY <1>1 DEF SlotLeft
<1>3. \A i \in Ports : h \in port[i].reserved => slot[k].state = "Pending" /\ slot[k].port = PortHandleOf(i)
  BY DEF TablesSound, PortSound
<1>4. \A i \in Ports : PortHandleOf(i)' = PortHandleOf(i)
  BY DEF PortLeft, PortHandleOf
<1>5. \A q \in PortHandle : PortOpen(q)' <=> PortOpen(q)
  BY HandleTyped DEF PortOpen, PortLeft
<1>6. ASSUME NEW s \in OpSlots PROVE SlotSound(s)'
  <2>1. SlotSound(s) /\ slot[s].port \in PortHandle \cup {None}
    BY Zenon, <1>1, RecordTyped DEF TablesSound
  <2>2. slot[s].port # None =>
             /\ slot[s].port.generation <= port'[slot[s].port.index].generation
             /\ port'[slot[s].port.index].owner = port[slot[s].port.index].owner
    BY <2>1, HandleTyped DEF SlotSound, PortLeft
  <2>3. CASE s = k
    <3>1. HandleOf(k)' = h
      BY <1>1, <1>2 DEF HandleOf
    <3>2. CASE slot'[k].state = "Free"
      <4>1. slot'[k].port = None /\ slot'[k].completion = None
        BY <3>2 DEF SlotLeft
      <4> QED BY <2>3, <3>2, <4>1 DEF SlotSound
    <3>3. CASE slot'[k].state # "Free"
      <4>1. /\ slot[k].state = "Pending" /\ slot'[k].state = "Complete" /\ slot'[k].completion = h
            /\ slot'[k].port = slot[k].port /\ slot'[k].owner = slot[k].owner
        BY <3>3 DEF SlotLeft
      <4>2. PICK q \in PortHandle \cup {None} : q = slot[k].port
        BY Zenon, <2>1, <2>3
      <4>3. q # None => /\ q.generation <= port'[q.index].generation
                        /\ PortOpen(q)' => slot'[k].owner = port'[q.index].owner
        BY Zenon, <1>5, <2>1, <2>2, <2>3, <4>1, <4>2 DEF SlotSound
      <4>4. slot'[k].owner \in Tasks /\ slot'[k].generation # 0 /\ (h \in acked => q # None)
        BY <1>1, <1>2, <2>1, <2>3, <4>1, <4>2 DEF SlotSound
      <4>5. slot'[k].port = q
        BY <4>1, <4>2
      <4>6. (slot[k].port # None /\ PortOpen(slot[k].port) => slot[k].owner = port[slot[k].port.index].owner)'
        BY Zenon, <4>3, <4>5 DEF PortOpen
      <4> QED BY <2>3, <3>1, <4>1, <4>3, <4>4, <4>5, <4>6 DEF SlotSound
    <3> QED BY <3>2, <3>3
  <2>4. CASE s # k
    <3>1. slot'[s] = slot[s] /\ HandleOf(s)' = HandleOf(s) /\ HandleOf(s) # h
      BY SMTT(30), <2>4 DEF HandleOf, SlotLeft
    <3>2. slot[s].port # None =>
             /\ PortOpen(slot[s].port)' <=> PortOpen(slot[s].port)
             /\ HandleOf(s) \in port[slot[s].port.index].reserved => HandleOf(s) \in port'[slot[s].port.index].reserved
      BY <2>1, <3>1, HandleTyped DEF SlotSound, PortOpen, PortLeft
    <3> QED BY <2>1, <2>2, <3>1, <3>2 DEF SlotSound
  <2> QED BY <2>3, <2>4
<1>7. ASSUME NEW i \in Ports, NEW e \in port[i].ready
      PROVE  /\ e.op.generation <= slot'[e.op.slot].generation
             /\ Valid(e.op)' => slot'[e.op.slot].state = "Complete" /\ slot'[e.op.slot].port = PortHandleOf(i)
             /\ e.op = h => slot[k].state = "Complete"
  <2>1. e.op \in Handle /\ e.op.slot \in OpSlots /\ e.op.generation \in Nat
    BY <1>1, RecordTyped, EventTyped, HandleTyped
  <2>2. /\ e.op.generation <= slot[e.op.slot].generation
        /\ Valid(e.op) => slot[e.op.slot].state = "Complete" /\ slot[e.op.slot].port = PortHandleOf(i)
    BY DEF TablesSound, PortSound
  <2>3. e.op = h => slot[k].state = "Complete"
    BY <2>2
  <2>4. CASE e.op.slot = k
    <3>1. ASSUME slot'[e.op.slot].generation = e.op.generation, slot'[e.op.slot].state # "Free" PROVE FALSE
      <4>1. e.op = h
        BY Zenon, <1>2, <2>1, <2>4, <3>1, HandleTyped
      <4> QED BY <2>3, <2>4, <3>1, <4>1 DEF SlotLeft
    <3> QED BY <1>1, <1>2, <2>2, <2>3, <2>4, <3>1 DEF Valid
  <2>5. CASE e.op.slot # k
    <3>1. slot'[e.op.slot] = slot[e.op.slot]
      BY <2>1, <2>5 DEF SlotLeft
    <3> QED BY <2>2, <2>3, <3>1 DEF Valid
  <2> QED BY <2>4, <2>5
<1>8. ASSUME NEW i \in Ports, h \in port[i].reserved, NEW j \in Ports, NEW e \in port[j].ready
      PROVE  e.op # h
  BY <1>3, <1>7, <1>8
<1>9. ASSUME NEW i \in Ports PROVE PortSound(i)'
  <2>1. PortSound(i) /\ port[i].reserved \subseteq Handle /\ port[i].ready \subseteq Event
    BY <1>1, RecordTyped DEF TablesSound
  <2>2. ASSUME NEW g \in port'[i].reserved
        PROVE  Valid(g)' /\ slot'[g.slot].state = "Pending" /\ slot'[g.slot].port = PortHandleOf(i)
    <3>1. g \in port[i].reserved /\ g # h /\ g \in Handle /\ g.slot \in OpSlots
      BY <2>1, <2>2, HandleTyped DEF PortLeft
    <3>2. Valid(g) /\ slot[g.slot].state = "Pending" /\ slot[g.slot].port = PortHandleOf(i)
      BY <2>1, <3>1 DEF PortSound
    <3>3. g.slot # k
      BY Zenon, <1>1, <3>1, <3>2, ValidIs
    <3> QED BY <3>1, <3>2, <3>3 DEF Valid, SlotLeft
  <2>3. CASE h \notin port[i].reserved
    <3>1. port'[i] = port[i]
      BY <2>3 DEF PortLeft
    <3> QED BY <1>4, <1>7, <2>1, <2>2, <3>1 DEF PortSound, Used, OpsIn
  <2>4. CASE h \in port[i].reserved
    <3>1. /\ port'[i].reserved = port[i].reserved \ {h} /\ port'[i].ready = port[i].ready \cup {new}
          /\ port'[i].waiters = {} /\ port'[i].owner = port[i].owner /\ port'[i].consumer = port[i].consumer
          /\ port'[i].generation = port[i].generation
      BY <2>4 DEF PortLeft
    <3>2. port[i].owner # None
      BY <2>1, <2>4 DEF PortSound
    <3>3. \A e \in port[i].ready : e.op # h
      BY <1>8, <2>4
    <3>4. /\ IsFiniteSet(port'[i].reserved) /\ IsFiniteSet(port'[i].ready)
          /\ Cardinality(port'[i].reserved) = Cardinality(port[i].reserved) - 1
          /\ Cardinality(port'[i].ready) = Cardinality(port[i].ready) + 1
          /\ Cardinality(port[i].reserved) \in Nat /\ Cardinality(port[i].ready) \in Nat
      <4>1. new \notin port[i].ready
        BY <3>3
      <4>2. IsFiniteSet(port[i].reserved) /\ IsFiniteSet(port[i].ready)
        BY <2>1 DEF PortSound
      <4>3. /\ IsFiniteSet(port[i].reserved \ {h}) /\ Cardinality(port[i].reserved) \in Nat
            /\ Cardinality(port[i].reserved \ {h}) = Cardinality(port[i].reserved) - 1
        BY <2>4, <4>2, OneLess
      <4>4. /\ IsFiniteSet(port[i].ready \cup {new}) /\ Cardinality(port[i].ready) \in Nat
            /\ Cardinality(port[i].ready \cup {new}) = Cardinality(port[i].ready) + 1
        BY Zenon, <4>1, <4>2, OneMore
      <4> QED BY <3>1, <4>3, <4>4
    <3>5. Used(i)' <= PORT_CAPACITY
      <4> DEFINE m == Cardinality(port[i].reserved)
                 n == Cardinality(port[i].ready)
      <4>1. m + n <= PORT_CAPACITY /\ m \in Nat /\ n \in Nat
        BY <2>1, <3>4 DEF PortSound, Used
      <4>2. Used(i)' = (m - 1) + (n + 1)
        BY <3>4 DEF Used
      <4> HIDE DEF m, n
      <4> QED BY <4>1, <4>2, AsyncAssumption
    <3>6. /\ new.op.generation <= slot'[new.op.slot].generation
          /\ Valid(new.op)' => slot'[new.op.slot].state = "Complete" /\ slot'[new.op.slot].port = PortHandleOf(i)
      <4>1. slot[k].state = "Pending" /\ slot[k].port = PortHandleOf(i)
        BY <1>3, <2>4
      <4> QED BY <1>1, <1>2, <4>1 DEF Valid, SlotLeft
    <3>7. \A e \in port'[i].ready :
             /\ e.op.generation <= slot'[e.op.slot].generation
             /\ Valid(e.op)' => slot'[e.op.slot].state = "Complete" /\ slot'[e.op.slot].port = PortHandleOf(i)
      <4> SUFFICES ASSUME NEW e \in port'[i].ready
                   PROVE  /\ e.op.generation <= slot'[e.op.slot].generation
                          /\ Valid(e.op)' => slot'[e.op.slot].state = "Complete" /\ slot'[e.op.slot].port = PortHandleOf(i)
        OBVIOUS
      <4>1. e \in port[i].ready \/ e = new
        BY <3>1
      <4> QED BY <1>7, <3>6, <4>1
    <3>8. \A e, f \in port'[i].ready : e.op = f.op => e = f
      <4> SUFFICES ASSUME NEW e \in port'[i].ready, NEW f \in port'[i].ready, e.op = f.op PROVE e = f
        OBVIOUS
      <4>1. (e \in port[i].ready \/ e = new) /\ (f \in port[i].ready \/ f = new)
        BY Zenon, <3>1
      <4>2. e \in port[i].ready /\ f \in port[i].ready => e = f
        BY <2>1 DEF PortSound
      <4> QED BY <3>3, <4>1, <4>2
    <3>9. (port'[i].reserved \cup OpsIn(port'[i].ready)) \cap acked = {}
      <4>1. \A o : o \in OpsIn(port'[i].ready) => o \in OpsIn(port[i].ready) \/ o = h
        BY Zenon, <3>1 DEF OpsIn
      <4> QED BY Zenon, <2>1, <2>4, <3>1, <4>1 DEF PortSound
    <3>10. port'[i].waiters \subseteq {port'[i].owner} /\ port'[i].consumer \in {None, port'[i].owner}
             /\ port'[i].generation # 0
      BY <2>1, <3>1, <3>2 DEF PortSound
    <3>11. OpsIn(port[i].ready)' = OpsIn(port'[i].ready)
      BY DEF OpsIn
    <3> QED BY Zenon, <1>4, <2>2, <3>1, <3>2, <3>4, <3>5, <3>7, <3>8, <3>9, <3>10, <3>11 DEF PortSound
  <2> QED BY <2>3, <2>4
<1>10. ASSUME NEW g \in acked PROVE g.generation <= slot'[g.slot].generation
  <2>1. g \in Handle /\ g.slot \in OpSlots /\ g.generation <= slot[g.slot].generation
    BY <1>1, HandleTyped DEF TablesTyped, TablesSound, AckedOld
  <2> QED BY <2>1 DEF SlotLeft
<1>11. ASSUME NEW i \in Ports, NEW j \in Ports, NEW e \in port'[i].ready, NEW f \in port'[j].ready, e.op = f.op
       PROVE  i = j
  <2>1. e \in port[i].ready \/ (h \in port[i].reserved /\ e = new)
    BY DEF PortLeft
  <2>2. f \in port[j].ready \/ (h \in port[j].reserved /\ f = new)
    BY DEF PortLeft
  <2>3. CASE e \in port[i].ready /\ f \in port[j].ready
    BY <1>11, <2>3 DEF TablesSound, PortsApart
  <2>4. CASE h \in port[i].reserved /\ h \in port[j].reserved
    <3>1. PortHandleOf(i) = PortHandleOf(j)
      BY <1>3, <2>4
    <3>2. PortHandleOf(i).index = i /\ PortHandleOf(j).index = j
      BY DEF PortHandleOf
    <3> QED BY <3>1, <3>2
  <2> QED BY <1>8, <1>11, <2>1, <2>2, <2>3, <2>4
<1>12. PortsApart' /\ AckedOld'
  BY <1>10, <1>11 DEF PortsApart, AckedOld
<1> QED BY <1>6, <1>9, <1>12 DEF TablesSound

\* Slots are freed, records leave their ports, ports are closed, flags change; nothing is added.
SlotShrinks(s) ==
    /\ slot'[s].generation = slot[s].generation
    /\ \/ /\ slot'[s].state = slot[s].state /\ slot'[s].owner = slot[s].owner
          /\ slot'[s].completion = slot[s].completion /\ slot'[s].port = slot[s].port
       \/ slot'[s].state = "Free" /\ slot'[s].completion = None /\ slot'[s].port = None
PortShrinks(i) ==
    /\ port'[i].generation = port[i].generation
    /\ port'[i].reserved \subseteq port[i].reserved /\ port'[i].ready \subseteq port[i].ready
    /\ port'[i].owner = port[i].owner \/ (port'[i].owner = None /\ port'[i].reserved = {} /\ port'[i].ready = {})
    /\ port'[i].waiters \subseteq {port'[i].owner} /\ port'[i].consumer \in {None, port'[i].owner}
    /\ \A h \in port'[i].reserved : slot'[h.slot].state = "Pending"
    /\ \A h \in port[i].reserved :
          port'[i].owner # None /\ slot'[h.slot].state = "Pending" => h \in port'[i].reserved
AckedGrows ==
    /\ acked \subseteq acked'
    /\ \A h \in acked' \ acked : \E i \in Ports : h \in OpsIn(port[i].ready)
    /\ \A i \in Ports : (port'[i].reserved \cup OpsIn(port'[i].ready)) \cap (acked' \ acked) = {}

\* The tables stay sound when they only shrink: close, finish and the two release_owner.
LEMMA Shrinks ==
    ASSUME TablesSound, TablesTyped', \A s \in OpSlots : SlotShrinks(s), \A i \in Ports : PortShrinks(i),
           AckedGrows
    PROVE  TablesSound'
<1>1. TablesTyped
  BY DEF TablesSound
<1>2. \A i \in Ports : PortHandleOf(i)' = PortHandleOf(i)
  BY DEF PortShrinks, PortHandleOf
<1>3. \A s \in OpSlots : HandleOf(s)' = HandleOf(s)
  BY Zenon DEF SlotShrinks, HandleOf
<1>4. ASSUME NEW i \in Ports, NEW e \in port[i].ready
      PROVE  /\ e.op \in Handle /\ e.op.slot \in OpSlots /\ e.op.generation \in Nat
             /\ e.op.generation <= slot[e.op.slot].generation
             /\ Valid(e.op) => slot[e.op.slot].state = "Complete" /\ slot[e.op.slot].port = PortHandleOf(i)
  BY Zenon, <1>1, RecordTyped, EventTyped, HandleTyped DEF TablesSound, PortSound
<1>5. ASSUME NEW h \in acked' \ acked
      PROVE  /\ h \in Handle /\ h.slot \in OpSlots /\ h.generation <= slot[h.slot].generation
             /\ Valid(h) => slot[h.slot].port # None
  <2>1. PICK i \in Ports : h \in OpsIn(port[i].ready)
    BY DEF AckedGrows
  <2>2. PICK e \in port[i].ready : h = e.op
    BY <2>1 DEF OpsIn
  <2>3. ASSUME Valid(h) PROVE slot[h.slot].port # None
    <3>1. slot[h.slot].port = PortHandleOf(i)
      BY <1>4, <2>2, <2>3
    <3>2. port[i].owner # None
      BY <2>2 DEF TablesSound, PortSound
    <3> QED BY <3>1, <3>2, OpenPort, HandleTyped
  <2> QED BY <1>4, <2>2, <2>3
<1>6. ASSUME NEW s \in OpSlots PROVE SlotSound(s)'
  <2>1. SlotSound(s) /\ slot[s].port \in PortHandle \cup {None}
    BY <1>1, RecordTyped DEF TablesSound
  <2>2. CASE slot'[s].state = "Free" /\ slot'[s].completion = None /\ slot'[s].port = None
    BY Zenon, <2>2 DEF SlotSound
  <2>3. CASE /\ slot'[s].state = slot[s].state /\ slot'[s].owner = slot[s].owner
             /\ slot'[s].completion = slot[s].completion /\ slot'[s].port = slot[s].port
    <3>1. PICK q \in PortHandle \cup {None} : q = slot[s].port /\ q = slot'[s].port
      BY Zenon, <2>1, <2>3
    <3>2. q # None => q.index \in Ports /\ q.generation <= port'[q.index].generation
      BY <2>1, <3>1, HandleTyped DEF SlotSound, PortShrinks
    <3>3. ASSUME q # None, port'[q.index].owner # None, port'[q.index].generation = q.generation
          PROVE  /\ slot[s].owner = port'[q.index].owner
                 /\ slot[s].state = "Pending" => HandleOf(s) \in port'[q.index].reserved
      <4>1. /\ port[q.index].owner # None /\ port[q.index].generation = q.generation
            /\ port'[q.index].owner = port[q.index].owner
        BY Zenon, <3>2, <3>3 DEF PortShrinks
      <4>2. /\ slot[s].owner = port[q.index].owner
            /\ slot[s].state = "Pending" => HandleOf(s) \in port[q.index].reserved
        BY <2>1, <3>1, <3>3, <4>1 DEF SlotSound, PortOpen
      <4>3. HandleOf(s).slot = s
        BY DEF HandleOf
      <4>4. slot[s].state = "Pending" => HandleOf(s) \in port'[q.index].reserved
        BY <2>3, <3>2, <3>3, <4>2, <4>3 DEF PortShrinks
      <4> QED BY Zenon, <4>1, <4>2, <4>4
    <3>4. slot[s].state # "Free" /\ HandleOf(s) \in acked' => q # None
      <4>1. CASE HandleOf(s) \in acked
        BY <2>1, <3>1, <4>1 DEF SlotSound
      <4>2. CASE HandleOf(s) \in acked' \ acked
        <5>1. HandleOf(s).slot = s /\ HandleOf(s).generation = slot[s].generation
          BY DEF HandleOf
        <5> QED BY Zenon, <1>5, <3>1, <4>2, <5>1 DEF Valid
      <4> QED BY Zenon, <4>1, <4>2
    <3>5. slot'[s].generation = slot[s].generation
      BY DEF SlotShrinks
    <3>6. (slot[s].port # None /\ PortOpen(slot[s].port) =>
            /\ slot[s].owner = port[slot[s].port.index].owner
            /\ slot[s].state = "Pending" => HandleOf(s) \in port[slot[s].port.index].reserved)'
      BY <1>3, <2>3, <3>1, <3>3 DEF PortOpen
    <3>7. (slot[s].port # None => slot[s].port.generation <= port[slot[s].port.index].generation)'
      BY <3>1, <3>2
    <3>8. slot'[s].state # "Free" /\ HandleOf(s)' \in acked' => slot'[s].port # None
      BY Zenon, <1>3, <2>3, <3>1, <3>4
    <3> QED BY <1>3, <2>1, <2>3, <3>5, <3>6, <3>7, <3>8 DEF SlotSound
  <2> QED BY <2>2, <2>3 DEF SlotShrinks
<1>7. ASSUME NEW i \in Ports PROVE PortSound(i)'
  <2>1. /\ PortSound(i) /\ port[i].reserved \subseteq Handle /\ port[i].ready \subseteq Event /\ PortShrinks(i)
        /\ port'[i].reserved \subseteq port[i].reserved /\ port'[i].ready \subseteq port[i].ready
    BY Zenon, <1>1, RecordTyped DEF TablesSound, PortShrinks
  <2>2. /\ port'[i].owner = None => port'[i].reserved = {} /\ port'[i].ready = {}
        /\ port'[i].owner # None => port'[i].generation # 0
        /\ port'[i].waiters \subseteq {port'[i].owner} /\ port'[i].consumer \in {None, port'[i].owner}
    BY <2>1 DEF PortSound, PortShrinks
  <2>3. IsFiniteSet(port'[i].reserved) /\ IsFiniteSet(port'[i].ready) /\ Used(i)' <= PORT_CAPACITY
    <3>1. IsFiniteSet(port[i].reserved) /\ IsFiniteSet(port[i].ready) /\ Used(i) <= PORT_CAPACITY
      BY <2>1 DEF PortSound
    <3>2. IsFiniteSet(port'[i].reserved) /\ Cardinality(port'[i].reserved) <= Cardinality(port[i].reserved)
      BY <2>1, <3>1, FS_Subset
    <3>3. IsFiniteSet(port'[i].ready) /\ Cardinality(port'[i].ready) <= Cardinality(port[i].ready)
      BY <2>1, <3>1, FS_Subset
    <3>4. /\ Cardinality(port'[i].reserved) \in Nat /\ Cardinality(port[i].reserved) \in Nat
          /\ Cardinality(port'[i].ready) \in Nat /\ Cardinality(port[i].ready) \in Nat
      BY <3>1, <3>2, <3>3, FS_CardinalityType
    <3>5. Used(i)' <= PORT_CAPACITY
      BY <3>1, <3>2, <3>3, <3>4, AsyncAssumption DEF Used
    <3> QED BY Zenon, <3>2, <3>3, <3>5
  <2>4. ASSUME NEW h \in port'[i].reserved
        PROVE  Valid(h)' /\ slot'[h.slot].state = "Pending" /\ slot'[h.slot].port = PortHandleOf(i)
    <3>1. h \in port[i].reserved /\ h.slot \in OpSlots /\ slot'[h.slot].state = "Pending"
      BY Zenon, <2>1, <2>4, HandleTyped DEF PortShrinks
    <3>2. Valid(h) /\ slot[h.slot].port = PortHandleOf(i)
      BY <2>1, <3>1 DEF PortSound
    <3> QED BY <3>1, <3>2 DEF Valid, SlotShrinks
  <2>5. ASSUME NEW e \in port'[i].ready
        PROVE  /\ e.op.generation <= slot'[e.op.slot].generation
               /\ Valid(e.op)' => slot'[e.op.slot].state = "Complete" /\ slot'[e.op.slot].port = PortHandleOf(i)
    <3>1. /\ e.op.slot \in OpSlots /\ e.op.generation <= slot[e.op.slot].generation
          /\ Valid(e.op) => slot[e.op.slot].state = "Complete" /\ slot[e.op.slot].port = PortHandleOf(i)
      BY Zenon, <1>4, <2>1, <2>5
    <3> QED BY <3>1 DEF Valid, SlotShrinks
  <2>6. \A e, f \in port'[i].ready : e.op = f.op => e = f
    BY <2>1 DEF PortSound
  <2>7. (port'[i].reserved \cup OpsIn(port'[i].ready)) \cap acked' = {}
    <3>1. OpsIn(port'[i].ready) \subseteq OpsIn(port[i].ready)
      BY Zenon, <2>1 DEF OpsIn
    <3>2. (port'[i].reserved \cup OpsIn(port'[i].ready)) \cap acked = {}
      BY <2>1, <3>1 DEF PortSound
    <3>3. (port'[i].reserved \cup OpsIn(port'[i].ready)) \cap (acked' \ acked) = {}
      BY DEF AckedGrows
    <3> QED BY <3>2, <3>3
  <2>8. OpsIn(port[i].ready)' = OpsIn(port'[i].ready)
    BY DEF OpsIn
  <2> QED BY Zenon, <1>2, <2>2, <2>3, <2>4, <2>5, <2>6, <2>7, <2>8 DEF PortSound
<1>8. AckedOld'
  <2>1. ASSUME NEW h \in acked' PROVE h.generation <= slot'[h.slot].generation
    <3>1. h.slot \in OpSlots /\ h.generation <= slot[h.slot].generation
      BY <1>1, <1>5, HandleTyped DEF TablesTyped, TablesSound, AckedOld
    <3> QED BY <3>1 DEF SlotShrinks
  <2> QED BY <2>1 DEF AckedOld
<1>9. PortsApart'
  <2>1. \A i \in Ports : port'[i].ready \subseteq port[i].ready
    BY DEF PortShrinks
  <2> QED BY <2>1 DEF TablesSound, PortsApart
<1> QED BY <1>6, <1>7, <1>8, <1>9 DEF TablesSound

\* completion_port::create takes a closed port, which holds nothing, and moves its generation on.
Opened(k, t) ==
    port' = [port EXCEPT ![k].generation = @ + 1, ![k].owner = t] /\ UNCHANGED <<slot, acked>>

\* completion_port::create keeps the tables sound.
LEMMA Opens ==
    ASSUME TablesSound, NEW t \in Tasks, NEW k \in Creatable, Opened(k, t)
    PROVE  TablesSound' /\ (\A i \in Ports \ {k} : port'[i] = port[i]) /\ port'[k].owner = t
<1>1. /\ TablesTyped /\ k \in Ports /\ port[k].owner = None /\ port[k].generation \in Nat
      /\ port[k].generation < MaxGeneration /\ PortSound(k) /\ port[k] \in PortRecord
  BY RecordTyped DEF TablesSound, Creatable, TablesTyped
<1>2. /\ port'[k].generation = port[k].generation + 1 /\ port'[k].owner = t
      /\ port'[k].reserved = port[k].reserved /\ port'[k].ready = port[k].ready
      /\ port'[k].waiters = port[k].waiters /\ port'[k].consumer = port[k].consumer
      /\ \A i \in Ports \ {k} : port'[i] = port[i]
  BY <1>1 DEF TablesTyped, PortRecord, Opened
<1>3. port[k].reserved = {} /\ port[k].ready = {} /\ port[k].waiters = {} /\ port[k].consumer = None
  <2>1. port[k].waiters \subseteq {None} /\ port[k].waiters \subseteq Tasks
    BY <1>1, RecordTyped DEF PortSound
  <2> QED BY Zenon, <1>1, <2>1, AsyncAssumption DEF PortSound
<1>4. TablesTyped'
  <2>1. port[k].generation + 1 \in 0 .. MaxGeneration
    BY <1>1, AsyncAssumption
  <2>2. port' \in [Ports -> PortRecord]
    BY Zenon, <1>1, <2>1 DEF TablesTyped, PortRecord, Opened
  <2> QED BY <1>1, <2>2 DEF TablesTyped, Opened
<1>5. ASSUME NEW s \in OpSlots PROVE SlotSound(s)'
  <2>1. SlotSound(s) /\ slot[s].port \in PortHandle \cup {None}
    BY <1>1, RecordTyped DEF TablesSound
  <2>2. PICK q \in PortHandle \cup {None} : q = slot[s].port
    BY <2>1
  <2>3. slot' = slot /\ acked' = acked /\ HandleOf(s)' = HandleOf(s)
    BY DEF HandleOf, Opened
  <2>4. ASSUME q # None
        PROVE  /\ q.generation <= port'[q.index].generation
               /\ port'[q.index].owner # None /\ port'[q.index].generation = q.generation =>
                     /\ slot[s].owner = port'[q.index].owner
                     /\ slot[s].state = "Pending" => HandleOf(s) \in port'[q.index].reserved
    <3>1. q.index \in Ports /\ q.generation \in Nat /\ q.generation <= port[q.index].generation
      BY Zenon, <2>1, <2>2, <2>4, HandleTyped DEF SlotSound
    <3>2. CASE q.index = k
      BY SMTT(30), <1>1, <1>2, <3>1, <3>2
    <3>3. CASE q.index # k
      <4>1. port'[q.index] = port[q.index]
        BY <1>2, <3>1, <3>3
      <4> QED BY <2>1, <2>2, <2>4, <3>1, <4>1 DEF SlotSound, PortOpen
    <3> QED BY Zenon, <3>2, <3>3
  <2>5. (slot[s].port # None => slot[s].port.generation <= port[slot[s].port.index].generation)'
    BY Zenon, <2>2, <2>3, <2>4
  <2>6. (slot[s].port # None /\ PortOpen(slot[s].port) =>
          /\ slot[s].owner = port[slot[s].port.index].owner
          /\ slot[s].state = "Pending" => HandleOf(s) \in port[slot[s].port.index].reserved)'
    BY <2>2, <2>3, <2>4 DEF PortOpen
  <2> QED BY Zenon, <2>1, <2>3, <2>5, <2>6 DEF SlotSound
<1>6. ASSUME NEW i \in Ports PROVE PortSound(i)'
  <2>1. CASE i = k
    <3>1. /\ port'[k].reserved = {} /\ port'[k].ready = {} /\ port'[k].waiters = {} /\ port'[k].consumer = None
          /\ port'[k].owner = t /\ t # None /\ port'[k].generation # 0
      BY <1>1, <1>2, <1>3, AsyncAssumption
    <3>2. IsFiniteSet(port'[k].reserved) /\ IsFiniteSet(port'[k].ready) /\ Used(k)' <= PORT_CAPACITY
      <4>1. IsFiniteSet({}) /\ Cardinality({}) = 0
        BY FS_EmptySet
      <4> QED BY <3>1, <4>1, AsyncAssumption DEF Used
    <3>3. OpsIn(port[k].ready)' = {}
      BY ZenonT(30), <3>1 DEF OpsIn
    <3> QED BY <2>1, <3>1, <3>2, <3>3 DEF PortSound
  <2>2. CASE i # k
    <3>1. port'[i] = port[i] /\ slot' = slot /\ acked' = acked /\ PortSound(i)
      BY Zenon, <1>2, <2>2 DEF TablesSound, Opened
    <3> QED BY <3>1 DEF PortSound, Used, OpsIn, Valid, PortHandleOf
  <2> QED BY <2>1, <2>2
<1>7. AckedOld' /\ PortsApart'
  <2>1. \A i \in Ports : port'[i].ready = port[i].ready
    BY <1>2
  <2> QED BY ZenonT(30), <2>1 DEF TablesSound, PortsApart, AckedOld, Opened
<1> QED BY Zenon, <1>2, <1>4, <1>5, <1>6, <1>7 DEF TablesSound


\* associate_current: the operation of h reserves a record of port p, or publishes it at once.
Joined(h, p) ==
    /\ slot' = [slot EXCEPT ![h.slot].port = p]
    /\ port' = IF slot[h.slot].state = "Complete" THEN PublishedAtOnce(p, h) ELSE Reserved(p, h)
    /\ acked' = acked

\* The guard of associate_current: both handles are the caller's, the operation has no port yet, and
\* the port has room for one more record.
Joinable(t, h, p) ==
    Owned(t, h) /\ PortOwned(t, p) /\ slot[h.slot].port = None /\ Used(p.index) < PORT_CAPACITY

\* associate_current keeps the tables sound and changes the one operation and the one port.
LEMMA Joins ==
    ASSUME TablesSound, NEW t \in Tasks, NEW h \in Handle, NEW p \in PortHandle, Joinable(t, h, p), Joined(h, p)
    PROVE  /\ TablesSound'
           /\ \A s \in OpSlots \ {h.slot} : slot'[s] = slot[s]
           /\ slot'[h.slot].state = slot[h.slot].state /\ slot'[h.slot].owner = t
           /\ slot'[h.slot].generation = slot[h.slot].generation
           /\ slot'[h.slot].waiting = slot[h.slot].waiting
           /\ \A i \in Ports : /\ port'[i].generation = port[i].generation /\ port'[i].owner = port[i].owner
                               /\ port'[i] = port[i] \/ i = p.index
<1> DEFINE k == h.slot
           n == p.index
           new == [op |-> h, flag |-> "done"]
<1>1. /\ TablesTyped /\ k \in OpSlots /\ n \in Ports /\ slot[k] \in SlotRecord /\ port[n] \in PortRecord
      /\ new \in Event /\ new.op = h /\ p # None
  BY HandleTyped DEF TablesSound, TablesTyped, Event
<1>2. /\ slot[k].state # "Free" /\ slot[k].owner = t /\ HandleOf(k) = h /\ slot[k].generation = h.generation
      /\ port[n].owner = t /\ t # None /\ port[n].generation = p.generation
  BY <1>1, ValidIs, AsyncAssumption DEF Joinable, Owned, Valid, PortOwned, PortOpen
<1>3. PortHandleOf(n) = p
  <2>1. PortHandleOf(n) = [index |-> p.index, generation |-> p.generation]
    BY <1>2 DEF PortHandleOf
  <2> QED BY Zenon, <2>1 DEF PortHandle
<1> HIDE DEF new
<1>4. /\ \A s \in OpSlots \ {k} : slot'[s] = slot[s]
      /\ slot'[k].state = slot[k].state /\ slot'[k].owner = t /\ slot'[k].port = p
      /\ slot'[k].generation = slot[k].generation /\ slot'[k].completion = slot[k].completion
      /\ slot'[k].waiting = slot[k].waiting
  BY <1>1, <1>2 DEF Joined, TablesTyped, SlotRecord
<1>5. \A i \in Ports \ {n} : port'[i] = port[i]
  BY Zenon, <1>1 DEF Joined, TablesTyped, PublishedAtOnce, Reserved
<1>6. /\ port'[n].generation = port[n].generation /\ port'[n].owner = t /\ port'[n].consumer = port[n].consumer
      /\ slot[k].state = "Complete" =>
            /\ port'[n].reserved = port[n].reserved \ {h} /\ port'[n].ready = port[n].ready \cup {new}
            /\ port'[n].waiters = {}
      /\ slot[k].state # "Complete" =>
            /\ port'[n].reserved = port[n].reserved \cup {h} /\ port'[n].ready = port[n].ready
            /\ port'[n].waiters = port[n].waiters
  <2>1. CASE slot[k].state = "Complete"
    <3>1. port' = [port EXCEPT ![n] = Published(@, h, "done")]
      BY <2>1 DEF Joined, PublishedAtOnce
    <3>2. port'[n] = Published(port[n], h, "done")
      BY <1>1, <3>1 DEF TablesTyped
    <3> QED BY <1>1, <1>2, <2>1, <3>2 DEF Published, PortRecord, new
  <2>2. CASE slot[k].state # "Complete"
    <3>1. port' = [port EXCEPT ![n].reserved = @ \cup {h}]
      BY <2>2 DEF Joined, Reserved
    <3> QED BY <1>1, <1>2, <2>2, <3>1 DEF TablesTyped, PortRecord
  <2> QED BY <2>1, <2>2
<1>7. /\ \A i \in Ports : h \notin port[i].reserved /\ \A e \in port[i].ready : e.op # h
      /\ h \notin acked
  <2>1. ASSUME NEW i \in Ports, port[i].owner # None PROVE PortHandleOf(i) # None
    BY <2>1, OpenPort, HandleTyped
  <2>2. ASSUME NEW i \in Ports, h \in port[i].reserved PROVE FALSE
    <3>1. port[i].owner # None /\ slot[k].port = PortHandleOf(i)
      BY <2>2 DEF TablesSound, PortSound
    <3> QED BY Zenon, <2>1, <3>1 DEF Joinable
  <2>3. ASSUME NEW i \in Ports, NEW e \in port[i].ready, e.op = h PROVE FALSE
    <3>1. port[i].owner # None /\ (Valid(h) => slot[k].port = PortHandleOf(i))
      BY <2>3 DEF TablesSound, PortSound
    <3> QED BY Zenon, <2>1, <3>1 DEF Joinable, Owned
  <2>4. h \notin acked
    <3>1. SlotSound(k)
      BY <1>1 DEF TablesSound
    <3>2. HandleOf(k) \notin acked
      BY Zenon, <1>2, <3>1 DEF SlotSound, Joinable
    <3> QED BY <1>2, <3>2
  <2> QED BY <2>2, <2>3, <2>4
<1>8. \A i \in Ports : /\ port'[i].generation = port[i].generation /\ port'[i].owner = port[i].owner
                       /\ port[i].reserved \subseteq port'[i].reserved
                       /\ PortHandleOf(i)' = PortHandleOf(i)
  <2>1. port[n].reserved \subseteq port'[n].reserved
    BY <1>1, <1>6, <1>7
  <2> QED BY Zenon, <1>2, <1>5, <1>6, <2>1 DEF PortHandleOf
<1>9. TablesTyped'
  <2>1. slot' \in [OpSlots -> SlotRecord]
    BY <1>1 DEF Joined, TablesTyped, SlotRecord
  <2>2. port' \in [Ports -> PortRecord]
    <3>1. CASE slot[k].state = "Complete"
      <4>1. port[n].reserved \ {h} \subseteq Handle /\ port[n].ready \cup {new} \subseteq Event
        BY <1>1 DEF PortRecord
      <4>2. Published(port[n], h, "done") \in PortRecord
        BY Zenon, <1>1, <4>1 DEF Published, PortRecord, new
      <4>3. port' = [port EXCEPT ![n] = Published(@, h, "done")]
        BY <3>1 DEF Joined, PublishedAtOnce
      <4> QED BY <1>1, <4>2, <4>3 DEF TablesTyped
    <3>2. CASE slot[k].state # "Complete"
      <4>1. port' = [port EXCEPT ![n].reserved = @ \cup {h}]
        BY <3>2 DEF Joined, Reserved
      <4>2. port[n].reserved \cup {h} \subseteq Handle
        BY <1>1 DEF PortRecord
      <4> QED BY <1>1, <4>1, <4>2 DEF TablesTyped, PortRecord
    <3> QED BY <3>1, <3>2
  <2> QED BY <1>1, <2>1, <2>2 DEF TablesTyped, Joined
<1>10. ASSUME NEW s \in OpSlots PROVE SlotSound(s)'
  <2>1. SlotSound(s) /\ slot[s].port \in PortHandle \cup {None} /\ HandleOf(s)' = HandleOf(s) /\ acked' = acked
    BY <1>1, <1>4, RecordTyped DEF TablesSound, HandleOf, Joined
  <2>2. CASE s = k
    <3>1. /\ p.generation <= port'[n].generation /\ slot'[k].owner = port'[n].owner
          /\ slot'[k].state = "Pending" => h \in port'[n].reserved
      <4>1. p.generation \in Nat
        BY HandleTyped
      <4>2. port'[n].generation = p.generation /\ slot'[k].owner = port'[n].owner
        BY Zenon, <1>2, <1>4, <1>6
      <4>3. p.generation <= port'[n].generation
        BY <4>1, <4>2
      <4>4. slot'[k].state = "Pending" => h \in port'[n].reserved
        BY Zenon, <1>4, <1>6
      <4> QED BY <4>2, <4>3, <4>4
    <3>2. /\ slot'[k].owner \in Tasks /\ slot'[k].generation # 0
          /\ slot'[k].state = "Complete" => slot'[k].completion = HandleOf(k)
          /\ slot'[k].state # "Complete" => slot'[k].completion = None
      BY ZenonT(30), <1>2, <1>4, <2>1, <2>2 DEF SlotSound
    <3> QED BY Zenon, <1>1, <1>2, <1>4, <2>1, <2>2, <3>1, <3>2 DEF SlotSound
  <2>3. CASE s # k
    <3>1. slot'[s] = slot[s]
      BY <1>4, <2>3
    <3>2. slot[s].port # None =>
             /\ slot[s].port.index \in Ports
             /\ slot[s].port.generation <= port'[slot[s].port.index].generation
             /\ PortOpen(slot[s].port)' <=> PortOpen(slot[s].port)
             /\ port'[slot[s].port.index].owner = port[slot[s].port.index].owner
             /\ HandleOf(s) \in port[slot[s].port.index].reserved => HandleOf(s) \in port'[slot[s].port.index].reserved
      BY Zenon, <1>8, <2>1, <3>1, HandleTyped DEF SlotSound, PortOpen
    <3> QED BY Zenon, <2>1, <3>1, <3>2 DEF SlotSound
  <2> QED BY <2>2, <2>3
<1>11. ASSUME NEW g \in Handle, g # h
       PROVE  /\ Valid(g)' <=> Valid(g)
              /\ Valid(g) => g.slot # k
              /\ g.slot # k => slot'[g.slot] = slot[g.slot]
              /\ slot'[g.slot].generation = slot[g.slot].generation
  <2>1. g.slot \in OpSlots /\ (g.slot = k => g.generation # h.generation)
    BY Zenon, <1>11, HandleTyped
  <2> QED BY <1>2, <1>4, <2>1 DEF Valid
<1>12. ASSUME NEW i \in Ports, NEW g \in port[i].reserved
       PROVE  Valid(g)' /\ slot'[g.slot].state = "Pending" /\ slot'[g.slot].port = PortHandleOf(i)
  <2>1. g \in Handle /\ g # h /\ Valid(g) /\ slot[g.slot].state = "Pending" /\ slot[g.slot].port = PortHandleOf(i)
    <3>1. Valid(g) /\ slot[g.slot].state = "Pending" /\ slot[g.slot].port = PortHandleOf(i)
      BY Zenon DEF TablesSound, PortSound
    <3>2. g \in Handle /\ g # h
      BY <1>1, <1>7, RecordTyped
    <3> QED BY Zenon, <3>1, <3>2
  <2> QED BY Zenon, <1>11, <2>1
<1>13. ASSUME NEW i \in Ports, NEW e \in port[i].ready
       PROVE  /\ e.op.generation <= slot'[e.op.slot].generation
              /\ Valid(e.op)' => slot'[e.op.slot].state = "Complete" /\ slot'[e.op.slot].port = PortHandleOf(i)
  <2>1. e.op \in Handle /\ e.op # h
    BY <1>1, <1>7, RecordTyped, EventTyped
  <2>2. /\ e.op.generation <= slot[e.op.slot].generation
        /\ Valid(e.op) => slot[e.op.slot].state = "Complete" /\ slot[e.op.slot].port = PortHandleOf(i)
    BY Zenon DEF TablesSound, PortSound
  <2> QED BY Zenon, <1>11, <2>1, <2>2
<1>14. Valid(h)' /\ h.generation <= slot'[k].generation /\ slot'[k].port = PortHandleOf(n)
  BY SMTT(30), <1>2, <1>3, <1>4, HandleTyped DEF Valid
<1>15. PortSound(n)'
  <2>1. PortSound(n) /\ PortHandleOf(n)' = PortHandleOf(n) /\ acked' = acked /\ OpsIn(port[n].ready)' = OpsIn(port'[n].ready)
    BY Zenon, <1>1, <1>8 DEF TablesSound, Joined, OpsIn
  <2>2. /\ IsFiniteSet(port[n].reserved) /\ IsFiniteSet(port[n].ready)
        /\ Cardinality(port[n].reserved) \in Nat /\ Cardinality(port[n].ready) \in Nat
    BY Zenon, <2>1, FS_CardinalityType DEF PortSound
  <2>3. Cardinality(port[n].reserved) + Cardinality(port[n].ready) + 1 <= PORT_CAPACITY
    BY <2>2, AsyncAssumption DEF Joinable, Used
  <2>4. CASE slot[k].state = "Complete"
    <3>1. /\ port'[n].reserved = port[n].reserved /\ port'[n].ready = port[n].ready \cup {new}
          /\ port'[n].waiters = {} /\ port'[n].consumer \in {None, t} /\ port'[n].generation # 0
      BY ZenonT(30), <1>1, <1>2, <1>6, <1>7, <2>1, <2>4 DEF PortSound
    <3>2. /\ IsFiniteSet(port[n].ready \cup {new})
          /\ Cardinality(port[n].ready \cup {new}) = Cardinality(port[n].ready) + 1
      <4>1. new \notin port[n].ready
        BY Zenon, <1>1, <1>7
      <4> QED BY <2>2, <4>1, OneMore
    <3>3. Used(n)' <= PORT_CAPACITY
      <4>1. Used(n)' = Cardinality(port[n].reserved) + (Cardinality(port[n].ready) + 1)
        BY Zenon, <3>1, <3>2 DEF Used
      <4> QED BY <2>2, <2>3, <4>1, AsyncAssumption
    <3>4. \A e \in port'[n].ready :
             /\ e.op.generation <= slot'[e.op.slot].generation
             /\ Valid(e.op)' => slot'[e.op.slot].state = "Complete" /\ slot'[e.op.slot].port = PortHandleOf(n)
      <4> SUFFICES ASSUME NEW e \in port'[n].ready
                   PROVE  /\ e.op.generation <= slot'[e.op.slot].generation
                          /\ Valid(e.op)' => slot'[e.op.slot].state = "Complete" /\ slot'[e.op.slot].port = PortHandleOf(n)
        OBVIOUS
      <4>1. e \in port[n].ready \/ e = new
        BY <3>1
      <4> QED BY Zenon, <1>1, <1>4, <1>13, <1>14, <2>4, <4>1
    <3>5. \A e, f \in port'[n].ready : e.op = f.op => e = f
      <4> SUFFICES ASSUME NEW e \in port'[n].ready, NEW f \in port'[n].ready, e.op = f.op PROVE e = f
        OBVIOUS
      <4>1. (e \in port[n].ready \/ e = new) /\ (f \in port[n].ready \/ f = new)
        BY ZenonT(30), <3>1
      <4>2. e \in port[n].ready /\ f \in port[n].ready => e = f
        BY <2>1 DEF PortSound
      <4> QED BY Zenon, <1>1, <1>7, <4>1, <4>2
    <3>6. (port'[n].reserved \cup OpsIn(port'[n].ready)) \cap acked = {}
      <4>1. \A o : o \in OpsIn(port'[n].ready) => o \in OpsIn(port[n].ready) \/ o = h
        BY <1>1, <3>1 DEF OpsIn
      <4> QED BY ZenonT(30), <1>7, <2>1, <3>1, <4>1 DEF PortSound
    <3>7. IsFiniteSet(port'[n].reserved) /\ IsFiniteSet(port'[n].ready)
      BY Zenon, <2>2, <3>1, <3>2
    <3>8. \A g \in port'[n].reserved :
             Valid(g)' /\ slot'[g.slot].state = "Pending" /\ slot'[g.slot].port = PortHandleOf(n)
      BY Zenon, <1>1, <1>12, <3>1
    <3> QED BY Zenon, <1>2, <1>6, <2>1, <3>1, <3>3, <3>4, <3>5, <3>6, <3>7, <3>8 DEF PortSound
  <2>5. CASE slot[k].state # "Complete"
    <3>1. /\ port'[n].reserved = port[n].reserved \cup {h} /\ port'[n].ready = port[n].ready
          /\ port'[n].waiters \subseteq {t} /\ port'[n].consumer \in {None, t} /\ port'[n].generation # 0
      BY Zenon, <1>1, <1>2, <1>6, <2>1, <2>5 DEF PortSound
    <3>2. /\ IsFiniteSet(port[n].reserved \cup {h})
          /\ Cardinality(port[n].reserved \cup {h}) = Cardinality(port[n].reserved) + 1
      BY Zenon, <1>1, <1>7, <2>2, OneMore
    <3>3. Used(n)' <= PORT_CAPACITY
      <4>1. Used(n)' = (Cardinality(port[n].reserved) + 1) + Cardinality(port[n].ready)
        BY Zenon, <3>1, <3>2 DEF Used
      <4> QED BY SMTT(30), <2>2, <2>3, <4>1, AsyncAssumption
    <3>4. slot'[k].state = "Pending"
      BY Zenon, <1>1, <1>2, <1>4, <2>5 DEF SlotRecord
    <3>5. \A g \in port'[n].reserved :
             Valid(g)' /\ slot'[g.slot].state = "Pending" /\ slot'[g.slot].port = PortHandleOf(n)
      BY <1>1, <1>12, <1>14, <3>1, <3>4
    <3>6. (port'[n].reserved \cup OpsIn(port'[n].ready)) \cap acked = {}
      BY Zenon, <1>7, <2>1, <3>1 DEF PortSound
    <3>7. IsFiniteSet(port'[n].reserved) /\ IsFiniteSet(port'[n].ready)
      BY Zenon, <2>2, <3>1, <3>2
    <3>8. \A e \in port'[n].ready :
             /\ e.op.generation <= slot'[e.op.slot].generation
             /\ Valid(e.op)' => slot'[e.op.slot].state = "Complete" /\ slot'[e.op.slot].port = PortHandleOf(n)
      BY <1>1, <1>13, <3>1
    <3>9. \A e, f \in port'[n].ready : e.op = f.op => e = f
      BY Zenon, <2>1, <3>1 DEF PortSound
    <3> QED BY Zenon, <1>2, <1>6, <2>1, <3>1, <3>3, <3>5, <3>6, <3>7, <3>8, <3>9 DEF PortSound
  <2> QED BY <2>4, <2>5
<1>16. ASSUME NEW i \in Ports, i # n PROVE PortSound(i)'
  <2>1. port'[i] = port[i] /\ acked' = acked /\ PortSound(i) /\ PortHandleOf(i)' = PortHandleOf(i)
    BY <1>5, <1>8, <1>16 DEF TablesSound, Joined
  <2> QED BY Zenon, <1>12, <1>13, <2>1 DEF PortSound, Used, OpsIn
<1>17. AckedOld'
  <2>1. ASSUME NEW g \in acked PROVE g.generation <= slot'[g.slot].generation
    <3>1. g.slot \in OpSlots /\ g.generation <= slot[g.slot].generation
      BY Zenon, <1>1, HandleTyped DEF TablesTyped, TablesSound, AckedOld
    <3> QED BY <1>4, <3>1
  <2> QED BY <2>1 DEF AckedOld, Joined
<1>18. PortsApart'
  <2>1. ASSUME NEW i \in Ports, NEW j \in Ports, NEW e \in port'[i].ready, NEW f \in port'[j].ready, e.op = f.op
        PROVE  i = j
    <3>1. e \in port[i].ready \/ (i = n /\ e = new)
      BY Zenon, <1>5, <1>6
    <3>2. f \in port[j].ready \/ (j = n /\ f = new)
      BY <1>5, <1>6
    <3>3. CASE e \in port[i].ready /\ f \in port[j].ready
      BY <2>1, <3>3 DEF TablesSound, PortsApart
    <3> QED BY Zenon, <1>1, <1>7, <2>1, <3>1, <3>2, <3>3
  <2> QED BY <2>1 DEF PortsApart
<1>19. TablesSound'
  BY Zenon, <1>9, <1>10, <1>15, <1>16, <1>17, <1>18 DEF TablesSound
<1> QED BY <1>4, <1>5, <1>8, <1>19

----------------------------------------------------------------------------
\* The lifecycle step of each effect on the operation table.

\* A step of the abstract lifecycle, or none.
LifeStep == Life!Next \/ UNCHANGED Life!lifeVars

\* The owner that the lifecycle sees.
HolderOf(h) == IF Valid(h) THEN slot[h.slot].owner ELSE None

\* Steps that change no generation, state or owner are no steps of the lifecycle.
LEMMA LifeSame ==
    ASSUME \A s \in OpSlots : /\ slot'[s].generation = slot[s].generation /\ slot'[s].state = slot[s].state
                              /\ slot'[s].owner = slot[s].owner
    PROVE  UNCHANGED Life!lifeVars
<1>1. ASSUME NEW h \in Handle PROVE Phase(h)' = Phase(h) /\ HolderOf(h)' = HolderOf(h)
  BY HandleTyped DEF Phase, Valid, HolderOf
<1> QED BY <1>1 DEF Life!lifeVars, HolderOf

\* Table::allocate: one operation is born.
LEMMA LifeBorn ==
    ASSUME TablesTyped, NEW t \in Tasks, NEW k \in Allocatable,
           \A s \in OpSlots \ {k} : slot'[s] = slot[s],
           slot'[k].generation = slot[k].generation + 1, slot'[k].state = "Pending", slot'[k].owner = t
    PROVE  Life!Next
<1>1. /\ k \in OpSlots /\ slot[k].state = "Free" /\ slot[k].generation \in Nat
      /\ slot[k].generation \in 0 .. MaxGeneration /\ slot[k].generation # MaxGeneration
  BY Zenon, RecordTyped DEF Allocatable
<1>2. PICK new \in Handle : new.slot = k /\ new.generation = slot[k].generation + 1
  <2>1. [slot |-> k, generation |-> slot[k].generation + 1] \in Handle
    BY <1>1, AsyncAssumption DEF Handle, Generations
  <2> QED BY <2>1
<1>3. Phase(new) = "unborn" /\ Phase(new)' = "pending" /\ HolderOf(new)' = t
  <2>1. slot[k].generation < new.generation /\ ~(new.generation < new.generation) /\ ~(new.generation > new.generation)
    BY <1>1, <1>2
  <2> QED BY <1>2, <2>1 DEF Phase, HolderOf, Valid
<1>4. ASSUME NEW h \in Handle, h # new PROVE Phase(h)' = Phase(h) /\ HolderOf(h)' = HolderOf(h)
  <2>1. h.slot \in OpSlots /\ h.generation \in Nat
    BY HandleTyped
  <2>2. CASE h.slot = k
    <3>1. h.generation # slot[k].generation + 1
      BY Zenon, <1>2, <1>4, <2>2, HandleTyped
    <3>2. /\ slot'[k].generation < h.generation <=> slot[k].generation < h.generation
          /\ ~(slot'[k].generation < h.generation) => slot'[k].generation > h.generation
      BY <1>1, <2>1, <3>1
    <3>3. ~Valid(h) /\ ~Valid(h)'
      BY <1>1, <2>2, <3>1 DEF Valid
    <3> QED BY Zenon, <1>1, <2>2, <3>2, <3>3 DEF Phase, HolderOf
  <2>3. CASE h.slot # k
    <3>1. slot'[h.slot] = slot[h.slot]
      BY Zenon, <2>1, <2>3
    <3> QED BY <3>1 DEF Phase, HolderOf, Valid
  <2> QED BY <2>2, <2>3
<1>5. Life!Born(new, t)
  <2>1. [h \in Handle |-> Phase(h)'] = [[h \in Handle |-> Phase(h)] EXCEPT ![new] = "pending"]
    BY Zenon, <1>2, <1>3, <1>4
  <2>2. [h \in Handle |-> HolderOf(h)'] = [[h \in Handle |-> HolderOf(h)] EXCEPT ![new] = t]
    BY Zenon, <1>2, <1>3, <1>4
  <2> QED BY <1>2, <1>3, <2>1, <2>2 DEF Life!Born, HolderOf
<1> QED BY <1>2, <1>5 DEF Life!Next

\* Table::complete: one operation completes.
LEMMA LifeCompleted ==
    ASSUME NEW h \in Handle, Valid(h), slot[h.slot].state = "Pending",
           \A s \in OpSlots \ {h.slot} : slot'[s] = slot[s],
           slot'[h.slot].generation = slot[h.slot].generation, slot'[h.slot].state = "Complete",
           slot'[h.slot].owner = slot[h.slot].owner
    PROVE  Life!Next
<1>1. h.slot \in OpSlots /\ h.generation \in Nat /\ slot[h.slot].generation = h.generation
  BY HandleTyped DEF Valid
<1>2. ~(h.generation < h.generation) /\ ~(h.generation > h.generation)
  BY <1>1
<1>3. Phase(h) = "pending" /\ Phase(h)' = "complete" /\ HolderOf(h)' = HolderOf(h)
  BY <1>1, <1>2 DEF Phase, HolderOf, Valid
<1>4. ASSUME NEW g \in Handle, g # h PROVE Phase(g)' = Phase(g) /\ HolderOf(g)' = HolderOf(g)
  <2>1. g.slot \in OpSlots /\ g.generation \in Nat
    BY HandleTyped
  <2>2. CASE g.slot = h.slot
    <3>1. g.generation # h.generation
      BY <1>4, <2>2, HandleTyped
    <3>2. ~(h.generation < g.generation) => h.generation > g.generation
      BY <1>1, <2>1, <3>1
    <3> QED BY <1>1, <2>2, <3>1, <3>2 DEF Phase, HolderOf, Valid
  <2>3. CASE g.slot # h.slot
    <3>1. slot'[g.slot] = slot[g.slot]
      BY Zenon, <2>1, <2>3
    <3> QED BY <3>1 DEF Phase, HolderOf, Valid
  <2> QED BY <2>2, <2>3
<1>5. Life!Completed(h)
  <2>1. [g \in Handle |-> Phase(g)'] = [[g \in Handle |-> Phase(g)] EXCEPT ![h] = "complete"]
    BY Zenon, <1>3, <1>4
  <2>2. [g \in Handle |-> HolderOf(g)'] = [g \in Handle |-> HolderOf(g)]
    BY Zenon, <1>3, <1>4
  <2> QED BY <1>3, <2>1, <2>2 DEF Life!Completed, HolderOf
<1> QED BY Zenon, <1>5 DEF Life!Next

\* gone: the handles of one owner whose slots are freed.
LEMMA LifeReleased ==
    ASSUME TablesTyped, NEW gone \in SUBSET Handle, NEW t, \A h \in gone : Owned(t, h),
           \A s \in OpSlots : slot'[s].generation = slot[s].generation,
           \A s \in OpSlots : IF HandleOf(s) \in gone THEN slot'[s].state = "Free" ELSE slot'[s] = slot[s]
    PROVE  LifeStep
<1>1. ASSUME NEW h \in gone
      PROVE  Phase(h) \in {"pending", "complete"} /\ HolderOf(h) = t /\ Phase(h)' = "gone" /\ HolderOf(h)' = None
  <2>1. /\ h.slot \in OpSlots /\ h.generation \in Nat /\ slot[h.slot].generation = h.generation
        /\ slot[h.slot].state # "Free" /\ slot[h.slot].owner = t /\ HandleOf(h.slot) = h
    BY Zenon, HandleTyped, ValidIs DEF Valid, Owned
  <2>2. ~(h.generation < h.generation) /\ ~(h.generation > h.generation)
    BY <2>1
  <2>3. slot'[h.slot].generation = h.generation /\ slot'[h.slot].state = "Free"
    BY <2>1
  <2> QED BY <2>1, <2>2, <2>3 DEF Phase, HolderOf, Valid
<1>2. ASSUME NEW h \in Handle, h \notin gone PROVE Phase(h)' = Phase(h) /\ HolderOf(h)' = HolderOf(h)
  <2>1. h.slot \in OpSlots /\ h.generation \in Nat /\ slot[h.slot].generation \in Nat
    BY Zenon, HandleTyped, RecordTyped
  <2>2. CASE HandleOf(h.slot) \in gone
    <3>1. slot[h.slot].generation # h.generation
      <4>1. slot[h.slot].generation = h.generation => HandleOf(h.slot) = h
        BY DEF HandleOf, Handle
      <4> QED BY <1>2, <2>2, <4>1
    <3>2. ~(slot[h.slot].generation < h.generation) => slot[h.slot].generation > h.generation
      BY <2>1, <3>1
    <3>3. slot'[h.slot].generation = slot[h.slot].generation
      BY <2>1
    <3> QED BY <3>1, <3>2, <3>3 DEF Phase, HolderOf, Valid
  <2>3. CASE HandleOf(h.slot) \notin gone
    <3>1. slot'[h.slot] = slot[h.slot]
      BY Zenon, <2>1, <2>3
    <3> QED BY <3>1 DEF Phase, HolderOf, Valid
  <2> QED BY Zenon, <2>2, <2>3
<1>3. CASE gone = {}
  BY <1>2, <1>3 DEF LifeStep, Life!lifeVars, HolderOf
<1>4. CASE gone # {}
  <2>1. [h \in Handle |-> Phase(h)'] = [h \in Handle |-> IF h \in gone THEN "gone" ELSE [g \in Handle |-> Phase(g)][h]]
    BY <1>1, <1>2
  <2>2. [h \in Handle |-> HolderOf(h)'] = [h \in Handle |-> IF h \in gone THEN None ELSE [g \in Handle |-> HolderOf(g)][h]]
    BY Zenon, <1>1, <1>2
  <2>3. Life!Released(gone)
    BY <1>1, <1>4, <2>1, <2>2 DEF Life!Released, HolderOf
  <2> QED BY <2>3 DEF Life!Next, LifeStep
<1> QED BY Zenon, <1>3, <1>4

----------------------------------------------------------------------------
\* What each operation does to the tables, to the lifecycle and to the other tasks.

\* Signals that actors have still to send.
SignalsTyped == todo \in [Actors -> SUBSET Signal]

\* A step that leaves the tables and the signals alone spares every task.
LEMMA Unaffected ==
    ASSUME TablesSound, UNCHANGED <<slot, port, acked, todo>>
    PROVE  TablesSound' /\ LifeStep /\ \A u \in Tasks : Spared(u)
<1>1. TablesSound'
  BY Rests
<1>2. LifeStep
  BY Zenon, LifeSame DEF LifeStep
<1>3. \A u \in Tasks : Spared(u)
  BY HandleTyped DEF Spared, PortOwned, PortOpen, Owned, Valid, SignalDue
<1> QED BY <1>1, <1>2, <1>3

\* Signals left by other actors stay due.
LEMMA SignalsStay ==
    ASSUME SignalsTyped, NEW actor \in Actors, todo[actor] = {}, NEW signals,
           todo' = [todo EXCEPT ![actor] = signals], NEW u
    PROVE  /\ \A kind \in {"op", "port"} : SignalDue(kind, u) => SignalDue(kind, u)'
           /\ \A kind \in {"op", "port"} : <<kind, u>> \in signals => SignalDue(kind, u)'
<1>1. todo'[actor] = signals /\ \A a \in Actors \ {actor} : todo'[a] = todo[a]
  BY DEF SignalsTyped
<1>2. ASSUME NEW kind \in {"op", "port"}, SignalDue(kind, u) PROVE SignalDue(kind, u)'
  <2>1. PICK a \in Actors : <<kind, u>> \in todo[a]
    BY <1>2 DEF SignalDue
  <2>2. a # actor
    BY Zenon, <2>1
  <2> QED BY <1>1, <2>1, <2>2 DEF SignalDue
<1> QED BY <1>1, <1>2 DEF SignalDue

\* publish, called with the port of a pending operation.
PublishStep(h, flag) ==
    port' = Publish(IF slot[h.slot].state = "Pending" THEN slot[h.slot].port ELSE None, h, flag)

\* publish moves the operation's record from reserved to ready on the one port that holds it.
LEMMA Publishes ==
    ASSUME TablesSound, NEW h \in Handle, Valid(h), NEW flag \in {"done", "cancelled"}, PublishStep(h, flag)
    PROVE  /\ port' \in [Ports -> PortRecord]
           /\ \A i \in Ports : PortLeft(i, h, [op |-> h, flag |-> flag])
           /\ \A i \in Ports : h \in port[i].reserved =>
                slot[h.slot].state = "Pending" /\ Accepts(slot[h.slot].port, h) /\ slot[h.slot].port.index = i
<1> DEFINE k == h.slot
           p == IF slot[k].state = "Pending" THEN slot[k].port ELSE None
           new == [op |-> h, flag |-> flag]
<1>1. /\ k \in OpSlots /\ TablesTyped /\ p \in PortHandle \cup {None} /\ new \in Event
  BY Zenon, HandleTyped, RecordTyped DEF TablesSound, Event
<1>2. ASSUME NEW i \in Ports, h \in port[i].reserved
      PROVE  slot[k].state = "Pending" /\ slot[k].port = p /\ Accepts(p, h) /\ p.index = i
  <2>1. slot[k].state = "Pending" /\ slot[k].port = PortHandleOf(i) /\ port[i].owner # None
    BY Zenon, <1>2 DEF TablesSound, PortSound
  <2>2. p = PortHandleOf(i) /\ PortHandleOf(i) # None
    BY <2>1, OpenPort, HandleTyped
  <2>3. p.index = i /\ p.generation = port[i].generation
    BY <2>2 DEF PortHandleOf
  <2> QED BY Zenon, <1>2, <2>1, <2>2, <2>3 DEF Accepts, PortOpen
<1>3. ASSUME Accepts(p, h)
      PROVE  /\ p \in PortHandle /\ p.index \in Ports /\ h \in port[p.index].reserved
             /\ port' = [port EXCEPT ![p.index] = Published(@, h, flag)]
  BY Zenon, <1>1, <1>3, HandleTyped DEF Publish, Accepts, PublishStep
<1>4. ~Accepts(p, h) => port' = port
  BY DEF Publish, PublishStep
<1> HIDE DEF p, new
<1>5. ASSUME NEW i \in Ports PROVE PortLeft(i, h, new)
  <2>1. CASE h \in port[i].reserved
    <3>1. Accepts(p, h) /\ p.index = i
      BY Zenon, <1>2, <2>1
    <3>2. port' = [port EXCEPT ![i] = Published(@, h, flag)]
      BY <1>3, <3>1
    <3>3. port[i] \in PortRecord /\ port'[i] = Published(port[i], h, flag)
      BY <1>1, <3>2 DEF TablesTyped
    <3> QED BY <2>1, <3>3 DEF Published, PortRecord, new, PortLeft
  <2>2. CASE h \notin port[i].reserved
    <3>1. port'[i] = port[i]
      BY <1>1, <1>3, <1>4, <2>2 DEF TablesTyped
    <3> QED BY <2>2, <3>1 DEF PortLeft
  <2> QED BY <2>1, <2>2
<1>6. port' \in [Ports -> PortRecord]
  <2>1. CASE Accepts(p, h)
    <3>1. port[p.index] \in PortRecord
      BY <1>1, <1>3, <2>1 DEF TablesTyped
    <3>2. Published(port[p.index], h, flag) \in PortRecord
      <4>1. port[p.index].reserved \ {h} \subseteq Handle /\ port[p.index].ready \cup {new} \subseteq Event
        BY <1>1, <3>1 DEF PortRecord
      <4> QED BY Zenon, <3>1, <4>1 DEF Published, PortRecord, new
    <3> QED BY Zenon, <1>1, <1>3, <2>1, <3>2 DEF TablesTyped
  <2>2. CASE ~Accepts(p, h)
    BY Zenon, <1>1, <1>4, <2>2 DEF TablesTyped
  <2> QED BY <2>1, <2>2
<1>7. \A i \in Ports : h \in port[i].reserved =>
        slot[h.slot].state = "Pending" /\ Accepts(slot[h.slot].port, h) /\ slot[h.slot].port.index = i
  BY <1>2
<1> QED BY Zenon, <1>5, <1>6, <1>7 DEF new

\* complete: the owner and the port's waiters that were registered are to be signalled.
LEMMA Completes ==
    ASSUME TablesSound, SignalsTyped, NEW actor \in Actors, todo[actor] = {}, NEW h \in Handle,
           Complete(actor, h), acked' = acked
    PROVE  TablesSound' /\ SignalsTyped' /\ LifeStep /\ \A u \in Tasks : Spared(u)
<1> DEFINE k == h.slot
           signals == OpWaiter(h) \cup PortWaiters(slot[k].port, h)
<1>1. CASE ~(Valid(h) /\ slot[k].state = "Pending")
  <2>1. UNCHANGED <<slot, port, acked, todo>>
    BY <1>1 DEF Complete
  <2>2. SignalsTyped'
    BY <2>1 DEF SignalsTyped
  <2> QED BY <2>1, <2>2, Unaffected
<1>2. CASE Valid(h) /\ slot[k].state = "Pending"
  <2>1. /\ slot' = [slot EXCEPT ![k].state = "Complete", ![k].completion = h]
        /\ port' = Publish(slot[k].port, h, "done")
        /\ todo' = [todo EXCEPT ![actor] = signals]
    BY <1>2 DEF Complete
  <2>2. /\ TablesTyped /\ k \in OpSlots /\ slot[k] \in SlotRecord /\ slot[k].owner \in Tasks
        /\ slot[k].port \in PortHandle \cup {None}
    BY Zenon, <1>2, HandleTyped, RecordTyped DEF TablesSound, TablesTyped, SlotSound
  <2>3. slot' \in [OpSlots -> SlotRecord]
    BY <2>1, <2>2 DEF TablesTyped, SlotRecord
  <2>4. /\ \A s \in OpSlots \ {k} : slot'[s] = slot[s]
        /\ slot'[k].generation = slot[k].generation /\ slot'[k].state = "Complete"
        /\ slot'[k].completion = h /\ slot'[k].port = slot[k].port /\ slot'[k].owner = slot[k].owner
    BY <2>1, <2>2 DEF TablesTyped, SlotRecord
  <2>5. PublishStep(h, "done")
    BY <1>2, <2>1 DEF PublishStep
  <2>6. /\ port' \in [Ports -> PortRecord]
        /\ \A i \in Ports : PortLeft(i, h, [op |-> h, flag |-> "done"])
        /\ \A i \in Ports : h \in port[i].reserved => Accepts(slot[k].port, h) /\ slot[k].port.index = i
    BY Zenon, <1>2, <2>5, Publishes
  <2>7. TablesSound'
    <3>1. TablesTyped' /\ SlotLeft(h)
      BY <1>2, <2>2, <2>3, <2>4, <2>6 DEF TablesTyped, SlotLeft
    <3>2. [op |-> h, flag |-> "done"] \in Event /\ [op |-> h, flag |-> "done"].op = h
      BY DEF Event
    <3> QED BY ZenonT(30), <1>2, <2>6, <3>1, <3>2, Leaves
  <2>8. SignalsTyped'
    <3>1. OpWaiter(h) \subseteq Signal
      BY <2>2 DEF OpWaiter, Signal
    <3>2. PortWaiters(slot[k].port, h) \subseteq Signal
      <4>1. CASE Accepts(slot[k].port, h)
        <5>1. port[slot[k].port.index].waiters \subseteq Tasks
          BY Zenon, <2>2, <4>1, RecordTyped, HandleTyped DEF Accepts
        <5> QED BY Zenon, <4>1, <5>1 DEF PortWaiters, Signal
      <4>2. CASE ~Accepts(slot[k].port, h)
        BY <4>2 DEF PortWaiters
      <4> QED BY <4>1, <4>2
    <3>3. signals \in SUBSET Signal
      BY Zenon, <3>1, <3>2
    <3> HIDE DEF signals
    <3> QED BY <2>1, <3>3 DEF SignalsTyped
  <2>9. LifeStep
    BY <1>2, <2>4, LifeCompleted DEF LifeStep
  <2>10. ASSUME NEW u \in Tasks PROVE Spared(u)
    <3>1. /\ \A kind \in {"op", "port"} : SignalDue(kind, u) => SignalDue(kind, u)'
          /\ \A kind \in {"op", "port"} : <<kind, u>> \in signals => SignalDue(kind, u)'
      <4> HIDE DEF signals
      <4> QED BY Zenon, <2>1, SignalsStay
    <3>2. \A s \in OpSlots : slot'[s].state # "Free" /\ slot'[s].owner = u => slot[s].state # "Free" /\ slot[s].owner = u
      BY Zenon, <1>2, <2>2, <2>4
    <3>3. \A i \in Ports : port'[i].owner = u => port[i].owner = u
      BY Zenon, <2>6 DEF PortLeft
    <3>4. ASSUME NEW i \in Ports, u \in port[i].waiters, port[i].ready = {}
          PROVE  (port'[i].ready = {} /\ u \in port'[i].waiters) \/ SignalDue("port", u)'
      <4>1. CASE h \in port[i].reserved
        <5>1. <<"port", u>> \in PortWaiters(slot[k].port, h)
          BY Zenon, <2>6, <3>4, <4>1 DEF PortWaiters
        <5> QED BY Zenon, <3>1, <5>1
      <4>2. CASE h \notin port[i].reserved
        BY Zenon, <2>6, <3>4, <4>2 DEF PortLeft
      <4> QED BY <4>1, <4>2
    <3>5. ASSUME NEW p \in PortHandle, PortOwned(u, p)
          PROVE  /\ PortOwned(u, p)' /\ port'[p.index].consumer = port[p.index].consumer
                 /\ port[p.index].ready \subseteq port'[p.index].ready
      <4>1. p.index \in Ports
        BY Zenon, HandleTyped
      <4> QED BY <2>6, <3>5, <4>1 DEF PortLeft, PortOwned, PortOpen
    <3>6. ASSUME NEW g \in Handle, Owned(u, g)
          PROVE  /\ Owned(u, g)'
                 /\ slot[g.slot].state = "Pending" /\ slot[g.slot].waiting =>
                      (slot'[g.slot].state = "Pending" /\ slot'[g.slot].waiting) \/ SignalDue("op", u)'
      <4>1. g.slot \in OpSlots
        BY Zenon, HandleTyped
      <4>2. CASE g.slot = k
        <5>1. slot[k].waiting => <<"op", u>> \in OpWaiter(h)
          BY Zenon, <3>6, <4>2 DEF OpWaiter, Owned
        <5> QED BY Zenon, <2>4, <3>1, <3>6, <4>2, <5>1 DEF Owned, Valid
      <4>3. CASE g.slot # k
        BY Zenon, <2>4, <3>6, <4>1, <4>3 DEF Owned, Valid
      <4> QED BY <4>2, <4>3
    <3> QED BY Zenon, <3>1, <3>2, <3>3, <3>4, <3>5, <3>6, HandleTyped DEF Spared
  <2> QED BY <2>7, <2>8, <2>9, <2>10
<1> QED BY <1>1, <1>2

\* release_current and cancel_current.
LEMMA Releases ==
    ASSUME TablesSound, SignalsTyped, NEW t \in Tasks, todo[t] = {}, NEW h \in Handle,
           ReleaseCurrent(t, h), acked' = acked
    PROVE  TablesSound' /\ SignalsTyped' /\ LifeStep /\ \A u \in Tasks \ {t} : Spared(u)
<1> DEFINE k == h.slot
           p == IF slot[k].state = "Pending" THEN slot[k].port ELSE None
           signals == PortWaiters(p, h)
<1>1. CASE ~Owned(t, h)
  <2>1. UNCHANGED <<slot, port, acked, todo>>
    BY <1>1 DEF ReleaseCurrent
  <2>2. SignalsTyped'
    BY <2>1 DEF SignalsTyped
  <2> QED BY <2>1, <2>2, Unaffected
<1>2. CASE Owned(t, h)
  <2>1. /\ slot' = [slot EXCEPT ![k] = Release(@)]
        /\ PublishStep(h, "cancelled")
        /\ todo' = [todo EXCEPT ![t] = signals]
    BY <1>2 DEF ReleaseCurrent, PublishStep
  <2>2. /\ TablesTyped /\ k \in OpSlots /\ slot[k] \in SlotRecord /\ slot[k].owner = t /\ Valid(h)
        /\ slot[k].port \in PortHandle \cup {None} /\ t \in Actors
    BY Zenon, <1>2, HandleTyped, RecordTyped DEF TablesSound, TablesTyped, Owned, Actors
  <2>3. slot' \in [OpSlots -> SlotRecord]
    <3>1. Release(slot[k]) \in SlotRecord
      BY Zenon, <2>2 DEF Release, SlotRecord
    <3> QED BY Zenon, <2>1, <2>2, <3>1 DEF TablesTyped
  <2>4. /\ \A s \in OpSlots \ {k} : slot'[s] = slot[s]
        /\ slot'[k].generation = slot[k].generation /\ slot'[k].state = "Free"
        /\ slot'[k].completion = None /\ slot'[k].port = None
    BY <2>1, <2>2 DEF TablesTyped, SlotRecord, Release
  <2>5. /\ port' \in [Ports -> PortRecord]
        /\ \A i \in Ports : PortLeft(i, h, [op |-> h, flag |-> "cancelled"])
        /\ \A i \in Ports : h \in port[i].reserved => Accepts(p, h) /\ p.index = i
    BY Zenon, <2>1, <2>2, Publishes
  <2>6. TablesSound'
    <3>1. TablesTyped' /\ SlotLeft(h)
      BY Zenon, <2>2, <2>3, <2>4, <2>5 DEF TablesTyped, SlotLeft
    <3>2. [op |-> h, flag |-> "cancelled"] \in Event /\ [op |-> h, flag |-> "cancelled"].op = h
      BY DEF Event
    <3> QED BY Zenon, <2>2, <2>5, <3>1, <3>2, Leaves
  <2>7. SignalsTyped'
    <3>1. signals \subseteq Signal
      <4>1. CASE Accepts(p, h)
        <5>1. p \in PortHandle /\ port[p.index].waiters \subseteq Tasks
          BY Zenon, <2>2, <4>1, RecordTyped, HandleTyped DEF Accepts
        <5> QED BY <4>1, <5>1 DEF PortWaiters, Signal
      <4>2. CASE ~Accepts(p, h)
        BY Zenon, <4>2 DEF PortWaiters
      <4> QED BY ZenonT(30), <4>1, <4>2
    <3> HIDE DEF signals
    <3> QED BY Zenon, <2>1, <3>1 DEF SignalsTyped
  <2>8. LifeStep
    <3>1. \A s \in OpSlots : IF HandleOf(s) \in {h} THEN slot'[s].state = "Free" ELSE slot'[s] = slot[s]
      <4>1. \A s \in OpSlots : HandleOf(s) = h <=> s = k
        BY <2>2, ValidIs DEF HandleOf
      <4> QED BY <2>4, <4>1
    <3>2. \A s \in OpSlots : slot'[s].generation = slot[s].generation
      BY <2>4
    <3>3. \A g \in {h} : Owned(t, g)
      BY <1>2
    <3>4. {h} \in SUBSET Handle
      OBVIOUS
    <3> QED BY Zenon, <2>2, <3>1, <3>2, <3>3, <3>4, LifeReleased
  <2>9. ASSUME NEW u \in Tasks \ {t} PROVE Spared(u)
    <3>1. /\ \A kind \in {"op", "port"} : SignalDue(kind, u) => SignalDue(kind, u)'
          /\ \A kind \in {"op", "port"} : <<kind, u>> \in signals => SignalDue(kind, u)'
      <4> HIDE DEF signals
      <4> QED BY Zenon, <2>1, <2>2, SignalsStay
    <3>2. \A s \in OpSlots : slot'[s].state # "Free" /\ slot'[s].owner = u => slot[s].state # "Free" /\ slot[s].owner = u
      BY Zenon, <2>2, <2>4
    <3>3. \A i \in Ports : port'[i].owner = u => port[i].owner = u
      BY Zenon, <2>5 DEF PortLeft
    <3>4. ASSUME NEW i \in Ports, u \in port[i].waiters, port[i].ready = {}
          PROVE  (port'[i].ready = {} /\ u \in port'[i].waiters) \/ SignalDue("port", u)'
      <4>1. CASE h \in port[i].reserved
        <5>1. <<"port", u>> \in PortWaiters(p, h)
          BY Zenon, <2>5, <3>4, <4>1 DEF PortWaiters
        <5> QED BY <3>1, <5>1
      <4>2. CASE h \notin port[i].reserved
        BY ZenonT(30), <2>5, <3>4, <4>2 DEF PortLeft
      <4> QED BY Zenon, <4>1, <4>2
    <3>5. ASSUME NEW q \in PortHandle, PortOwned(u, q)
          PROVE  /\ PortOwned(u, q)' /\ port'[q.index].consumer = port[q.index].consumer
                 /\ port[q.index].ready \subseteq port'[q.index].ready
      <4>1. q.index \in Ports
        BY HandleTyped
      <4> QED BY <2>5, <3>5, <4>1 DEF PortLeft, PortOwned, PortOpen
    <3>6. ASSUME NEW g \in Handle, Owned(u, g)
          PROVE  Owned(u, g)' /\ slot'[g.slot] = slot[g.slot]
      <4>1. g.slot \in OpSlots /\ g.slot # k
        BY <2>2, <3>6, HandleTyped DEF Owned
      <4> QED BY Zenon, <2>4, <3>6, <4>1 DEF Owned, Valid
    <3> QED BY Zenon, <3>1, <3>2, <3>3, <3>4, <3>5, <3>6, HandleTyped DEF Spared
  <2> QED BY <2>6, <2>7, <2>8, <2>9
<1> QED BY <1>1, <1>2

==============================================================================

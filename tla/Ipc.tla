-------------------------------- MODULE Ipc --------------------------------
(***************************************************************************)
(* Inter-process communication (kernel/src/ipc.rs): process-local handles   *)
(* to endpoints and shared memory, messages that carry a capability in      *)
(* escrow, named services, delegation lineages and blocking calls.  The     *)
(* variable ipc is the State behind the one lock STATE, with the registry   *)
(* of lineages it calls into; a call that drops the lock between two steps  *)
(* (mapping, unmapping, kernel I/O, blocking) is as many actions.           *)
(*                                                                          *)
(* Calls that are refused change nothing and are left out, and so are the   *)
(* sandbox checks made before the lock is taken, which can only refuse.     *)
(* Message bytes are left out; a message is its sender and its escrow.      *)
(***************************************************************************)
EXTENDS Lineage, Sequences, SequencesExt

CONSTANTS
  Procs, Tasks, ProcessOf,    \* process ids, tasks, the process of a task
  ObjectIds,                  \* next_object_id, bounded
  MaxEndpoints, MaxShared,    \* MAX_IPC_OBJECTS, MAX_SHARED_MEMORY_OBJECTS
  MaxHandles,                 \* MAX_IPC_HANDLES_PER_PROCESS
  QueueDepth,                 \* IPC_QUEUE_DEPTH
  MaxWaiters, MaxMappings,    \* MAX_WAITERS, MAX_SHARED_MEMORY_MAPPINGS
  ServiceNames, MaxServices,  \* MAX_IPC_SERVICES
  Delegations                 \* the rights a delegating call may ask for

VARIABLES
  ipc,       \* State, with LINEAGES
  flight,    \* calls between two holds of the lock
  waits,     \* blocking calls
  signals,   \* waiters taken from a queue, signal_event still to come
  forfeits,  \* endpoints with a message whose woken receiver was refused
  stray      \* references of mappings whose pages stayed and whose record was lost

ipcVars == <<ipc, flight, waits, signals, forfeits, stray>>

IpcRight == "ipc"                                     \* Capability::Ipc
EndpointOwner == {"send", "receive", "transfer", "publish"}
ServiceClient == {"send", "transfer"}
SharedOwner   == {"transfer", "read", "write", "map"}

NoEntry == [kind |-> "none"]
HandleSlots == 1 .. MaxHandles

FreshObject(kind, owner) ==
  [kind |-> kind, owner |-> owner, refs |-> 1, queue |-> <<>>,
   receivers |-> <<>>, senders |-> <<>>, maps |-> {}, lin |-> NoLineage]

EmptySpace ==
  [registered |-> FALSE, entries |-> [s \in HandleSlots |-> NoEntry],
   gens |-> [s \in HandleSlots |-> 0], inbox |-> <<>>]

Idle == [pc |-> "idle", call |-> "receive", handle |-> <<0, 0>>, obj |-> 0, pending |-> FALSE]

IpcInit ==
  /\ ipc = [objects  |-> [o \in ObjectIds |-> NoEntry],
            made     |-> 0,
            spaces   |-> [p \in Procs |-> EmptySpace],
            services |-> [n \in ServiceNames |-> NoEntry],
            lineages |-> [s \in LineageSlots |-> EmptySlot]]
  /\ flight = {}
  /\ waits = [t \in Tasks |-> Idle]
  /\ signals = [t \in Tasks |-> 0]
  /\ forfeits = {}
  /\ stray = [o \in ObjectIds |-> 0]

Registered(p) == ipc.spaces[p].registered
Entry(p, h) == ipc.spaces[p].entries[h[1]]

(* lookup_raw, lookup *)
Raw(p, h) ==
  /\ Registered(p) /\ h[1] \in HandleSlots
  /\ Entry(p, h) # NoEntry /\ Entry(p, h).gen = h[2]

Usable(p, h) ==
  /\ Raw(p, h)
  /\ Entry(p, h).lin # NoLineage => Authorizes(ipc.lineages, Entry(p, h).lin, IpcRight)

HandlesOf(p) ==
  {<<s, ipc.spaces[p].gens[s]>> : s \in {x \in HandleSlots : Raw(p, <<x, ipc.spaces[p].gens[x]>>)}}

FreeHandles(st, p) == {s \in HandleSlots : st.spaces[p].entries[s] = NoEntry}
HasRoom(st, p) == st.spaces[p].registered /\ FreeHandles(st, p) # {}

(* allocate_tagged: the lowest free slot, in its next generation.          *)
Installed(st, p, obj, rights, lin) ==
  LET s == CHOOSE x \in FreeHandles(st, p) : \A y \in FreeHandles(st, p) : x <= y
      g == NextGeneration(st.spaces[p].gens[s])
  IN  [st EXCEPT !.spaces[p].gens[s] = g,
                 !.spaces[p].entries[s] =
                   [kind |-> "handle", obj |-> obj, rights |-> rights, gen |-> g, lin |-> lin]]

\* Mutant: the new holder is not counted.
UncountedMutant(st, o) == st

Retained(st, o) == [st EXCEPT !.objects[o].refs = @ + 1]

Escrows(queue) == SelectSeq([i \in DOMAIN queue |-> queue[i].escrow], LAMBDA e : e # NoEntry)

(* release_object_reference: the last reference frees the object, releases  *)
(* its delegation root and then every capability queued in it.              *)
RECURSIVE Release(_, _)
Release(st, o) ==
  LET ob == st.objects[o]
      freed == [st EXCEPT !.objects[o] = NoEntry,
                  !.lineages = IF CanRelease(@, ob.owner, ob.lin)
                               THEN Released(@, ob.lin) ELSE @]
  IN  IF ob = NoEntry THEN st
      ELSE IF ob.refs > 1 THEN [st EXCEPT !.objects[o].refs = @ - 1]
      ELSE FoldSeq(LAMBDA e, acc : Release(acc, e.obj), freed, Escrows(ob.queue))

ReleaseEach(st, objs) == FoldSeq(LAMBDA o, acc : Release(acc, o), st, objs)

(* delegation_lineage_for: the lineage of a delegated handle, or the root   *)
(* of the object, issued by its owner at the first delegation.              *)
Epoch(p, h) ==
  IF Entry(p, h).lin # NoLineage THEN Entry(p, h).lin
  ELSE IF Authorizes(ipc.lineages, ipc.objects[Entry(p, h).obj].lin, IpcRight)
       THEN ipc.objects[Entry(p, h).obj].lin
       ELSE AllocatedId(ipc.lineages)

NeedsRoot(p, h) ==
  /\ Entry(p, h).lin = NoLineage
  /\ ~Authorizes(ipc.lineages, ipc.objects[Entry(p, h).obj].lin, IpcRight)

MayDelegate(p, h, rights) ==
  /\ Usable(p, h) /\ "transfer" \in Entry(p, h).rights
  /\ rights # {} /\ rights \subseteq Entry(p, h).rights
  /\ Entry(p, h).lin = NoLineage => ipc.objects[Entry(p, h).obj].owner = p
  /\ NeedsRoot(p, h) => CanAllocate(ipc.lineages, {IpcRight})

WithEpoch(p, h) ==
  IF NeedsRoot(p, h)
  THEN [ipc EXCEPT !.objects[Entry(p, h).obj].lin = AllocatedId(ipc.lineages),
                   !.lineages = Allocated(@, NoLineage, p, {IpcRight})]
  ELSE ipc

Quiet == UNCHANGED <<flight, waits, signals, forfeits, stray>>

-----------------------------------------------------------------------------
(* The namespace of a process.                                             *)

Register(p) ==
  /\ ~Registered(p)
  /\ ipc' = [ipc EXCEPT !.spaces[p] = [EmptySpace EXCEPT !.registered = TRUE]]
  /\ Quiet

WithoutOwner(seq, p) == SelectSeq(seq, LAMBDA w : w.owner # p)

(* unregister: refused while a mapping of the process remains.  Its services *)
(* go first, then its waiters, then its handles; its tasks are gone, and a   *)
(* message one of them had been woken for is left to nobody.                 *)
HeldBy(p) ==
  LET held == SelectSeq(ipc.spaces[p].entries, LAMBDA e : e # NoEntry)
  IN  [i \in DOMAIN held |-> held[i].obj]

ServedBy(p) ==
  LET own == SetToSeq({n \in ServiceNames :
                         ipc.services[n] # NoEntry /\ ipc.services[n].owner = p})
  IN  [i \in DOMAIN own |-> ipc.services[own[i]].obj]

Unregister(p) ==
  LET unserved == ReleaseEach(
        [ipc EXCEPT !.services = [n \in ServiceNames |->
           IF @[n] # NoEntry /\ @[n].owner = p THEN NoEntry ELSE @[n]]],
        ServedBy(p))
      deaf == [unserved EXCEPT
        !.objects = [o \in ObjectIds |->
           IF @[o] = NoEntry THEN NoEntry
           ELSE [@[o] EXCEPT !.receivers = WithoutOwner(@, p),
                             !.senders = WithoutOwner(@, p)]],
        !.spaces[p] = EmptySpace]
      mine == {t \in Tasks : ProcessOf[t] = p}
  IN  /\ Registered(p)
      /\ \A o \in ObjectIds : ipc.objects[o] # NoEntry =>
           \A m \in ipc.objects[o].maps : m.owner # p
      /\ \A f \in flight : f.proc # p
      /\ ipc' = ReleaseEach(deaf, HeldBy(p))
      /\ waits' = [t \in Tasks |-> IF t \in mine THEN Idle ELSE waits[t]]
      /\ signals' = [t \in Tasks |-> IF t \in mine THEN 0 ELSE signals[t]]
      /\ forfeits' = forfeits \cup
           {waits[t].obj : t \in {u \in mine : waits[u].pc # "idle"}}
      /\ UNCHANGED <<flight, stray>>

(* The queues addressed by process id (MessageSend, MessageReceive).       *)
SendLegacy(p, q) ==
  /\ Registered(p) /\ Registered(q)
  /\ Len(ipc.spaces[q].inbox) < QueueDepth
  /\ ipc' = [ipc EXCEPT !.spaces[q].inbox = Append(@, p)]
  /\ Quiet

ReceiveLegacy(p) ==
  /\ Registered(p) /\ ipc.spaces[p].inbox # <<>>
  /\ ipc' = [ipc EXCEPT !.spaces[p].inbox = Tail(@)]
  /\ Quiet

-----------------------------------------------------------------------------
(* Objects and handles.                                                    *)

CountOf(kind) == Cardinality({o \in ObjectIds : ipc.objects[o].kind = kind})

(* create_endpoint_object, create_shared_memory: without a free handle slot  *)
(* the object is taken back, but its id is used up.                          *)
Create(p, kind, limit, rights) ==
  LET o == ipc.made + 1
  IN  /\ Registered(p) /\ o \in ObjectIds /\ CountOf(kind) < limit
      /\ ipc' = IF HasRoom(ipc, p)
                THEN Installed([ipc EXCEPT !.made = o,
                                           !.objects[o] = FreshObject(kind, p)],
                               p, o, rights, NoLineage)
                ELSE [ipc EXCEPT !.made = o]
      /\ Quiet

CreateEndpoint(p) == Create(p, "endpoint", MaxEndpoints, EndpointOwner)
CreateSharedMemory(p) == Create(p, "shared", MaxShared, SharedOwner)

(* grant_handle: a root issued for the delegation stays even when the       *)
(* target has no free slot.                                                 *)
GrantHandle(p, h, q, rights) ==
  /\ MayDelegate(p, h, rights)
  /\ LET st == WithEpoch(p, h) IN
     ipc' = IF HasRoom(st, q)
            THEN Installed(Retained(st, Entry(p, h).obj), q, Entry(p, h).obj,
                           rights, Epoch(p, h))
            ELSE st
  /\ Quiet

\* Mutant: the waiter leaves the queue and is not signalled.
NoWakeMutant(seq) == {}

Woken(seq) == IF seq = <<>> THEN {} ELSE {Head(seq).task}
Rest(seq) == IF seq = <<>> THEN <<>> ELSE Tail(seq)
Signalled(woken) == [t \in Tasks |-> signals[t] + (IF t \in woken THEN 1 ELSE 0)]

WithoutHandle(seq, p, h) == SelectSeq(seq, LAMBDA w : ~(w.owner = p /\ w.handle = h))
WaitersOn(seq, p, h) == {seq[i].task : i \in {j \in DOMAIN seq : seq[j].owner = p /\ seq[j].handle = h}}

(* close_handle: also of a recalled handle; the tasks waiting through it    *)
(* are woken to find it gone.                                               *)
CloseHandle(p, h) ==
  LET o  == Entry(p, h).obj
      ob == ipc.objects[o]
  IN  /\ Raw(p, h)
      /\ ipc' = Release([ipc EXCEPT
                  !.spaces[p].entries[h[1]] = NoEntry,
                  !.objects[o] = IF @ = NoEntry THEN @
                                 ELSE [@ EXCEPT !.receivers = WithoutHandle(@, p, h),
                                                !.senders = WithoutHandle(@, p, h)]], o)
      /\ signals' = IF ob = NoEntry THEN signals
                    ELSE Signalled(WaitersOn(ob.receivers \o ob.senders, p, h))
      /\ UNCHANGED <<flight, waits, forfeits, stray>>

(* revoke_object_delegations: by the creator, through any handle to it.    *)
RevokeDelegations(p, h) ==
  /\ Raw(p, h)
  /\ LET ob == ipc.objects[Entry(p, h).obj] IN
     /\ ob # NoEntry /\ ob.owner = p /\ ob.lin # NoLineage
     /\ ipc' = [ipc EXCEPT !.lineages = RevokedSubtree(@, p, ob.lin)]
  /\ Quiet

(* reap_dead of task.rs recalls the nodes owned by the number of the task;  *)
(* the numbers of tasks and of processes are counted separately.            *)
ReapTask(id) ==
  /\ ipc' = [ipc EXCEPT !.lineages = RevokedAllOwned(@, id)]
  /\ ipc' # ipc
  /\ Quiet

-----------------------------------------------------------------------------
(* Messages.                                                               *)

(* would_create_endpoint_transfer_cycle: the destination is reached from    *)
(* the transferred endpoint through queued capabilities.                    *)
QueuedIn(S) ==
  UNION {{ipc.objects[o].queue[i].escrow.obj :
            i \in {j \in DOMAIN ipc.objects[o].queue : ipc.objects[o].queue[j].escrow # NoEntry}}
         : o \in {x \in S : ipc.objects[x].kind = "endpoint"}}

ReachedFrom(o) ==
  LET reach[n \in 0 .. Cardinality(ObjectIds)] ==
        IF n = 0 THEN {o} ELSE reach[n - 1] \cup QueuedIn(reach[n - 1])
  IN  reach[Cardinality(ObjectIds)]

\* Mutant: any endpoint may be queued in any other.
AnyTransferMutant(dest, o) == FALSE

CreatesCycle(dest, o) == ipc.objects[o].kind = "endpoint" /\ dest \in ReachedFrom(o)

CanSend(p, h) ==
  Usable(p, h) /\ "send" \in Entry(p, h).rights /\ ipc.objects[Entry(p, h).obj].kind = "endpoint"
CanReceive(p, h) ==
  Usable(p, h) /\ "receive" \in Entry(p, h).rights /\ ipc.objects[Entry(p, h).obj].kind = "endpoint"

Full(o) == Len(ipc.objects[o].queue) >= QueueDepth

(* send_handle_with_optional_transfer: one receiver is taken off the queue  *)
(* of waiters and signalled after the lock is dropped.                      *)
Enqueued(st, p, o, escrow) ==
  [st EXCEPT !.objects[o].queue = Append(@, [sender |-> p, escrow |-> escrow]),
             !.objects[o].receivers = Rest(@)]

Send(p, h) ==
  LET o == Entry(p, h).obj IN
  /\ CanSend(p, h) /\ ~Full(o)
  /\ ipc' = Enqueued(ipc, p, o, NoEntry)
  /\ signals' = Signalled(Woken(ipc.objects[o].receivers))
  /\ UNCHANGED <<flight, waits, forfeits, stray>>

(* The root is issued before the endpoint is looked at; a send that fails   *)
(* then gives back the reference it took.                                   *)
SendWithTransfer(p, h, x, rights) ==
  LET o  == Entry(p, h).obj
      st == WithEpoch(p, x)
      escrow == [kind |-> "escrow", obj |-> Entry(p, x).obj, rights |-> rights,
                 lin |-> Epoch(p, x)]
      sent == CanSend(p, h) /\ ~CreatesCycle(o, Entry(p, x).obj) /\ ~Full(o)
  IN  /\ MayDelegate(p, x, rights)
      /\ \/ /\ sent
            /\ ipc' = Enqueued(Retained(st, Entry(p, x).obj), p, o, escrow)
            /\ signals' = Signalled(Woken(ipc.objects[o].receivers))
         \/ ~sent /\ ipc' = st /\ UNCHANGED signals
      /\ UNCHANGED <<flight, waits, forfeits, stray>>

(* receive_handle: an escrow becomes a handle of the receiver before the    *)
(* message leaves the queue; without a free slot nothing happens.           *)
Deliverable(p, o) ==
  /\ ipc.objects[o].queue # <<>>
  /\ Head(ipc.objects[o].queue).escrow # NoEntry => HasRoom(ipc, p)

Received(p, o) ==
  LET e  == Head(ipc.objects[o].queue).escrow
      st == IF e = NoEntry THEN ipc ELSE Installed(ipc, p, e.obj, e.rights, e.lin)
  IN  [st EXCEPT !.objects[o].queue = Tail(@), !.objects[o].senders = Rest(@)]

Receive(p, h) ==
  LET o == Entry(p, h).obj IN
  /\ CanReceive(p, h) /\ Deliverable(p, o)
  /\ ipc' = Received(p, o)
  /\ signals' = Signalled(Woken(ipc.objects[o].senders))
  /\ forfeits' = forfeits \ {o}
  /\ UNCHANGED <<flight, waits, stray>>

-----------------------------------------------------------------------------
(* Blocking calls: try under the lock, register, drop the lock, wait.      *)

Begin(t, call, h) ==
  /\ waits[t].pc = "idle" /\ Raw(ProcessOf[t], h)
  /\ waits' = [waits EXCEPT ![t].pc = "try", ![t].call = call, ![t].handle = h,
                             ![t].obj = Entry(ProcessOf[t], h).obj]
  /\ UNCHANGED <<ipc, flight, signals, forfeits, stray>>

Done(t, woken) ==
  /\ waits' = [waits EXCEPT ![t] = [Idle EXCEPT !.pending = waits[t].pending]]
  /\ signals' = Signalled(woken)

Waiter(t) == [owner |-> ProcessOf[t], handle |-> waits[t].handle, task |-> t]

(* push_waiter: a waiter already in the queue is not added again.          *)
Registers(t, seq) ==
  /\ Waiter(t) \in Range(seq) \/ Len(seq) < MaxWaiters
  /\ waits' = [waits EXCEPT ![t].pc = "park"]
Pushed(t, seq) == IF Waiter(t) \in Range(seq) THEN seq ELSE Append(seq, Waiter(t))

TryReceive(t) ==
  LET p == ProcessOf[t]
      h == waits[t].handle
      o == waits[t].obj
  IN  /\ waits[t].pc = "try" /\ waits[t].call = "receive"
      /\ \/ /\ CanReceive(p, h) /\ Deliverable(p, o)
            /\ ipc' = Received(p, o)
            /\ Done(t, Woken(ipc.objects[o].senders))
            /\ forfeits' = forfeits \ {o}
         \/ /\ CanReceive(p, h) /\ ipc.objects[o].queue = <<>>
            /\ Registers(t, ipc.objects[o].receivers)
            /\ ipc' = [ipc EXCEPT !.objects[o].receivers = Pushed(t, @)]
            /\ UNCHANGED <<signals, forfeits>>
         \/ /\ \/ ~CanReceive(p, h)
               \/ /\ CanReceive(p, h) /\ ipc.objects[o].queue # <<>>
                  /\ ~Deliverable(p, o)
               \/ /\ CanReceive(p, h) /\ ipc.objects[o].queue = <<>>
                  /\ Len(ipc.objects[o].receivers) = MaxWaiters
                  /\ Waiter(t) \notin Range(ipc.objects[o].receivers)
            /\ Done(t, {})
            /\ forfeits' = forfeits \cup {waits[t].obj}
            /\ UNCHANGED ipc
      /\ UNCHANGED <<flight, stray>>

TrySend(t) ==
  LET p == ProcessOf[t]
      h == waits[t].handle
      o == waits[t].obj
  IN  /\ waits[t].pc = "try" /\ waits[t].call = "send"
      /\ \/ /\ CanSend(p, h) /\ ~Full(o)
            /\ ipc' = Enqueued(ipc, p, o, NoEntry)
            /\ Done(t, Woken(ipc.objects[o].receivers))
            /\ UNCHANGED forfeits
         \/ /\ CanSend(p, h) /\ Full(o)
            /\ Registers(t, ipc.objects[o].senders)
            /\ ipc' = [ipc EXCEPT !.objects[o].senders = Pushed(t, @)]
            /\ UNCHANGED <<signals, forfeits>>
         \/ /\ \/ ~CanSend(p, h)
               \/ /\ CanSend(p, h) /\ Full(o) /\ Len(ipc.objects[o].senders) = MaxWaiters
                  /\ Waiter(t) \notin Range(ipc.objects[o].senders)
            /\ Done(t, {})
            /\ forfeits' = forfeits \cup {waits[t].obj}
            /\ UNCHANGED ipc
      /\ UNCHANGED <<flight, stray>>

(* wait_for_event: a latched event is consumed, else the task blocks.      *)
Park(t) ==
  /\ waits[t].pc = "park"
  /\ waits' = IF waits[t].pending
              THEN [waits EXCEPT ![t].pc = "try", ![t].pending = FALSE]
              ELSE [waits EXCEPT ![t].pc = "blocked"]
  /\ UNCHANGED <<ipc, flight, signals, forfeits, stray>>

SignalEvent(t) ==
  /\ signals[t] > 0
  /\ signals' = [signals EXCEPT ![t] = @ - 1]
  /\ waits' = IF waits[t].pc = "blocked" THEN [waits EXCEPT ![t].pc = "try"]
              ELSE [waits EXCEPT ![t].pending = TRUE]
  /\ UNCHANGED <<ipc, flight, forfeits, stray>>

-----------------------------------------------------------------------------
(* Shared memory: the lock is dropped while page tables change or bytes are *)
(* copied, under a reference of the call's own.                             *)

BeginShared(p, h, call, needed) ==
  /\ Usable(p, h) /\ ipc.objects[Entry(p, h).obj].kind = "shared"
  /\ needed \subseteq Entry(p, h).rights
  /\ \A f \in flight : f.proc # p
  /\ ipc' = Retained(ipc, Entry(p, h).obj)
  /\ flight' = flight \cup {[proc |-> p, call |-> call, obj |-> Entry(p, h).obj]}
  /\ UNCHANGED <<waits, signals, forfeits, stray>>

BeginIo(p, h) == \E right \in {"read", "write"} : BeginShared(p, h, "io", {right})

(* One address per process is enough: a second mapping there is refused.   *)
BeginMap(p, h) ==
  /\ Raw(p, h)
  /\ \A m \in ipc.objects[Entry(p, h).obj].maps : m.owner # p
  /\ Cardinality(ipc.objects[Entry(p, h).obj].maps) < MaxMappings
  /\ \E w \in {{}, {"write"}} : BeginShared(p, h, "map", {"map", "read"} \cup w)

(* The frames are mapped and the mapping recorded, or the pages could not   *)
(* be mapped, or the table filled up meanwhile, and the reference goes.     *)
FinishMap(f) ==
  LET ob == ipc.objects[f.obj] IN
  /\ f.call = "map"
  /\ \/ /\ ob # NoEntry /\ Cardinality(ob.maps) < MaxMappings
        /\ ipc' = [ipc EXCEPT !.objects[f.obj].maps = @ \cup {[owner |-> f.proc]}]
     \/ ipc' = Release(ipc, f.obj)
  /\ flight' = flight \ {f}
  /\ UNCHANGED <<waits, signals, forfeits, stray>>

BeginUnmap(p, o) ==
  /\ ipc.objects[o].kind = "shared" /\ [owner |-> p] \in ipc.objects[o].maps
  /\ \A f \in flight : f.proc # p
  /\ ipc' = [ipc EXCEPT !.objects[o].maps = @ \ {[owner |-> p]}]
  /\ flight' = flight \cup {[proc |-> p, call |-> "unmap", obj |-> o]}
  /\ UNCHANGED <<waits, signals, forfeits, stray>>

(* The mapping's reference is released, or, when the pages would not go,    *)
(* the mapping is put back.  When the table filled up meanwhile it cannot   *)
(* be, and nothing will release its reference any more.                     *)
FinishUnmap(f) ==
  LET room == Cardinality(ipc.objects[f.obj].maps) < MaxMappings IN
  /\ f.call = "unmap"
  /\ \/ ipc' = Release(ipc, f.obj) /\ UNCHANGED stray
     \/ /\ room /\ UNCHANGED stray
        /\ ipc' = [ipc EXCEPT !.objects[f.obj].maps = @ \cup {[owner |-> f.proc]}]
     \/ ~room /\ UNCHANGED ipc /\ stray' = [stray EXCEPT ![f.obj] = @ + 1]
  /\ flight' = flight \ {f}
  /\ UNCHANGED <<waits, signals, forfeits>>

FinishIo(f) ==
  /\ f.call = "io"
  /\ ipc' = Release(ipc, f.obj)
  /\ flight' = flight \ {f}
  /\ UNCHANGED <<waits, signals, forfeits, stray>>

-----------------------------------------------------------------------------
(* Services.                                                               *)

PublishService(p, n, h, rights) ==
  /\ ipc.services[n] = NoEntry
  /\ rights # {} /\ rights \subseteq ServiceClient
  /\ Usable(p, h) /\ ipc.objects[Entry(p, h).obj].kind = "endpoint"
  /\ "publish" \in Entry(p, h).rights /\ rights \subseteq Entry(p, h).rights
  /\ Entry(p, h).lin = NoLineage => ipc.objects[Entry(p, h).obj].owner = p
  /\ NeedsRoot(p, h) => CanAllocate(ipc.lineages, {IpcRight})
  /\ ipc' = IF Cardinality({m \in ServiceNames : ipc.services[m] # NoEntry}) < MaxServices
            THEN [Retained(WithEpoch(p, h), Entry(p, h).obj) EXCEPT
                    !.services[n] = [kind |-> "service", owner |-> p,
                                     obj |-> Entry(p, h).obj, rights |-> rights,
                                     lin |-> Epoch(p, h)]]
            ELSE WithEpoch(p, h)
  /\ Quiet

UnpublishService(p, n) ==
  /\ ipc.services[n] # NoEntry /\ ipc.services[n].owner = p
  /\ ipc' = Release([ipc EXCEPT !.services[n] = NoEntry], ipc.services[n].obj)
  /\ Quiet

DiscoverService(p, n) ==
  LET s == ipc.services[n] IN
  /\ s # NoEntry /\ Registered(p)
  /\ Authorizes(ipc.lineages, s.lin, IpcRight)
  /\ HasRoom(ipc, p)
  /\ ipc' = Installed(Retained(ipc, s.obj), p, s.obj, s.rights, s.lin)
  /\ Quiet

-----------------------------------------------------------------------------
Call(p) ==
  \/ Register(p) \/ Unregister(p) \/ ReceiveLegacy(p)
  \/ \E q \in Procs : SendLegacy(p, q)
  \/ CreateEndpoint(p) \/ CreateSharedMemory(p)
  \/ \E n \in ServiceNames : UnpublishService(p, n) \/ DiscoverService(p, n)
  \/ \E o \in ObjectIds : BeginUnmap(p, o)
  \/ \E h \in HandlesOf(p) :
       \/ CloseHandle(p, h) \/ RevokeDelegations(p, h)
       \/ Send(p, h) \/ Receive(p, h) \/ BeginIo(p, h) \/ BeginMap(p, h)
       \/ \E q \in Procs, r \in Delegations : GrantHandle(p, h, q, r)
       \/ \E x \in HandlesOf(p), r \in Delegations : SendWithTransfer(p, h, x, r)
       \/ \E n \in ServiceNames, r \in Delegations : PublishService(p, n, h, r)
       \/ \E t \in Tasks, c \in {"send", "receive"} : ProcessOf[t] = p /\ Begin(t, c, h)

Continue ==
  \/ \E f \in flight : FinishMap(f) \/ FinishUnmap(f) \/ FinishIo(f)
  \/ \E t \in Tasks : TryReceive(t) \/ TrySend(t) \/ Park(t) \/ SignalEvent(t)

IpcNext == (\E p \in Procs : Call(p)) \/ Continue \/ \E id \in Procs : ReapTask(id)

(* Correctness.                                                            *)

(* Every reference is owned by exactly one holder: a handle, an escrow in a *)
(* queue, a service, a call in flight or a mapping.  One too few frees an   *)
(* object under its users, one too many never frees it.  Only a mapping     *)
(* that unmap_shared_memory could neither remove nor put back keeps a       *)
(* reference that nobody owns, and one for each such call.                  *)
Holders(o) ==
    Cardinality({<<p, s>> \in Procs \X HandleSlots :
                   /\ ipc.spaces[p].entries[s] # NoEntry
                   /\ ipc.spaces[p].entries[s].obj = o})
  + Cardinality({<<e, i>> \in ObjectIds \X (1 .. QueueDepth) :
                   /\ ipc.objects[e].kind = "endpoint" /\ i \in DOMAIN ipc.objects[e].queue
                   /\ ipc.objects[e].queue[i].escrow # NoEntry
                   /\ ipc.objects[e].queue[i].escrow.obj = o})
  + Cardinality({n \in ServiceNames : ipc.services[n] # NoEntry /\ ipc.services[n].obj = o})
  + Cardinality({f \in flight : f.obj = o})
  + (IF ipc.objects[o] = NoEntry THEN 0 ELSE Cardinality(ipc.objects[o].maps))

HandleRefsExact ==
  \A o \in ObjectIds :
    Holders(o) + stray[o] = IF ipc.objects[o] = NoEntry THEN 0 ELSE ipc.objects[o].refs

(* Queued capabilities never hold each other in a cycle, so an object that  *)
(* no process, service or call reaches has been freed ("keep the bounded    *)
(* endpoint graph acyclic so pure reference counting can reclaim it"), but  *)
(* for the objects of mappings whose record was lost.                       *)
Anchored ==
  {ipc.spaces[p].entries[s].obj : <<p, s>> \in {<<q, x>> \in Procs \X HandleSlots :
                                     ipc.spaces[q].entries[x] # NoEntry}}
  \cup {ipc.services[n].obj : n \in {m \in ServiceNames : ipc.services[m] # NoEntry}}
  \cup {f.obj : f \in flight}
  \cup {o \in ObjectIds : ipc.objects[o] # NoEntry /\ (ipc.objects[o].maps # {} \/ stray[o] > 0)}

NoStrandedObject ==
  \A o \in ObjectIds : ipc.objects[o] # NoEntry =>
    \E a \in Anchored : o \in ReachedFrom(a)

(* A message is never left with a receiver asleep beside it, nor a free     *)
(* place with a sender: one of them is awake or about to be signalled.  A   *)
(* woken receiver that is refused, or dies, passes nothing on (forfeits).   *)
Stirring(t, call, o) ==
  /\ waits[t].call = call /\ waits[t].obj = o
  /\ \/ waits[t].pc = "try"
     \/ waits[t].pc \in {"park", "blocked"} /\ (signals[t] > 0 \/ waits[t].pending)

NoLostIpcWakeup ==
  \A o \in ObjectIds \ forfeits : ipc.objects[o].kind = "endpoint" =>
    /\ ipc.objects[o].queue # <<>> /\ ipc.objects[o].receivers # <<>>
         => \E t \in Tasks : Stirring(t, "receive", o)
    /\ ~Full(o) /\ ipc.objects[o].senders # <<>>
         => \E t \in Tasks : Stirring(t, "send", o)

(* A delegated handle that a recall has made useless stays useless: a later *)
(* epoch, a reused lineage slot or a new delegation to the same process     *)
(* never brings it back.                                                    *)
RecallIsFinal ==
  \A p \in Procs, s \in HandleSlots :
    LET h == <<s, ipc.spaces[p].gens[s]>> IN
    Raw(p, h) /\ ~Usable(p, h) => ~Usable(p, h)'

IpcSpec == IpcInit /\ [][IpcNext]_ipcVars
=============================================================================

---------------------------- MODULE AsyncRuntime ----------------------------
(***************************************************************************)
(* The generic asynchronous completion runtime: the operation table        *)
(* (async_op.rs), completion ports (completion_port.rs), the scheduler's   *)
(* event latch (task.rs), the system calls that wait on them (syscall.rs)  *)
(* and owner teardown.  A step is one critical section: the locks TABLE,   *)
(* port, SCHEDULER are never held across two steps, except that teardown   *)
(* keeps SCHEDULER from its first step to its last.  A process has one     *)
(* task.  Signals are sent after the locks are dropped, so the tasks an    *)
(* actor still has to signal are state (todo).  The order of a port's      *)
(* records is CompletionQueue's subject: here ready is a set and a batch   *)
(* any part of it.                                                         *)
(***************************************************************************)
EXTENDS Naturals, FiniteSets

CONSTANTS Tasks,          \* user processes, one task each
          Workers,        \* kernel tasks that complete operations
          OpSlots,        \* operation slots, scanned in ascending order
          Ports,          \* port slots, scanned in ascending order
          MaxGeneration,  \* u32::MAX of a slot or port generation
          PORT_CAPACITY,   \* reserved or ready records of a port
          BATCH,          \* largest batch of one port read
          PER_PROCESS,    \* ports a process may own
          None

VARIABLES slot,     \* async_op TABLE
          port,     \* completion_port TABLE
          jobs,     \* handles that kernel producers still hold and will complete
          sched,    \* scheduler state of each user task
          pending,  \* event_pending latch of each user task
          at,       \* where a task is inside its system call
          op,       \* the operation handle of that call
          pt,       \* the port handle of that call
          batch,    \* the events claimed by a port read in progress
          todo,     \* signals an actor sends before it does anything else
          acked     \* history: records removed after a successful copyout

tableVars == <<slot, port, jobs, acked>>
taskVars == <<sched, pending>>
callVars == <<at, op, pt, batch>>
asyncVars == <<slot, port, jobs, sched, pending, at, op, pt, batch, todo, acked>>

Actors == Tasks \cup Workers
Generations == 1..MaxGeneration
Handle == [slot : OpSlots, generation : Generations]
PortHandle == [index : Ports, generation : Generations]

\* An Option has a value of its own.
ASSUME AsyncAssumption ==
    /\ MaxGeneration \in Nat /\ PORT_CAPACITY \in Nat
    /\ None \notin Tasks \cup Handle \cup PortHandle

Class == {"Service", "Kernel"}  \* Kernel: Block, Network, File, Timer, Event
Event == [op : Handle, flag : {"done", "cancelled"}]
Signal == {"op", "port"} \X Tasks

SlotRecord == [generation : 0..MaxGeneration,
               state : {"Free", "Pending", "Complete"},
               class : Class,
               owner : Tasks \cup {None},
               waiting : BOOLEAN,
               completion : Handle \cup {None},  \* the handle its producer served
               port : PortHandle \cup {None}]
PortRecord == [generation : 0..MaxGeneration,
               owner : Tasks \cup {None},
               reserved : SUBSET Handle,
               ready : SUBSET Event,
               waiters : SUBSET Tasks,
               consumer : Tasks \cup {None}]

HandleOf(s) == [slot |-> s, generation |-> slot[s].generation]

AsyncInit ==
    /\ slot = [s \in OpSlots |-> [generation |-> 0, state |-> "Free", class |-> "Kernel",
                                owner |-> None, waiting |-> FALSE,
                                completion |-> None, port |-> None]]
    /\ port = [i \in Ports |-> [generation |-> 0, owner |-> None, reserved |-> {},
                                ready |-> {}, waiters |-> {}, consumer |-> None]]
    /\ jobs = {}
    /\ sched = [t \in Tasks |-> "Running"]
    /\ pending = [t \in Tasks |-> FALSE]
    /\ at = [t \in Tasks |-> "user"]
    /\ op = [t \in Tasks |-> None]
    /\ pt = [t \in Tasks |-> None]
    /\ batch = [t \in Tasks |-> {}]
    /\ todo = [a \in Actors |-> {}]
    /\ acked = {}

-----------------------------------------------------------------------------
(* Table lookups.                                                          *)

AnyGenerationMutant(h) ==
    slot[h.slot].state # "Free"
Valid(h) == /\ slot[h.slot].state # "Free"
            /\ slot[h.slot].generation = h.generation
Owned(t, h) == Valid(h) /\ slot[h.slot].owner = t

PortOpen(p) == /\ port[p.index].owner # None
               /\ port[p.index].generation = p.generation
PortOwned(t, p) == PortOpen(p) /\ port[p.index].owner = t

First(S, x) == x \in S /\ \A y \in S : x <= y

\* Task t executes the next step of its system call, or user code.
SchedulerFree == \A t \in Tasks : at[t] # "exiting"
Runs(t, label) == sched[t] = "Running" /\ at[t] = label /\ todo[t] = {}
Goto(t, label) == at' = [at EXCEPT ![t] = label]
Stay == UNCHANGED <<op, pt>>
Return(t) == /\ Goto(t, "user")
             /\ op' = [op EXCEPT ![t] = None]
             /\ pt' = [pt EXCEPT ![t] = None]

-----------------------------------------------------------------------------
(* The operation table and the ports, as the state they are left in.       *)

\* publish: only a reserved, unpublished record of a still matching port.
Accepts(p, h) == p # None /\ PortOpen(p) /\ h \in port[p.index].reserved
Published(record, h, flag) ==
    [record EXCEPT !.reserved = @ \ {h}, !.ready = @ \cup {[op |-> h, flag |-> flag]}, !.waiters = {}]
Publish(p, h, flag) ==
    IF Accepts(p, h)
      THEN [port EXCEPT ![p.index] = Published(@, h, flag)]
      ELSE port
PortWaiters(p, h) == IF Accepts(p, h) THEN {"port"} \X port[p.index].waiters ELSE {}

Allocated(record, class, owner) ==
    [record EXCEPT !.generation = @ + 1, !.state = "Pending", !.class = class,
                   !.owner = owner, !.waiting = FALSE, !.completion = None]
SameGenerationMutant(s, class, owner) ==
    [slot EXCEPT ![s].state = "Pending", ![s].generation = IF @ = 0 THEN 1 ELSE @,
                 ![s].class = class, ![s].owner = owner,
                 ![s].waiting = FALSE, ![s].completion = None]
Allocate(s, class, owner) ==
    [slot EXCEPT ![s] = Allocated(@, class, owner)]
Allocatable == {s \in OpSlots : slot[s].state = "Free" /\ slot[s].generation # MaxGeneration}

Release(record) ==
    [record EXCEPT !.state = "Free", !.waiting = FALSE, !.completion = None, !.port = None]

UnregisteredWaiterMutant(h) ==
    {}
OpWaiter(h) == IF slot[h.slot].waiting THEN {<<"op", slot[h.slot].owner>>} ELSE {}

\* complete: a stale or already complete handle changes nothing.
Complete(actor, h) ==
    IF Valid(h) /\ slot[h.slot].state = "Pending"
      THEN /\ slot' = [slot EXCEPT ![h.slot].state = "Complete", ![h.slot].completion = h]
           /\ port' = Publish(slot[h.slot].port, h, "done")
           /\ todo' = [todo EXCEPT ![actor] = OpWaiter(h) \cup PortWaiters(slot[h.slot].port, h)]
      ELSE UNCHANGED <<slot, port, todo>>

\* release_current and cancel_current: a pending associated operation
\* publishes a CANCELLED record before its slot is freed.
SilentReleaseMutant(t, h) ==
    IF Owned(t, h)
      THEN /\ port' = port
           /\ todo' = todo
           /\ slot' = [slot EXCEPT ![h.slot] = Release(@)]
      ELSE UNCHANGED <<slot, port, todo>>
ReleaseCurrent(t, h) ==
    IF Owned(t, h)
      THEN LET p == IF slot[h.slot].state = "Pending" THEN slot[h.slot].port ELSE None
           IN  /\ port' = Publish(p, h, "cancelled")
               /\ todo' = [todo EXCEPT ![t] = PortWaiters(p, h)]
               /\ slot' = [slot EXCEPT ![h.slot] = Release(@)]
      ELSE UNCHANGED <<slot, port, todo>>

-----------------------------------------------------------------------------
(* Creating operations.                                                    *)

\* sys_async_create: a Service operation, or one of a kernel class that no
\* producer holds (the call also accepts Timer and Event).
AsyncCreate(t, class) ==
    /\ Runs(t, "user")
    /\ \E s \in OpSlots : /\ First(Allocatable, s)
                        /\ slot' = Allocate(s, class, t)
    /\ UNCHANGED <<port, jobs, acked, sched, pending, at, op, pt, batch, todo>>

\* A submission system call allocates first and then queues the request.
Submit(t) ==
    /\ Runs(t, "user")
    /\ \E s \in OpSlots :
          /\ First(Allocatable, s)
          /\ slot' = Allocate(s, "Kernel", t)
          /\ op' = [op EXCEPT ![t] = [slot |-> s, generation |-> slot[s].generation + 1]]
    /\ Goto(t, "submit")
    /\ UNCHANGED <<port, jobs, acked, sched, pending, pt, batch, todo>>

SubmitQueued(t) ==
    /\ Runs(t, "submit")
    /\ jobs' = jobs \cup {op[t]}
    /\ Return(t)
    /\ UNCHANGED <<slot, port, acked, sched, pending, batch, todo>>

\* The request queue is full: the handle is rolled back.
SubmitFull(t) ==
    /\ Runs(t, "submit")
    /\ ReleaseCurrent(t, op[t])
    /\ Return(t)
    /\ UNCHANGED <<jobs, acked, sched, pending, batch>>

\* A kernel worker completes a request it holds; a handle that was released
\* meanwhile is rejected as stale.
Produce(w, h) ==
    /\ todo[w] = {}
    /\ h \in jobs
    /\ jobs' = jobs \ {h}
    /\ Complete(w, h)
    /\ UNCHANGED <<acked, sched, pending, at, op, pt, batch>>

\* sys_async_complete: owner and class are checked in one section of TABLE,
\* the completion is a second one.
ServiceCheck(t, h) ==
    /\ Runs(t, "user")
    /\ Owned(t, h) /\ slot[h.slot].class = "Service"
    /\ op' = [op EXCEPT ![t] = h]
    /\ Goto(t, "service")
    /\ UNCHANGED <<slot, port, jobs, acked, sched, pending, pt, batch, todo>>

ServiceComplete(t) ==
    /\ Runs(t, "service")
    /\ Complete(t, op[t])
    /\ Return(t)
    /\ UNCHANGED <<jobs, acked, sched, pending, batch>>

-----------------------------------------------------------------------------
(* Waiting, polling and cancelling.                                        *)

StartWait(t, h) ==
    /\ Runs(t, "user")
    /\ Owned(t, h)
    /\ op' = [op EXCEPT ![t] = h]
    /\ Goto(t, "opwait")
    /\ UNCHANGED <<slot, port, jobs, acked, sched, pending, pt, batch, todo>>

\* wait_ready's table section: the result is there, or the wait is registered.
WaitCheck(t) ==
    /\ Runs(t, "opwait")
    /\ IF ~Owned(t, op[t])
         THEN Return(t) /\ UNCHANGED slot
         ELSE IF slot[op[t].slot].state = "Complete"
                THEN Goto(t, "opcopy") /\ Stay /\ UNCHANGED slot
                ELSE /\ slot' = [slot EXCEPT ![op[t].slot].waiting = TRUE]
                     /\ Goto(t, "opsleep") /\ Stay
    /\ UNCHANGED <<port, jobs, acked, sched, pending, batch, todo>>

\* wait_for_event: a latched permit is consumed, otherwise the task blocks.
\* label is where the call continues when the task runs again.
UnlatchedMutant(t, label) ==
    /\ SchedulerFree
    /\ sched' = [sched EXCEPT ![t] = "Blocked"]
    /\ pending' = [pending EXCEPT ![t] = FALSE]
    /\ Goto(t, label)
WaitForEvent(t, label) ==
    /\ SchedulerFree
    /\ IF pending[t]
         THEN pending' = [pending EXCEPT ![t] = FALSE] /\ UNCHANGED sched
         ELSE sched' = [sched EXCEPT ![t] = "Blocked"] /\ UNCHANGED pending
    /\ Goto(t, label)

OpSleep(t) ==
    /\ Runs(t, "opsleep")
    /\ WaitForEvent(t, "opwait")
    /\ UNCHANGED <<slot, port, jobs, acked, op, pt, batch, todo>>

\* Poll: peek_current; an incomplete operation returns 0 and changes nothing.
Poll(t, h) ==
    /\ Runs(t, "user")
    /\ Owned(t, h) /\ slot[h.slot].state = "Complete"
    /\ op' = [op EXCEPT ![t] = h]
    /\ Goto(t, "opcopy")
    /\ UNCHANGED <<slot, port, jobs, acked, sched, pending, pt, batch, todo>>

\* The slot is released only after the result was copied to user memory.
CopyOut(t) ==
    /\ Runs(t, "opcopy")
    /\ ReleaseCurrent(t, op[t])
    /\ Return(t)
    /\ UNCHANGED <<jobs, acked, sched, pending, batch>>

CopyFault(t) ==
    /\ Runs(t, "opcopy")
    /\ Return(t)
    /\ UNCHANGED <<slot, port, jobs, acked, sched, pending, batch, todo>>

\* sys_async_cancel detaches the producer's request first.  A worker that
\* has already taken the handle keeps it.
CancelDetach(t, h) ==
    /\ Runs(t, "user")
    /\ Owned(t, h)
    /\ jobs' \in {jobs, jobs \ {h}}
    /\ op' = [op EXCEPT ![t] = h]
    /\ Goto(t, "cancel")
    /\ UNCHANGED <<slot, port, acked, sched, pending, pt, batch, todo>>

Cancel(t) ==
    /\ Runs(t, "cancel")
    /\ ReleaseCurrent(t, op[t])
    /\ Return(t)
    /\ UNCHANGED <<jobs, acked, sched, pending, batch>>

-----------------------------------------------------------------------------
(* Completion ports.                                                       *)

Used(i) == Cardinality(port[i].reserved) + Cardinality(port[i].ready)
OwnedPorts(t) == {i \in Ports : port[i].owner = t}
Creatable == {i \in Ports : port[i].owner = None /\ port[i].generation < MaxGeneration}
Cleared(record) == [record EXCEPT !.owner = None, !.reserved = {}, !.ready = {},
                                  !.waiters = {}, !.consumer = None]

PortCreate(t) ==
    /\ Runs(t, "user")
    /\ Cardinality(OwnedPorts(t)) < PER_PROCESS
    /\ \E i \in Ports :
          /\ First(Creatable, i)
          /\ port' = [port EXCEPT ![i].generation = @ + 1, ![i].owner = t]
    /\ UNCHANGED <<slot, jobs, acked, sched, pending, at, op, pt, batch, todo>>

PortClose(t, p) ==
    /\ Runs(t, "user")
    /\ PortOwned(t, p)
    /\ port' = [port EXCEPT ![p.index] = Cleared(@)]
    /\ todo' = [todo EXCEPT ![t] = {"port"} \X port[p.index].waiters]
    /\ UNCHANGED <<slot, jobs, acked, sched, pending, at, op, pt, batch>>

\* associate_current: reserve, remember the port, and publish at once when
\* the operation has already completed.  A full port rejects it unchanged.
Reserved(p, h) == [port EXCEPT ![p.index].reserved = @ \cup {h}]
PublishedAtOnce(p, h) == [port EXCEPT ![p.index] = Published(@, h, "done")]
Associate(t, h, p) ==
    /\ Runs(t, "user")
    /\ Owned(t, h) /\ slot[h.slot].port = None
    /\ PortOwned(t, p) /\ Used(p.index) < PORT_CAPACITY
    /\ slot' = [slot EXCEPT ![h.slot].port = p]
    /\ IF slot[h.slot].state = "Complete"
         THEN /\ port' = PublishedAtOnce(p, h)
              /\ todo' = [todo EXCEPT ![t] = {"port"} \X port[p.index].waiters]
         ELSE port' = Reserved(p, h) /\ UNCHANGED todo
    /\ UNCHANGED <<jobs, acked, sched, pending, at, op, pt, batch>>

\* begin: claim a batch of at most BATCH ready records.
Claim(t, p) ==
    \E events \in SUBSET port[p.index].ready :
        /\ events # {} /\ Cardinality(events) <= BATCH
        /\ batch' = [batch EXCEPT ![t] = events]
        /\ port' = [port EXCEPT ![p.index].consumer = t]
        /\ Goto(t, "portcopy")

Readable(t, p) == PortOwned(t, p) /\ port[p.index].consumer = None

\* A poll of an empty port returns 0 and changes nothing.
PortPoll(t, p) ==
    /\ Runs(t, "user")
    /\ Readable(t, p) /\ port[p.index].ready # {}
    /\ pt' = [pt EXCEPT ![t] = p]
    /\ Claim(t, p)
    /\ UNCHANGED <<slot, jobs, acked, sched, pending, op, todo>>

StartPortWait(t, p) ==
    /\ Runs(t, "user")
    /\ PortOwned(t, p)
    /\ pt' = [pt EXCEPT ![t] = p]
    /\ Goto(t, "portwait")
    /\ UNCHANGED <<slot, port, jobs, acked, sched, pending, op, batch, todo>>

\* begin under wait: a batch, an error return, or a registered waiter.
PortBegin(t) ==
    /\ Runs(t, "portwait")
    /\ IF ~Readable(t, pt[t])
         THEN Return(t) /\ UNCHANGED <<port, batch>>
         ELSE IF port[pt[t].index].ready # {}
                THEN Claim(t, pt[t]) /\ Stay
                ELSE /\ port' = [port EXCEPT ![pt[t].index].waiters = @ \cup {t}]
                     /\ Goto(t, "portsleep") /\ Stay
                     /\ UNCHANGED batch
    /\ UNCHANGED <<slot, jobs, acked, sched, pending, todo>>

\* unwatch leaves a port that no longer matches alone.
Unwatched(t, p) ==
    IF PortOpen(p) THEN [port EXCEPT ![p.index].waiters = @ \ {t}] ELSE port

\* The deadline has passed: the waiter is withdrawn and the call returns 0.
PortExpire(t) ==
    /\ Runs(t, "portsleep")
    /\ port' = Unwatched(t, pt[t])
    /\ Return(t)
    /\ UNCHANGED <<slot, jobs, acked, sched, pending, batch, todo>>

PortSleep(t) ==
    /\ Runs(t, "portsleep")
    /\ WaitForEvent(t, "portwoken")
    /\ UNCHANGED <<slot, port, jobs, acked, op, pt, batch, todo>>

PortUnwatch(t) ==
    /\ Runs(t, "portwoken")
    /\ port' = Unwatched(t, pt[t])
    /\ Goto(t, "portwait")
    /\ UNCHANGED <<slot, jobs, acked, sched, pending, op, pt, batch, todo>>

\* finish: records leave the queue only after they were copied to the user.
OpsIn(events) == {event.op : event \in events}
Without(events, ops) == {event \in events : event.op \notin ops}
Finish(t, copied) ==
    /\ Runs(t, "portcopy")
    /\ LET i == pt[t].index
           removed == IF copied THEN OpsIn(batch[t]) ELSE {}
       IN IF PortOwned(t, pt[t]) /\ port[i].consumer = t
            THEN /\ port' = [port EXCEPT ![i].ready = Without(@, removed),
                                     ![i].reserved = @ \ removed,
                                     ![i].consumer = None]
                 /\ acked' = acked \cup removed
            ELSE UNCHANGED <<port, acked>>
    /\ batch' = [batch EXCEPT ![t] = {}]
    /\ Return(t)
    /\ UNCHANGED <<slot, jobs, sched, pending, todo>>

-----------------------------------------------------------------------------
(* The scheduler's event latch.                                            *)

\* signal_event: wake a Blocked task, otherwise latch a permit.
LatchEvent(t) ==
    IF sched[t] = "Blocked"
      THEN sched' = [sched EXCEPT ![t] = "Ready"] /\ UNCHANGED pending
      ELSE pending' = [pending EXCEPT ![t] = (sched[t] # "Dead")] /\ UNCHANGED sched

\* The owner of the operation is signalled before the port's waiters.
Notify(actor, signal) ==
    /\ SchedulerFree
    /\ signal \in todo[actor]
    /\ signal[1] = "port" => \A other \in todo[actor] : other[1] = "port"
    /\ todo' = [todo EXCEPT ![actor] = @ \ {signal}]
    /\ LatchEvent(signal[2])
    /\ UNCHANGED <<slot, port, jobs, acked, at, op, pt, batch>>

\* Unrelated subsystems share the latch: IPC, pipes, timers.
UnrelatedSignal(t) ==
    /\ SchedulerFree
    /\ sched[t] # "Dead"
    /\ LatchEvent(t)
    /\ UNCHANGED <<slot, port, jobs, acked, at, op, pt, batch, todo>>

\* wake_sleeping: the event_deadline of a timed port wait has passed.
WakeTimeout(t) ==
    /\ SchedulerFree
    /\ sched[t] = "Blocked" /\ at[t] = "portwoken"
    /\ sched' = [sched EXCEPT ![t] = "Ready"]
    /\ UNCHANGED <<slot, port, jobs, acked, pending, at, op, pt, batch, todo>>

\* System calls run with interrupts masked: only user code is preempted.
Preempt(t) ==
    /\ SchedulerFree
    /\ Runs(t, "user")
    /\ sched' = [sched EXCEPT ![t] = "Ready"]
    /\ UNCHANGED <<slot, port, jobs, acked, pending, at, op, pt, batch, todo>>

Dispatch(t) ==
    /\ SchedulerFree
    /\ sched[t] = "Ready"
    /\ sched' = [sched EXCEPT ![t] = "Running"]
    /\ UNCHANGED <<slot, port, jobs, acked, pending, at, op, pt, batch, todo>>

-----------------------------------------------------------------------------
(* Owner teardown, under the scheduler lock.                               *)

OpsOf(t) == {HandleOf(s) : s \in {r \in OpSlots : slot[r].state # "Free" /\ slot[r].owner = t}}

\* The request queues drop what is still queued for the owner (a worker may
\* keep what it has taken); async_op::release_owner frees every slot of the
\* owner and abandons its port records.
ReleaseOwner(t) ==
    /\ \E kept \in SUBSET (jobs \cap OpsOf(t)) : jobs' = (jobs \ OpsOf(t)) \cup kept
    /\ slot' = [s \in OpSlots |-> IF HandleOf(s) \in OpsOf(t) THEN Release(slot[s]) ELSE slot[s]]
    /\ port' = [i \in Ports |->
                  LET gone == {h \in OpsOf(t) : slot[h.slot].port =
                                  [index |-> i, generation |-> port[i].generation]}
                  IN  IF port[i].owner = None THEN port[i]
                      ELSE [port[i] EXCEPT !.reserved = @ \ gone,
                                           !.ready = Without(@, gone)]]
    /\ Goto(t, "exiting")
    /\ op' = [op EXCEPT ![t] = None] /\ pt' = [pt EXCEPT ![t] = None]
    /\ UNCHANGED <<acked, pending, batch, todo>>

\* exit_current_process, also reached at the end of a system call whose
\* caller was asked to terminate.
Exit(t) ==
    /\ SchedulerFree
    /\ Runs(t, "user")
    /\ ReleaseOwner(t)
    /\ UNCHANGED sched

\* request_termination of a task that is not executing.
Kill(t) ==
    /\ SchedulerFree
    /\ sched[t] \in {"Ready", "Blocked"}
    /\ ReleaseOwner(t)
    /\ UNCHANGED sched

LeaksPortsMutant(t) ==
    /\ at[t] = "exiting"
    /\ sched' = [sched EXCEPT ![t] = "Dead"]
    /\ Goto(t, "dead")
    /\ UNCHANGED <<slot, port, jobs, acked, pending, op, pt, batch, todo>>
ReleasePorts(t) ==
    /\ at[t] = "exiting"
    /\ port' = [i \in Ports |-> IF port[i].owner = t THEN Cleared(port[i]) ELSE port[i]]
    /\ sched' = [sched EXCEPT ![t] = "Dead"]
    /\ pending' = [pending EXCEPT ![t] = FALSE]
    /\ Goto(t, "dead")
    /\ UNCHANGED <<slot, jobs, acked, op, pt, batch, todo>>

-----------------------------------------------------------------------------
UserStep(t) ==
    \/ \E class \in Class : AsyncCreate(t, class)
    \/ Submit(t) \/ SubmitQueued(t) \/ SubmitFull(t)
    \/ ServiceComplete(t)
    \/ WaitCheck(t) \/ OpSleep(t) \/ CopyOut(t) \/ CopyFault(t) \/ Cancel(t)
    \/ \E h \in Handle : \/ ServiceCheck(t, h) \/ StartWait(t, h)
                         \/ Poll(t, h) \/ CancelDetach(t, h)
                         \/ \E p \in PortHandle : Associate(t, h, p)
    \/ PortCreate(t)
    \/ \E p \in PortHandle : PortClose(t, p) \/ PortPoll(t, p) \/ StartPortWait(t, p)
    \/ PortBegin(t) \/ PortExpire(t) \/ PortSleep(t) \/ PortUnwatch(t)
    \/ \E copied \in BOOLEAN : Finish(t, copied)
    \/ Exit(t)

SchedulerStep(t) ==
    UnrelatedSignal(t) \/ WakeTimeout(t) \/ Preempt(t) \/ Dispatch(t) \/ Kill(t) \/ ReleasePorts(t)

AsyncNext ==
    \/ \E t \in Tasks : UserStep(t) \/ SchedulerStep(t)
    \/ \E w \in Workers, h \in Handle : Produce(w, h)
    \/ \E actor \in Actors, signal \in Signal : Notify(actor, signal)

AsyncSpec == AsyncInit /\ [][AsyncNext]_asyncVars

\* Workers run as long as they have requests, an actor that left a critical
\* section goes on to signal, and a task inside a system call, or Ready, runs
\* on.  User code, timeouts, unrelated signals and kills are not promised.
CallStep(t) == \/ SubmitQueued(t) \/ SubmitFull(t) \/ ServiceComplete(t) \/ WaitCheck(t)
               \/ OpSleep(t) \/ CopyOut(t) \/ CopyFault(t) \/ Cancel(t)
               \/ PortBegin(t) \/ PortExpire(t) \/ PortSleep(t) \/ PortUnwatch(t)
               \/ \E copied \in BOOLEAN : Finish(t, copied)
AsyncFairness ==
    /\ \A t \in Tasks : /\ WF_asyncVars(CallStep(t))
                       /\ WF_asyncVars(Dispatch(t)) /\ WF_asyncVars(ReleasePorts(t))
    /\ \A w \in Workers, h \in Handle : WF_asyncVars(Produce(w, h))
    /\ \A actor \in Actors, signal \in Signal : WF_asyncVars(Notify(actor, signal))
AsyncFairSpec == AsyncSpec /\ AsyncFairness

-----------------------------------------------------------------------------
Labels == {"user", "submit", "service", "opwait", "opsleep", "opcopy", "cancel", "portwait",
           "portsleep", "portwoken", "portcopy", "exiting", "dead"}

AsyncTypeOK ==
    /\ slot \in [OpSlots -> SlotRecord]
    /\ port \in [Ports -> PortRecord]
    /\ jobs \subseteq Handle
    /\ sched \in [Tasks -> {"Running", "Ready", "Blocked", "Dead"}]
    /\ pending \in [Tasks -> BOOLEAN]
    /\ at \in [Tasks -> Labels]
    /\ op \in [Tasks -> Handle \cup {None}]
    /\ pt \in [Tasks -> PortHandle \cup {None}]
    /\ batch \in [Tasks -> SUBSET Event]
    /\ todo \in [Actors -> SUBSET Signal]
    /\ acked \subseteq Handle

\* A producer that was racing a cancellation, a release or an exit never
\* completes a later occupant of the slot (async_op.rs cancel_current): the
\* result in a slot was produced for exactly the handle that reads it.
CompletionMatches ==
    \A s \in OpSlots : /\ slot[s].state = "Complete" => slot[s].completion = HandleOf(s)
                     /\ slot[s].state # "Complete" => slot[s].completion = None

SignalDue(kind, t) == \E actor \in Actors : <<kind, t>> \in todo[actor]

\* No wakeup is lost between wait_ready's table check, complete() and the
\* Running -> Blocked transition: a task that sleeps on an operation is
\* registered while it is pending, and is about to be signalled once it is
\* complete (async_op.rs wait_ready, task.rs wait_for_event_until).
NoLostOpWakeup ==
    \A t \in Tasks :
        (sched[t] = "Blocked" /\ at[t] = "opwait") =>
            /\ Owned(t, op[t])
            /\ \/ slot[op[t].slot].state = "Pending" /\ slot[op[t].slot].waiting
               \/ SignalDue("op", t)

\* The same for a port: a sleeping reader is a registered waiter while the
\* port is empty, and about to be signalled once a record is ready.
NoLostPortWakeup ==
    \A t \in Tasks :
        (sched[t] = "Blocked" /\ at[t] = "portwoken") =>
            /\ PortOwned(t, pt[t])
            /\ \/ port[pt[t].index].ready = {} /\ t \in port[pt[t].index].waiters
               \/ SignalDue("port", t)

PortHandleOf(i) == [index |-> i, generation |-> port[i].generation]

\* Exactly one terminal record per accepted association: while the port is
\* open an unpublished record belongs to a pending operation that will
\* publish into it, every associated pending operation has one, a published
\* operation is no longer pending, and an acknowledged record never returns.
OneRecord ==
    \A i \in Ports : port[i].owner # None =>
        /\ \A h \in port[i].reserved :
              Valid(h) /\ slot[h.slot].state = "Pending" /\ slot[h.slot].port = PortHandleOf(i)
        /\ \A s \in OpSlots :
              (slot[s].state = "Pending" /\ slot[s].port = PortHandleOf(i)) =>
                  HandleOf(s) \in port[i].reserved
        /\ \A event, other \in port[i].ready : event.op = other.op => event = other
        /\ \A event \in port[i].ready :
              Valid(event.op) => slot[event.op.slot].state = "Complete"
        /\ (port[i].reserved \cup OpsIn(port[i].ready)) \cap acked = {}
        /\ Used(i) <= PORT_CAPACITY

\* A terminated process keeps no operation, port, reader claim or waiter
\* (exit_current_process and complete_process_termination).
NoDeadResidue ==
    \A t \in Tasks : sched[t] = "Dead" =>
        /\ \A s \in OpSlots : slot[s].state # "Free" => slot[s].owner # t
        /\ \A i \in Ports : port[i].owner # t /\ t \notin port[i].waiters /\ port[i].consumer # t

\* complete, async_associate, complete_as, release_current, the port's calls
\* and release_owner of async_op.rs and completion_port.rs: an operation has
\* the completion of its own handle, also after its slot was released and
\* allocated again, every accepted association has exactly one terminal
\* record, and teardown by exit or kill leaves nothing of a dead process.
RecordsExact == AsyncTypeOK /\ CompletionMatches /\ OneRecord /\ NoDeadResidue

\* wait_ready and completion_port_read: a process asleep on a completed
\* operation or on a port with a ready record is about to be signalled.
NoLostWakeup == NoLostOpWakeup /\ NoLostPortWakeup

Phase(h) ==
    IF slot[h.slot].generation < h.generation THEN "unborn"
    ELSE IF slot[h.slot].generation > h.generation \/ slot[h.slot].state = "Free" THEN "gone"
    ELSE IF slot[h.slot].state = "Pending" THEN "pending" ELSE "complete"

\* A handle is born pending for one owner, is completed at most once and,
\* once released, never names a live operation again (Table::allocate and
\* get_mut of async_op.rs), through every cancellation, exit and late producer.
Life == INSTANCE AsyncLifecycle WITH
            Handles <- Handle,
            phase <- [h \in Handle |-> Phase(h)],
            holder <- [h \in Handle |-> IF Valid(h) THEN slot[h.slot].owner ELSE None]
ImplementsLifecycle == Life!Spec

\* A wait on an operation that a producer holds ends.
WaitEnds ==
    \A t \in Tasks, h \in Handle :
        (at[t] \in {"opwait", "opsleep"} /\ op[t] = h /\ h \in jobs)
            ~> (at[t] \notin {"opwait", "opsleep"})

\* A reader that waits on a port with a ready record gets out of its wait.
PortWaiting(t) == at[t] \in {"portwait", "portsleep", "portwoken"}
PortWaitEnds ==
    \A t \in Tasks, p \in PortHandle :
        (PortWaiting(t) /\ pt[t] = p /\ PortOwned(t, p) /\ port[p.index].ready # {})
            ~> ~PortWaiting(t)
=============================================================================

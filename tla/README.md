# A verification of the WovenHat kernel

TLA+ models of the WovenHat kernel (`kernel/src`), the instances that TLC checks
and proofs that TLAPS checks. WovenHat is a monolithic Rust kernel for x86-64 with
several CPUs. User processes have one task each and enter the kernel through an
interrupt gate, so a system call is not preempted on its own CPU, but other CPUs
and the kernel's worker tasks run between any two of its critical sections. Almost
everything hard in this kernel follows from that: each call is a sequence of short
critical sections of different locks, and handles, pins, generations and one
latched event per task have to keep it together.

Contents: [the system](#the-system), [modules](#modules), [runs](#runs),
[fairness](#fairness), [proofs](#proofs), [findings](#findings),
[other behaviour worth knowing](#other-behaviour-worth-knowing),
[what is not modelled](#what-is-not-modelled).

## The system

| Part | State | Operations | Talks to |
|---|---|---|---|
| Scheduler (`task.rs`) | task table, current and outgoing task of each CPU, round-robin cursors, `event_pending` latches | dispatch, yield, preempt, block, sleep, signal, terminate, exit, reap, migrate, rebalance | everything that waits |
| Processes (`task.rs`, `userspace.rs`) | process table, descriptors, mappings, signals, environment | fork, spawn, exec, exit, wait, kill, dup, close, map, unmap | files, pipes, frames, scheduler |
| CPUs (`smp.rs`) | online state, requests, shootdown generation | offline, online, evacuation, TLB shootdown | scheduler, paging |
| Operations (`async_op.rs`) | slots with generation, owner, state, waiter, port | allocate, complete, wait, poll, cancel, release, associate | ports, scheduler, producers |
| Completion ports (`completion_port.rs`, `completion_queue.rs`) | ports with generation and consumer, record queues | create, close, reserve, publish, begin, finish, unwatch | operations, scheduler |
| Request queues (`block_io.rs`, `async_file.rs`, `async_network.rs`) | entries with id and state, one worker each | submit, take, retry, finish, collect, consume, cancel, release of an owner | operations, sockets, open files, devices |
| Sockets (`network.rs`) | user sockets with generation, pins, close state | open, connect, send, receive, close, pin, poll, retire | network queue, TCP/IP stack |
| Timers and events (`async_events.rs`, `deadline.rs`) | one-waiter objects, deadlines | create, wait, set, pump, cancel, close | operations, event worker |
| Notifications, threads (`notifications.rs`, `thread.rs`) | one bounded ring; thread records with generations | publish, take, discard; create, join, terminate, reap | processes |
| Pager (`task.rs`, `file_mapping.rs`) | bounded requests and completions, mapping records | fault, pop, populate, evict, publish, wake | scheduler, frames, swap |
| Memory (`memory.rs`, `paging.rs`, `file_frames.rs`, `heap.rs`, `swap.rs`) | frames, share counts, file-page cache, heap blocks, swap slots | allocate, share, copy on write, free, grow, evict | pager, processes |
| Pipes (`pipe.rs`) | ring, ends, epochs, waiter tables | create, clone, close, read, write | descriptors, scheduler |
| Locks (`irq_lock.rs`) | mutexes, per-CPU stack of held locks and highest rank | enter, acquire, try, exit | everything |
| VFS (`vfs.rs`, `page_cache.rs`) | nodes with generations, open files, cached pages | open, close, read, write, create, unlink, rename, mkdir, map | volume, request queues |
| FAT32 volume (`fat32.rs`, `storage.rs`, `journal.rs`, `block_cache.rs`) | FAT copies, directories, journal, path and inode records, cached sectors | create, overwrite, delete, rename, mkdir, import, write back | VFS, block queue |
| IPC (`ipc.rs`), WovenGuard (`wovenguard.rs`, `capability.rs`) | endpoints, handles with rights, shared memory, services, lineages, sandboxes | send, receive, transfer, delegate, revoke, grant, bind | scheduler, processes |
| Wi-Fi (`wifi*.rs`) | manager, link machine, supplicant and keys, recovery epochs, firmware load, interrupt mailbox | scan, join, handshake, rekey, send, receive, load, boot, interrupt | scheduler, network |
| Devices (`virtio_net.rs`, `nvme.rs`, `ahci.rs`, `xhci.rs`) | rings, queues, command slots, DMA pages | post, complete, time out | network, storage, keyboard |

What makes it hard, and what correctness means here:

* **Waiting.** A waiter checks a condition under one lock and sleeps under
  another. The latch `event_pending` has to carry every signal that arrives in
  between. Correct: nobody sleeps on a condition that holds unless a signal is on
  its way, and every such wait ends.
* **Reuse.** Slots of operations, ports, sockets, pipes, threads, handles, swap
  pages and requests are reused while answers to the previous tenant are in
  flight. Correct: an answer reaches the tenant it was made for, or nobody.
* **Hand-off.** The scheduler publishes a switch before the CPU has left the old
  stack. Correct: no two CPUs on one stack, no stack recycled under a CPU.
* **Counting.** Frames, swap slots, open files, pipe ends, shared-memory objects
  and lineages are freed by the last of several holders, some of which are calls
  in the middle of their work. Correct: every count is the number of holders.
* **Death.** A process exits or is killed at any point of its calls, and its
  tables are released one after the other. Correct: nothing of it stays, nothing
  of others is touched, no path of the teardown deadlocks.
* **Authority.** Rights are delegated in trees, recalled while they are in use and
  capped by domains and sandboxes. Correct: nobody acts with a right that no
  living ancestor gave them, or above their ceiling.
* **Bounded tables.** Every table is small and static; a full one is an ordinary
  outcome, never a lost or half-made entry.
* **Devices.** A command that was given up may still complete, into memory that
  is used again. Correct: a success is the success of the caller's own command.
* **Power loss and device errors.** Correct: what was reported stored survives, a
  refused write leaves the volume consistent, and an interrupted update is
  finished or undone at the next mount.

`PROJECT.json` lists every component with its status and every hazard with the
line where it bites and the properties that cover it.

## Modules

Every action is one critical section (or one device access, or the physical
stack switch), named after the function it is part of. The variables stand for
the statics and struct fields their comments name.

| Module | Code | Abstraction |
|---|---|---|
| `Scheduler` | the scheduler of `task.rs` | `cur` is what the table says, `phys` the stack a CPU is really on. Deadlines expire at any tick. A task's kind says whether it is a process, may migrate and calls blocking primitives. |
| `CpuHotplug` | `smp.rs`, the evacuation in `task.rs` | One request at a time with its time-out; the checkpoints of the CPU that comes and goes; shootdown as generation, request bits and acknowledgements; `stale` is the set of CPUs whose change a CPU has not flushed. The proofs are at the end. |
| `Processes` | the process calls of `task.rs`, `syscall.rs`, `userspace.rs` | A call is the sequence of its critical sections; files and pipes are objects with reference counts, address spaces are names. |
| `AsyncRuntime` | `async_op.rs`, `completion_port.rs`, the latch of `task.rs`, the asynchronous calls of `syscall.rs`, owner teardown | Signals are sent after the locks are dropped, so the signals an actor still owes are state. Ready records are a set (their order is `CompletionQueue`'s). Producers are workers that hold handles. |
| `AsyncLifecycle` | what an operation handle promises | unborn, live, finished, gone, once each and in this order, with one holder. |
| `CompletionQueue` | `completion_queue.rs` | A record is found by its operation, so the array is a function of it. Renumbering at the largest sequence number is modelled as such. |
| `PortFifo` | what a port promises | Reserved cookies and a FIFO of ready records. |
| `RequestQueue` | `block_io.rs`, `async_file.rs`, `async_network.rs`, the socket table of `network.rs`, open files of `vfs.rs`, their calls and teardown | `Kind` selects the queue; they differ in a few operators. A device or the TCP/IP stack answers a request or makes it wait. |
| `Events` | `async_events.rs`, `deadline.rs`, the sleeping calls | The clock is a number that ends, so the saturation of deadlines is reached. The worker's pump is one step per object. |
| `Notifications` | `notifications.rs` | The ring with its head, tail and removal from the middle; `owed` is what each recipient should still see. |
| `Threads` | `thread.rs` | Records with saturating generations; `given` and `stored` remember every id handed out and what was stored through it. |
| `Pager` | the fault handler, the pager task and eviction | A page is present, swapped or absent; a mapping record is copied where the code copies it. |
| `FrameAllocator` | `memory.rs` | Frames are numbers, ranges and domains as in the code, the return stack and the bitmap separate. |
| `FramePool` | what the allocator promises | A set of frames in use. |
| `SharedFrames` | `paging.rs`, `file_frames.rs` | Two address spaces, the table of counts, the cache of file pages, write-back by `msync`, `munmap` and eviction in steps; contents are numbers, `view` and `truth` what a process and a file should hold. |
| `Heap` | `heap.rs` | Addresses are numbers, blocks with headers and alignment; growth is claimed and mapped chunk by chunk. |
| `Swap` | `swap.rs` and its callers | Slots with generations and counts; a write to the disk takes several steps and may fail. |
| `Pipe` | `pipe.rs`, its calls and descriptors | One slot, so every new pipe reuses it. Bytes are numbered in the order they are written. The proofs are at the end. |
| `LockOrder` | `irq_lock.rs` | Mutexes, ranks, the tracker and its panics, for any set of nested acquisitions. |
| `KernelLocks` | the nested acquisitions in the kernel | The stacks of locks that each path holds, composed function by function, under `LockOrder`. `Uses` switches on what processes do at their death and under memory pressure. |
| `Vfs` | `vfs.rs`, `page_cache.rs`, the volume calls it makes | Paths are short sequences of names; the calls release the registry around each access to the volume, and look again after it. |
| `FatTree` | `fat32.rs` | Clusters, both copies of the FAT, directories of a few slots, short and long names; every sector write may be refused. A path call is one step; calls are not interleaved. |
| `Persistence` | `storage.rs`, `journal.rs`, `fat32.rs`, flushes | Files of one cluster in one directory; content is the version that wrote it. Cached and durable sectors are apart; any cached sector may be written back at any time. |
| `BlockCache` | `block_cache.rs` | Entries with age, validity and dirty bits, over a device that may refuse any transfer. |
| `SectorStore` | what the cache promises | An array of sectors, of which the ones since the last flush may be lost with the power. |
| `Lineage` | the registry of `wovenguard.rs` | Slots with generations, parents, rights and child counters; used by the next two. |
| `Authority` | grants, revocation and sandboxes in `task.rs`, `capability.rs`, `wovenguard.rs` | Capabilities and domains are small sets. A fork copies the parent's authority in one critical section and publishes the child in another. |
| `Ipc` | `ipc.rs` and the calls on it | Messages carry at most a handle; bytes are left out. Mapping shared memory is several steps. |
| `WifiSession` | `wifi_wpa2.rs`, `wifi_rsn.rs`, `wifi_gtk.rs`, `wifi_ccmp.rs`, `wifi_recovery.rs`, the backend | Keys are symbolic: a pairwise key is the pair of its nonces. `sent` and `heard` are the packet numbers used, with the key and the activation that used them. |
| `WifiLink` | `wifi.rs`, `wifi_link.rs`, `wifi_scan.rs` | One machine per attempt, several with one manager; peers answer anything at any time, also to a machine from before a loss of power. |
| `WifiRuntime` | `wifi_runtime.rs`, `irq_mailbox.rs` | Handlers of several CPUs read, publish and signal in separate steps. |
| `WifiFirmware` | `wifi_firmware*.rs`, `wifi_hw.rs`, the AX200 boot | Images are section lists over small ranges; the device reads and writes its buffers when it likes. |
| `VirtioNet`, `NvmeQueue`, `AhciPort`, `Xhci` | the drivers of that name | Driver and device in turns over the shared rings; indices wrap, time-outs happen at any wait. |
| `SchedulerProofs`, `AsyncTables`, `AsyncProofs`, `ServiceProofs`, `MemoryProofs`, `DeviceProofs` | | Theorems about the modules above, see [Proofs](#proofs). |
| `MCServices`, `MCCore`, `MCObjects`, `MCProgress` | | Instances for TLC. |

The components are composed where they share state: `AsyncRuntime` has
operations, ports, the latch and the calls; `RequestQueue` has queues, workers,
pins and calls; `Processes` has descriptors, mappings, loads and waits;
`KernelLocks` with `LockOrder` has all of the kernel's locking; `Authority` and
`Ipc` both work on `Lineage`. Elsewhere one module assumes what another shows:
`AsyncRuntime` abstracts a request queue to "a worker holds a handle", and
`RequestQueue` abstracts the operation table to "a handle is used once"
(`AsyncLifecycle`); `Vfs` and `Persistence` use a store of sectors, which is
`SectorStore`; `SharedFrames` and `Heap` take frames from a pool, which is
`FramePool`.

Some choices worth knowing when reading them:

* Generations, epochs, sequence numbers and ring indices are bounded by small
  constants that stand for the largest value of their type, so the code's
  behaviour *at* the largest value (retire the slot, refuse, wrap, saturate,
  renumber) is exercised.
* A killed process is torn down by another task under the scheduler's lock;
  an exiting one tears itself down. The two release different things, and the
  modules keep them apart.
* Some variables are not in the code: they remember what was promised (`truth`,
  `view`, `given`, `owed`, `known`, `stored`, `sent`) or that a race the code does
  not exclude has happened (`raced`, `crossed`, `bypassed`, `forfeits`, `missed`,
  `lost`, `wounded`, `amiss`, `stray`, `again`). A property with such an exception says so, and the
  exception is described [below](#other-behaviour-worth-knowing).
* A definition whose name ends in `Mutant` is a faulty variant of the definition
  below it. It is not used by any specification. It is there to show that the
  property it is listed with in `PROJECT.json` notices that fault.

## Runs

Components that share no state at a level of abstraction need not be
interleaved. The harnesses therefore hold several instances and a variable
`subject` that is chosen in the initial state: one instance moves, the others stay
where they are, and the states of a run are the sum of the instances' states. A
property of a harness says for each subject what it means there. `fuel` bounds the
calls of a behaviour for modules without a bound of their own.

A component about which there are theorems is extended by its harness and keeps the
variables it declares, so that the run and the theorem name the same definition; the
others are instances over shared variables `x1`, `x2`, ...

**`services`** (2.2 million states), the services a process calls, the files and the
devices below:

| Instance | Bounds |
|---|---|
| record queue | capacity 3, four operations, largest sequence number 5 |
| runtime | one process, two operations, one port, batches of 2 |
| authority | the kernel task and two tasks of any domain, two capabilities, three lineages, 6 calls |
| IPC | two processes with two endpoints and queues of 1 (7 calls); two with one shared-memory object and one mapping (11); two tasks that block on one endpoint (11) |
| timers, mailboxes, threads | one object with two generations until the clock ends at 4; two recipients and a ring of 3; two owners, two records, two generations |
| processes | three pids in a table of two, with spawn, exec, signals, groups; with descriptors and mappings of two objects (4 calls each, every call in its steps) |
| VFS | a directory moved with a file in it (4 calls), all calls on a volume with one file (3), reads of two files through one cached page while names move (6); two tasks each |
| FAT tree | 5 clusters, two directories of three slots, a long name, one refused write, 3 calls |
| Wi-Fi | supplicant with two nonces, two group keys and replay counters to 2 (9 calls), and one whose exchanges succeed, over several associations (16); two interrupt owners on two CPUs; five firmware images over six bytes; start-up with four frames and a ring of 2; three access points, two supported, scan lists of 2, three link machines |
| devices | two receive buffers with indices modulo 4 and queues of 0, 1, 2, 4 and 8 entries; three commands on an NVMe queue of 3, four on an AHCI port; an xHCI ring of 3 |

It shows that completions, expirations and notifications arrive once and wake whoever
waits (`DeliveredExact`); that a port's records keep their order (`FifoOrder`,
`ImplementsFifo`, `SequencesFresh`); that authority is bounded and only passed on by
delegation (`AuthorityBounded`, `OnlyDelegation`), and no step revives, reaps or
ignores what it may not (`StepsAllowed`); that objects are counted exactly
(`ObjectsExact`) and thread ids unique (`IdsNameOneThread`); that reads see the file,
names form a tree and the volume survives a refused write (`FilesServed`); that an
access point is joined only by its own answers (`AssociationEarned`), interrupts find
their owner (`InterruptsKept`), keys belong to the association, only move forward and
repeat no packet number within an activation (`WifiKeys`, `KeysOnlyForward`); and that memory shared
with devices, and the commands given to them, are the driver's own (`DevicesExact`).

**`core`** (1.2 million states), processors and memory:

| Instance | Bounds |
|---|---|
| scheduler | 2 CPUs, 2 idle tasks and 2 others, pinned processes that block and migratable jobs that do not |
| runtime | 2 processes that share one operation slot and one port slot for two generations |
| frames | two ranges of three frames in two domains, a return stack of 2, contiguous requests of 2 and 3 |
| pages, heap, swap | two address spaces, three frames and two tasks that write back or unmap a shared page (8 calls); a heap of 8 that grows twice to 16 on two CPUs (11); one disk and one memory slot, two holders, three generations (12) |
| sector cache | 3 sectors, 2 entries, any refusal |

It shows that stacks are exclusive and never recycled under a CPU, hand-offs are
tracked, a CPU can always find a replacement, tasks stay on their CPUs and exits
are truthful (`StackExclusive`, `NoStackRecycled`, `HandoffTracked`,
`ReplacementReady`, `TasksPlaced`, `ExitTruthful`); that completions match their
handles, associations have one record and wakeups are not lost (`RecordsExact`,
`NoLostWakeup`, `ImplementsLifecycle`); that no frame is lost or handed out twice
(`NoFrameLost`, `ImplementsPool`), swap slots are counted and return what was stored
(`SwapExact`), pages, counts and the heap are exact (`MemoryExact`); and that the cache
is a store (`ImplementsStore`).

**`objects`** (3.3 million states), what tasks wait on and share:

| Instance | Bounds |
|---|---|
| pager | two processes and one page, killed, signalled and under memory pressure; undisturbed with two pages |
| pipes | two processes on a ring of 2 with four bytes, waiter lists of 1 and two pipes in one slot; three processes on a ring of 1 |
| locks | two CPUs on all lock paths |
| hot-plugging | 2 CPUs, 3 tasks of three kinds |
| volume | one file written twice with a power loss; two names with a device error |
| request queues | a socket slot with two queue slots; open files and the block queue with two processes and one slot |

No sleeper is left behind (`NoSleeperLeft`); a pipe is a queue, its ends are counted
and its readers and writers woken (`PipeExact`); no path panics or deadlocks
(`LocksSafe`) because the paths climb one order (`PathsOrdered`); CPUs come and go
without stranding a task or a stale translation (`HotplugSafe`); stored files survive
and recovery finishes (`VolumeKept`); requests pin their objects, are answered with
their own results once, and leave nothing of a dead process (`RequestsExact`).
`ObjectsTyped` is the type invariant.

**`progress`** (liveness, with the fairness below): waits on operations, ports, faults,
pipes, timers and Wi-Fi interrupts end, and an exiting process gets rid of its
requests and sockets even when the peer is silent (`WaitsEnd`); a killed computing
process is retired (`KillAcknowledged`); the round robin starves nobody (`ReadyRuns`).

**`scheduler_services`, `scheduler_kill_lost`, `pager_remote`, `lock_pressure`,
`lock_teardown_pipe`, `lock_teardown_file`, `persist_owner`, `sockets_killed`**: the
smallest instance with the behaviour; what the code does against what a comment or
document says, see [Findings](#findings).

Why the bounds suffice for what is asked: two CPUs are enough for every pairwise
race of the scheduler, and a third task makes a Ready one wait behind two others
(three processes on one CPU in `progress`). One slot with two generations makes
every reuse meet its predecessor's answers. Two bytes of ring with four written,
two buffers with indices modulo 4 and a command queue of 3 wrap around. A lock
circle of the kernel's paths needs two CPUs; larger ones are excluded by proof.
Three lineages are a grandparent, a parent and a child, or two siblings. A
handshake needs two nonces to be confused with its predecessor. Tables of one or
two records fill up, and a shared object with two holders has a first and a last
release. The bounded call counts are the lengths at which every action of the
module fires and every listed fault is noticed.

`CHECK_DEADLOCK FALSE` is set because all processes may have exited, all bounds
may be used up, or every task may be asleep with no event due: the system may
stop there. The three lock runs and the two scheduler runs check deadlock.

## Fairness

Fairness is weak throughout, except for one strong condition named below, and is
stated per step of each component:

* *Scheduler:* the stack switch and its completion run with interrupts masked and
  cannot stop half way; the timer interrupt of every CPU ends a quantum.
  `scheduler_kill_lost` assumes in addition (strong fairness) that a process that
  keeps running keeps returning from system calls, where it looks at termination
  requests; the violation holds even so.
* *Runtime:* a process inside a call, or Ready, runs on; a worker with a request
  completes it; an actor that owes signals sends them. Justified by the scheduler
  (`ReadyRuns`) and by the workers' loops. Nothing is assumed of user code,
  timeouts, unrelated signals and kills.
* *Pager, pipes:* the pager task and a process inside a call are scheduled.
* *Request queue:* the worker is scheduled, a teardown that began is finished,
  the main loop polls the network and time passes. Nothing is assumed of the
  peer.
* *Timers:* the event worker and a process inside a call are scheduled. The clock
  needs no fairness: the property is about timers that are due.
* *Wi-Fi interrupts:* the worker is scheduled, and a handler that has read the
  mailbox's epoch runs on to its end, as interrupt handlers do. Nothing is assumed
  of the device or of the owner.

## Proofs

`tlapm` checks eight modules: six of proofs only, and `CpuHotplug` and `Pipe`, whose
proofs follow the model. The theorems hold for all values of the constants that satisfy
the assumptions named here; TLC evaluates the assumptions that are `ASSUME`d in every
run of a harness that extends the module. Each proof has the same shape: an inductive
invariant, one lemma per operation of the tables or per action, a lemma that combines
them over `Next`, and the theorems. Every inductive invariant that is not just the
property with its types was checked by TLC on the bounds of the runs before it was
proved.

**The scheduler** (`SchedulerProofs`, from `SchedulerAssumption`: at least one CPU, more
slots than CPUs). The properties of `core` are not inductive: that a CPU can always
find a replacement depends on the idle task being where it belongs, that depends on
what can be woken or moved, and so on. The inductive invariant `IInv` is the type
invariant with `Placement` (each CPU's current task is Running and its own, each
Switching task is the outgoing one of its CPU and vice versa), `AffinityHolds`,
`IdleStays`, `KindsKnown`, `ExitTruthful` and, if no kind of task both migrates
and blocks (`BlockersPinned`), `Leaving`: the task whose stack a CPU is leaving
stays with that CPU. `SwitchKeeps` treats the hand-off that six actions share,
`TableKeeps` the actions that only change the state of one task. `StacksExclusive`
and `StacksNeverRecycled` have `BlockersPinned` as a hypothesis, and
`scheduler_services` shows that it is needed: the asynchronous I/O services migrate
and block.

**The locks** (`SchedulerProofs`, no assumption beyond `Sound`, the types of ranks and
paths). `RanksAlwaysTracked` and `OwnersAlwaysRecorded`: the tracker is right for any
nesting of locks. `DisciplineNeverPanics`: if paths respect the ranks, never take a
lock twice and nest at most `MAX_DEPTH`, the tracker never stops the kernel.
`ClimbingNeverDeadlocks`: if there is *some* order of the locks that all paths
climb, no set of CPUs waits in a circle; ranks alone do not give that order, as
equal ranks may nest. The argument takes the set of waiting CPUs, picks the one
that waits for the highest lock, and finds its owner waiting for a higher one.
`LocksAlwaysSafe` puts the two together. Their hypotheses are checked for the kernel's
paths by `PathsOrdered` in the run `objects`, with an explicit order (`KernelLevel`).

**The asynchronous runtime** (`AsyncTables`, `AsyncProofs`, from `AsyncAssumption`: an
`Option` has a value of its own, the capacity and the largest generation are numbers;
nothing is asked of the sets of tasks, workers, slots and ports).
`RecordsAlwaysExact`, `WakeupsNeverLost`, and `OperationsLiveOnce`, the refinement of
`AsyncLifecycle`. What the properties leave out, and the invariant `AsyncInv` adds, is
how the two tables speak about each other while their locks are taken one after the
other. `SlotSound`: an operation's port has a generation that exists, and while that
port is open it has the same owner and, until the operation is complete, a record
reserved. `PortSound`: reserved records are of pending operations joined to this very
generation of the port; ready ones are of generations that have been, so that a slot's
next tenant cannot be mistaken for them. `PortsApart`: a record is ready in one place.
`CallSound`: a task in a call has the handle it works on, and what it copies out is
still in the queue. `WakeSound`: from the moment a task registers until it is Blocked it
is registered, or some actor owes it a signal, or its latch is set; the four places of
the wait loops differ in which of the three are left. `AsyncTables` proves what
allocation, completion, release, association, publication, acknowledgement and the
teardown do to the tables, for any caller; `AsyncProofs` shows for each step of a task
that it leaves its own call in a sound place and spares the others (`Spared`: what they
own stays theirs, and a registration of theirs is only ever exchanged for a signal).

**Hot-plugging** (`CpuHotplug`, from `HotplugAssumption`: at least one CPU and one slot).
`HotplugAlwaysSafe`. `HotplugSafe` says nothing of a CPU in the middle of its protocol;
`HotplugInv` says where it can be. `Phases`: the state word and the bit in the online
mask follow the CPU's place in `offline_checkpoint` or `online_checkpoint`, and only the
CPU that the outstanding request names may be between two places, so that a time-out,
a cancellation and the CPU's claim agree. `TasksHeld`: masks never name a CPU beyond
the point where it was evacuated, every CPU has one idle task and leaves while running
it. `Shootdowns`: whoever has an old translation is someone the shootdown under way
still waits for, and no CPU joins or leaves meanwhile. One lemma per step of a CPU, of
the requester, and of the calls that wake, migrate and spawn tasks.

**Pipes** (`Pipe`, from `PipeAssumption`: finitely many processes, a ring of at least
one byte). `PipesAlwaysExact`. The ring's arithmetic is linear because an index is
never two rounds ahead (`ModWrap`). `PipeInv` adds to `PipeExact` that a call's process
keeps the end the call is on, so that the slot is not reused under it (`CallsHeld`), that
a free slot is empty (`EndsCounted`), that the tail is where the bytes end
(`RingSound`), and `ReaderSound` and `WriterSound`: a task that has registered stays
registered while what it waits for has not happened, or someone is about to signal it,
or is about to take the list it is on, or its latch is set. The bound on the waiter
list needs no hypothesis: a task that finds it full does not sleep.

**Authority** (`ServiceProofs`, from `LineageAssumption` and `AuthorityConstants`: the
kernel task, the domains and their ceilings). `AuthorityAlwaysBounded`: a live lineage
is owned by a task that is present, its parent is live and holds at least its rights,
child counters are exact, and effective capabilities stay below the domain's ceiling.
The invariant `AuthInv` adds types. Allocation takes an inactive slot, which no live
node names as its parent. Revocation is the hard step: it clears a set of nodes, and
`SubtreeClosed` and `ClearedNodes` show that the set is closed under children, so that
no survivor loses its parent and a surviving parent's counter falls by exactly the
children that went. `OnlyDelegationGives` states the action property under the
hypothesis `NoWrap`, that the 24-bit generation of a slot does not wrap in the
behaviour; with a wrap an old binding would name a new node.

**Threads** (`ServiceProofs`, from `ThreadConstants`). `IdsAlwaysNameOneThread`: below
the last generation an id is given out once, and the record that answers to it is that
thread's. The invariant says that an id given out is of a generation its slot has
reached, and one of the current generation means that the record is in use, except
at the last generation, where the counter saturates.

**Completion queues** (`ServiceProofs`, from `QueueAssumption`: a positive capacity, a
largest sequence number above it, finitely many operations).
`SequencesAlwaysFresh`: published records have distinct sequence numbers, all
below the next one. The invariant with the type invariant is inductive. The only
hard step is a publication at the largest number: all published records are then
numbered by their rank, and `NumberedFresh` with `RankOrder` shows that ranks are
distinct, keep the order and leave room for the next number, which needs the
capacity to be smaller than the largest number. `PublicationOrder`: no step
reverses two published records.

**The sector cache** (`DeviceProofs`, from `CacheAssumption`: at least one entry, a
positive largest age). `CacheAlwaysCoherent`: a sector has at most one valid entry and
a clean entry holds what the disk holds, also after a refused write-back.
`CacheIsAStore`: the cache implements `SectorStore`. The mapping sends a sector to the
data of the entry that keeps it and to the disk's otherwise; each operation is one or
two puts and write-backs, and the lemmas say what one of them does to that content. The
error paths, where a victim could not be written and the call fails half way, map to a
refusal that changes nothing.

**Physical frames** (`MemoryProofs`, from `AllocatorAssumption`: a non-empty list of
non-empty disjoint ranges, as `init` builds from the boot loader's map).
`FramesNeverLost`: a returned frame is on the stack once or waits in the bitmap at or
above its range's hint, and both counters are exact. `AllocatorIsAPool`: the allocator
implements `FramePool`. The hard steps are the scan, which may raise a hint only past
frames it has seen in use, and a contiguous allocation that takes frames out of the
middle of what waits.

**Swap** (`MemoryProofs`, from `SwapAssumption`: finitely many mappings, at least one
generation). `SwapAlwaysExact`. A write, a read and a copy of a slot take several
steps without the lock; `SwapInv` says for each mapping where its bytes are at each
step (`HolderPlaced`) and for each slot whose they are (`SlotPlaced`), so that a slot
released and reserved again under a reader is noticed by its generation.

**Wi-Fi** (`DeviceProofs`). *Interrupts* (from `RuntimeConstants`: the option value is no
binding, the worker is no owner), `InterruptsNeverStranded`: the mailbox belongs to
the live binding, and pending bits find a worker that is awake, about to be woken, or
holds a permit; the invariant adds where the worker may sleep and that it signals a
task. *Joining* (from `LinkConstants`: `NoStation` is no access point and `NoMachine` no
machine), `AssociationAlwaysEarned`, for any number of machines: the invariant adds to
the property that a machine with a request outstanding has a candidate, and that the
candidate of a pending association has answered the authentication. One lemma
(`AttemptEnds`) treats the end of an attempt, whichever machine reports it to a manager
that waits for this machine, for another one or for none. *Keys* (from
`SessionAssumption`: types of the counters, an option value of its own):
`KeysAlwaysForward` and `PacketNumbersUsedOnce`. The invariant `NumbersInv` numbers the
activations of a session: every packet number in the histories was used by an
activation so far under a key of an exchange that has been activated, the numbers of
the current activation are not above the counters of the bridge in use, and an
activation before it had another key, unless this very exchange was activated again.
No hypothesis about the width of the epoch is needed.

Only model-checked:

* Liveness (`WaitsEnd`, `KillAcknowledged`, `ReadyRuns`): fairness and `ENABLED` are out
  of this prover's reach.
* `ImplementsFifo` and the ring of `Notifications` (in `DeliveredExact`): the cursor of
  a snapshot walks the records in order, and a recipient's notifications are picked
  out of the ring (`SelectSeq`), by recursion over a sequence; what a recursive
  definition computes needs an induction over data that the provers cannot do.
* What `Ipc`, `FatTree` and `VirtioNet` show (in `DeliveredExact`, `ObjectsExact`,
  `StepsAllowed`, `FilesServed`, `DevicesExact`): these modules follow lineages, chains
  of clusters and descriptors with recursive operators, for the same reason.
* The rest of the harness properties, for which no proof was attempted: the pager and
  the request queues (`NoSleeperLeft`, `RequestsExact`), processes and timers
  (`ObjectsExact`, `DeliveredExact`), shared pages and the heap (`MemoryExact`), the VFS
  and the volume under power losses (`FilesServed`, `VolumeKept`), and the firmware and
  disk drivers (`DevicesExact`).
* `PathsOrdered`: a fact about the finitely many paths of this kernel, which TLC
  evaluates; the theorems about locks rest on it.

## Findings

Eight runs show the code doing something a comment or document rules out.

* `scheduler_services`: `wait_for_event_until` publishes Blocked before its CPU has
  left the stack. A migratable service can be woken, moved and dispatched
  elsewhere inside that window: two CPUs on one stack.
* `scheduler_kill_lost`: `finalize_switch` looks for a termination request on the
  outgoing task only if that was Running at the switch. A process that carries a
  request into a wait stays Blocked.
* `pager_remote`: a request is visible to a pager on another CPU before its
  requester has blocked; the wake is dropped.
* `lock_pressure`: when memory runs out, `evict_one_mapped_file_page` evicts with the
  process table locked (rank 20), and unmapping takes the paging lock (rank 10) under
  it: the tracker panics. The self tests call `evict_file_page` without the lock.
* `lock_teardown_pipe`: closing a dead process's pipe end under the scheduler's lock
  signals its waiters under the same lock: the tracker panics.
* `lock_teardown_file`: closing its open file takes the node registry under the
  scheduler's lock, a permission check takes them the other way round.
* `persist_owner`: inode records are keyed by first cluster and survive an
  overwrite; after a power loss the import takes the previous file's owner.
* `sockets_killed`: the teardown of a killed process does not close its sockets.

The passing runs are about the system without these behaviours, in the way the
instances say: processes are pinned and jobs that migrate do not block, faulting
processes share the pager's CPU where a wakeup is asked for, no process is killed
with descriptors open and no page is evicted in the lock paths, processes exit in the network instance.
Apart from that the passing instances keep kills, signals and errors on.

## Other behaviour worth knowing

Met while translating the code. The modules contain it; where it would break a
property, a variable remembers that it happened and the property makes the
exception in so many words.

*Processes and scheduling.*
* A killed process releases less than an exiting one: besides its sockets, its
  threads, notifications and the terminal's foreground stay; an exit in turn does
  not publish `ChildExit`, a kill does. Zombies of a dead parent are never reaped.
* A second signal overwrites `pending_signal`; `exec` keeps signal handlers; a signal
  is lost when its frame cannot be written to the user stack.
* The resources of a killed task that has just published Blocked are released
  while its system call still runs to the switch (task.rs:1000).
* `load_elf` returns early on errors without freeing the new address space; a kill
  during `mmap_file_private` leaks the pages mapped so far; `open_current` leaks the
  open file when the descriptor table is full (task.rs:2834, `lost` in `Processes`).
* The pager writes back the mapping record it copied before it populated the page
  (task.rs:1966): an eviction in between would lose its swap slot. Eviction panics before
  it gets there (`lock_pressure`), so `Pager` has it and no property rests on it.
* A full completion table drops a fault's result (task.rs:1969), and a stray signal
  makes a faulting process take a missing completion for a failure (task.rs:3607).
* Hot-plugging: `online_checkpoint` does not flush the TLB (`missed` in `CpuHotplug`);
  a reschedule interrupt between a refused checkpoint and `hlt` waits for the next
  one; a CPU-bound job outranks the idle task, so the request to take its CPU away
  times out; affinity bits are not restored when a request is cancelled.

*Waiting and messages.*
* A woken IPC receiver that is refused leaves the message to a waiter that sleeps on
  (`forfeits` in `Ipc`); when the pages of a shared mapping cannot be removed
  and its table filled up meanwhile, `unmap_shared_memory` drops the record and keeps
  the reference, so the object is never freed (`stray` in `Ipc`, counted exactly).
* Timer pulses that the pump takes for an operation cancelled meanwhile are lost;
  `sys_sleep_until` returns early on any pending event.
* A pipe write that is interrupted after a part loses the count of that part
  (pipe.rs:185); network sends are served in the order of slots, not of submission
  (async_network.rs:78).
* Thread ids at the largest generation are given out again, against "a stale handle
  from the terminated process cannot address a subsequently created thread".

*Authority.*
* `sandbox_profile_for_process` compares a task id with a process id, and `reap_dead`
  recalls IPC lineages by task id, which may be another process's id.
* A revocation or a sandbox of the parent between the two critical sections of its fork
  does not reach the child, which keeps the copy made before (`BeginFork`, `FinishFork`).
* "Do not replace intrinsic authority with a revocable child token" (task.rs:3848)
  no longer holds once a root lineage was issued for the capability.

*Files.*
* A shared file page may be loaded while the file is written, and a write-back copies a
  page and writes the copy later: it overwrites a write of the file in between, and a
  store made after the copy of an unmapping is lost (`raced` in `SharedFrames`; the
  pages and the file are the last value written until then); overlapping renames and unlinks, or a persist that races one,
  bring back an old name (`crossed` in `Vfs`); `prepare_shared_file` succeeds without
  materializing a node that changed (`bypassed`).
* FAT: `create_long_file_in_directory` never looks for the existing long name
  (fat32.rs:2358, against "Create or overwrite" at 2919); `mark_lfn_prefix_deleted`
  stays within one sector and compares no checksum; a refused write of the second
  FAT copy in `extend_directory_chain`, or of a rename's rollback, leaves the volume
  `wounded`. Concurrent updates of the FAT are not serialised (block_io.rs:463),
  which docs/audit-stage6-lock-order-2026-09-16.md:127 leaves open.

*Wi-Fi.*
* Connecting anew while connected clears the association but not the recovery
  controller's state; a group key is stored though its reply had no room; a MAC-access
  time-out leaves the request asserted. `tick_backoff` is called by self tests only.
* A link machine does not know the power of the radio: one from before a loss of power
  still answers, and the manager takes its end for that of the attempt it waits for
  (wifi.rs, `association_complete`). A failed or associated machine has no way back; the
  next attempt needs another one.
* `activate_from_wpa2` accepts the same completed exchange again after a disconnection, and
  starts its packet numbers again under the same pairwise key (`begun.again` in
  `WifiSession`, the only way a number repeats). Its callers have to begin a new
  exchange first.
* Giving up a firmware load frees the chunk's buffer though the device may still read it,
  and MAC access may be released under a load: `WifiFirmware` leaves both to the caller,
  as the interfaces do, and its properties hold up to that point.

*Devices.*
* NVMe: a completion that does not match is never consumed, so the queue stays stuck; a
  command whose doorbell could not be mapped is published by the next doorbell; a device
  that completes a command while it works on one that was given up may move the latter's
  data through the shared page (`overtaken`). AHCI: the late transfer of a command that
  was given up lands in the page of the next one (`clobbered`). xHCI: `Ring::push`
  rewrites the link entry with the toggled cycle bit and slots are reused without looking
  at entries that were given up (`lapped`). In this kernel only boot self-tests call
  these three (main.rs:2456-2668).
* virtio-net: a receive queue smaller than the eight buffers is accepted; the descriptors
  past its end overwrite the available ring behind the table, which then holds anything.
  `BuffersCirculate` and `FramesIntact` are about queues with a descriptor for each
  buffer. An unknown used id loses its buffer, and a failed set-up of the transmit queue
  frees memory the device already knows.

## What is not modelled

* Boot, ACPI and PCI discovery, interrupt tables, the start of APs by INIT and SIPI,
  self tests and measurements: sequential, without a protocol.
* Register-level drivers with sequential callers (ATA, audio, PS/2, legacy timers,
  CPU probing), reset and identification of the controllers (nvme.rs:161-263 and their
  like): the effect of a device, an answer or an error, is in the modules above.
* Locks that no path nests with another one, what only test builds take, and the
  heap's lock, of the highest rank, under which nothing is taken.
* Parsers (ELF, GPT, firmware TLVs, 802.11 elements) and ciphers: sequential functions
  on bytes; keys are symbolic.
* Console, graphics, shell, log and device registries: no protocol between callers
  but for the terminal's foreground process.
* Credentials, permission bits and symbolic links of paths, audit records, and the
  path and device rules of sandbox profiles.
* Concurrent FAT operations: `Persistence` and `FatTree` serialise them, the code does
  not (above). Power losses are in `Persistence` only, long chains and names in
  `FatTree` only.
* The TCP/IP stack (smoltcp), an external library: modelled as data that arrives,
  leaves or stays. DHCP, DNS and ICMP clients are not modelled.
* Weak memory: the kernel's shared state is under locks; the few atomics outside
  them (shootdown, hotplug, mailbox) are modelled as sequentially consistent steps.
* User programs, the user library and the image build.

----------------------------- MODULE MCObjects ------------------------------
(***************************************************************************)
(* What tasks wait on and share, for TLC: the pager, pipes, the kernel's   *)
(* locks, the processors that come and go, the files of the FAT32 volume   *)
(* and the request queues of the I/O workers.  A behaviour exercises one   *)
(* of them, its subject.  The locks, the processors and one instance of    *)
(* the pipes have variables of their own, which the theorems about them    *)
(* speak of; every other subject keeps its variables, in the order its     *)
(* module declares them, in x1, x2, ...                                    *)
(*                                                                         *)
(* The locks are those of two CPUs on the kernel's paths, without the      *)
(* teardown of killed processes' descriptors and without asynchronous file *)
(* requests.  The processors are the bootstrap CPU and one that comes and  *)
(* goes.  The pipes of the module's own variables are those of two         *)
(* processes, with a ring that wraps around and a slot that is reused.     *)
(***************************************************************************)
EXTENDS KernelLocks, CpuHotplug, Pipe, TLC

CONSTANTS p1, p2, p3

VARIABLES subject, x1, x2, x3, x4, x5, x6, x7, x8, x9, x10, x11

xs == <<x1, x2, x3, x4, x5, x6, x7, x8, x9, x10, x11>>

Symmetry == Permutations({p1, p2, p3})

(* Two processes, one on another CPU than the pager that is killed at any  *)
(* time and one signalled at any time, with memory running out.            *)
Faults == INSTANCE Pager WITH
    MAX_PAGER_REQUESTS <- 2, Procs <- {1, 2}, Pages <- {0},
    Remote <- {1}, Killable <- {1}, Signalled <- {2}, Pressure <- TRUE,
    pc <- x1, page <- x2, mapping <- x3, mapped <- x4, entries <- x5, completions <- x6,
    pager <- x7

(* Two undisturbed processes of the pager's CPU.                           *)
LocalFaults == INSTANCE Pager WITH
    MAX_PAGER_REQUESTS <- 2, Procs <- {1, 2}, Pages <- {0, 1},
    Remote <- {}, Killable <- {}, Signalled <- {}, Pressure <- FALSE,
    pc <- x1, page <- x2, mapping <- x3, mapped <- x4, entries <- x5, completions <- x6,
    pager <- x7

(* Three processes, so that two wait on the same end.                      *)
SharedPipes == INSTANCE Pipe WITH
    Procs <- {p1, p2, p3}, PIPE_BUFFER <- 1, MAX_WAITERS <- 2,
    MaxEpoch <- 1, MaxCall <- 1, MaxSent <- 2,
    pipe <- x1, epoch <- x2, fds <- x3, call <- x4, latch <- x5, sent <- x6, received <- x7

(* One file that is written twice, with power losses and an inode table    *)
(* that fills up.                                                          *)
Files == INSTANCE Persistence WITH
    Paths <- {"a"}, Users <- {"user"}, Clusters <- {2, 3}, MaxVersion <- 2,
    JOURNAL_CAPACITY <- 1, PATH_CAPACITY <- 1, INODE_CAPACITY <- 1,
    MaxFaults <- 0, MaxCrashes <- 1, None <- NoCpu,
    disk <- x1, durable <- x2, node <- x3, pc <- x4, tx <- x5, todo <- x6, latest <- x7,
    claims <- x8, synced <- x9, faults <- x10, crashes <- x11

(* Two names on a device that returns an error, in tables that fill up.    *)
Volume == INSTANCE Persistence WITH
    Paths <- {"a", "b"}, Users <- {"user"}, Clusters <- {2, 3}, MaxVersion <- 1,
    JOURNAL_CAPACITY <- 1, PATH_CAPACITY <- 1, INODE_CAPACITY <- 2,
    MaxFaults <- 1, MaxCrashes <- 0, None <- NoCpu,
    disk <- x1, durable <- x2, node <- x3, pc <- x4, tx <- x5, todo <- x6, latest <- x7,
    claims <- x8, synced <- x9, faults <- x10, crashes <- x11

(* A process that exits with requests on one TCP or UDP socket slot, whose *)
(* generations all collide.                                                *)
Network == INSTANCE RequestQueue WITH
    Kind <- "network", Tasks <- {"t"}, Slots <- {1, 2}, Objects <- {1},
    Sockets <- {"Tcp", "Udp"}, Operations <- {"Connect", "Send", "Recv"},
    MaxOps <- 2, MaxGeneration <- 1, Kills <- FALSE, None <- NoCpu,
    entries <- x1, nextId <- x2, ops <- x3, objects <- x4, generation <- x5, worker <- x6,
    event <- x7, call <- x8, poller <- x9, served <- x10, dropped <- x11

(* Two processes with requests on open files, killed at any time, and one  *)
(* queue slot.                                                             *)
OpenFiles == INSTANCE RequestQueue WITH
    Kind <- "file", Tasks <- {"t", "u"}, Slots <- {1}, Objects <- {1},
    Sockets <- {}, Operations <- {"Recv"},
    MaxOps <- 2, MaxGeneration <- 3, Kills <- TRUE, None <- NoCpu,
    entries <- x1, nextId <- x2, ops <- x3, objects <- x4, generation <- x5, worker <- x6,
    event <- x7, call <- x8, poller <- x9, served <- x10, dropped <- x11

(* Two processes that share one slot of the block queue.                   *)
Blocks == INSTANCE RequestQueue WITH
    Kind <- "block", Tasks <- {"t", "u"}, Slots <- {1}, Objects <- {},
    Sockets <- {}, Operations <- {"Recv"},
    MaxOps <- 2, MaxGeneration <- 1, Kills <- TRUE, None <- NoCpu,
    entries <- x1, nextId <- x2, ops <- x3, objects <- x4, generation <- x5, worker <- x6,
    event <- x7, call <- x8, poller <- x9, served <- x10, dropped <- x11

(* The variables a subject does not use.                                   *)
Zero8 == x8 = 0 /\ x9 = 0 /\ x10 = 0 /\ x11 = 0
Zero1 == x1 = 0 /\ x2 = 0 /\ x3 = 0 /\ x4 = 0 /\ x5 = 0 /\ x6 = 0 /\ x7 = 0 /\ Zero8
Same8 == UNCHANGED <<x8, x9, x10, x11>>

ObjectsInit ==
    /\ LockInit /\ HotplugInit /\ PipeInit
    /\ \/ subject \in {"locks", "processors", "pipes"} /\ Zero1
       \/ subject = "faults" /\ Faults!Init /\ Zero8
       \/ subject = "local faults" /\ LocalFaults!Init /\ Zero8
       \/ subject = "shared pipes" /\ SharedPipes!PipeInit /\ Zero8
       \/ subject = "files" /\ Files!Init
       \/ subject = "volume" /\ Volume!Init
       \/ subject = "network" /\ Network!Init
       \/ subject = "open files" /\ OpenFiles!Init
       \/ subject = "blocks" /\ Blocks!Init

ObjectsNext ==
    /\ UNCHANGED subject
    /\ \/ subject = "locks" /\ LockNext /\ UNCHANGED <<hotplugVars, pipeVars, xs>>
       \/ subject = "processors" /\ HotplugNext /\ UNCHANGED <<lockVars, pipeVars, xs>>
       \/ subject = "pipes" /\ PipeNext /\ UNCHANGED <<lockVars, hotplugVars, xs>>
       \/ /\ UNCHANGED <<lockVars, hotplugVars, pipeVars>>
          /\ \/ subject = "faults" /\ Faults!Next /\ Same8
             \/ subject = "local faults" /\ LocalFaults!Next /\ Same8
             \/ subject = "shared pipes" /\ SharedPipes!PipeNext /\ Same8
             \/ subject = "files" /\ Files!Next
             \/ subject = "volume" /\ Volume!Next
             \/ subject = "network" /\ Network!Next
             \/ subject = "open files" /\ OpenFiles!Next
             \/ subject = "blocks" /\ Blocks!Next

ObjectsSpec == ObjectsInit /\ [][ObjectsNext]_<<subject, lockVars, hotplugVars, pipeVars, xs>>

----------------------------------------------------------------------------
(* The pager's, the pipes', the locks', the volume's and the queues'       *)
(* variables hold values of their types.                                   *)
ObjectsTyped ==
    /\ PipeTypeOK /\ LockTypeOK
    /\ subject = "faults" => Faults!TypeOK
    /\ subject = "volume" => Volume!TypeOK
    /\ subject = "open files" => OpenFiles!TypeOK

(* Nobody sleeps through what they wait for.  pager_wait_for_request: no   *)
(* request slips in before the pager is Blocked.  try_handle_file_fault on *)
(* the pager's CPU: a process blocked in a fault has its request in the    *)
(* queue or being worked on, and one that runs again after a fault finds   *)
(* its completion.  pipe::read and write with two tasks on one end: one    *)
(* asleep in a call that could proceed is about to be signalled.           *)
(* worker_task: no request slips in before the worker sleeps.              *)
NoSleeperLeft ==
    /\ subject = "faults" => Faults!PagerAwake
    /\ subject = "local faults" => LocalFaults!NoLostFaultWakeup /\ LocalFaults!ResumedServed
    /\ subject = "shared pipes" => SharedPipes!NoLostPipeWakeup
    /\ subject = "blocks" => Blocks!NoLostWork

(* The paths of the kernel satisfy the hypotheses under which              *)
(* SchedulerProofs excludes panics and deadlocks on any number of CPUs:    *)
(* they respect the ranks and climb one order of the locks.                *)
PathsOrdered == subject = "locks" =>
    Sound /\ Disciplined /\ Climbs(KernelLevel)

(* The files of the volume.  create_file_in_directory, delete_path and     *)
(* rename_path: whatever error the device returns, every name's cluster is *)
(* allocated and is no other name's.  persist_path: a file it reported     *)
(* stored survives a power loss with its content and owner, and a power    *)
(* loss after the data is flushed leaves a transaction that the next       *)
(* import finishes.  import_directory: a second mount finds the owner the  *)
(* first one found.                                                        *)
VolumeKept ==
    /\ subject = "volume" => Volume!NoCrossLink /\ Volume!SyncedSurvives
    /\ subject = "files" => Files!InterruptedFinishes /\ Files!ImportStable

(* pin_socket, clone_open_file and their releases: an object is referenced *)
(* exactly once by every request and every submission under way, and so    *)
(* never retired under one.  Queue::release_owner and                      *)
(* exit_current_process: a dead process leaves at most the request that    *)
(* the worker is about to finish, and the sockets of a process that has    *)
(* exited are gone or being closed.  Queue::finish and process_one: a      *)
(* completed request carries the result of its own operation, although the *)
(* block queue reuses slots under the worker, the owner of a completed     *)
(* operation finds a result, and an operation that is retried takes effect *)
(* at most once.  retire_closed_socket: a close keeps the bytes of         *)
(* completed sends until they are delivered or the grace has expired.      *)
RequestsExact ==
    /\ subject = "network" => /\ Network!PinsExact /\ Network!SocketsTornDown
                              /\ Network!ServedOnce /\ Network!Drained
    /\ subject = "open files" => /\ OpenFiles!PinsExact /\ OpenFiles!RequestsReleased
                                 /\ OpenFiles!ReadyHasResult
    /\ subject = "blocks" => Blocks!AnswerMatches /\ Blocks!ReadyHasResult
=============================================================================

----------------------------- MODULE KernelLocks -----------------------------
(***************************************************************************)
(* The lock stacks of the kernel's paths.  A definition named after a      *)
(* function is the set of stacks of locks, outermost first, that the       *)
(* function holds at some point, on top of its caller's.  The order in     *)
(* which it takes and drops locks that it does not hold together is left   *)
(* out: a CPU that holds nothing can start any path, and a CPU that holds  *)
(* a stack can take any next lock of a path through that stack.            *)
(*                                                                         *)
(* CONTROLLER stands for the four of NVMe, AHCI, USB and audio, of which a *)
(* path takes one.  Left out are locks that no path nests with another,    *)
(* what only test builds take, and HEAP, of the highest rank, which any    *)
(* allocation takes and which holds nothing.                               *)
(*                                                                         *)
(* The tracker is LockOrder, with KernelMutexes, KernelRank, KernelStacks  *)
(* and TriedStacks for its constants Locks, Rank, Stacks and Tried.        *)
(***************************************************************************)
EXTENDS LockOrder

CONSTANT
    Uses    \* what processes do, of "file at death", "pipe at death" (a process
            \* is killed with an open file or pipe), "async file" and
            \* "pressure" (memory runs out while a file page is mapped)

KernelRank == [
    SCHEDULER |-> 10, PROCESS_TABLE |-> 20, PAGER |-> 10, WORKER |-> 10,
    OPEN_FILES |-> 10, REGISTRY |-> 10, PIPES |-> 10, IPC |-> 10, LINEAGES |-> 10,
    OPERATIONS |-> 10, ALLOCATION |-> 10, PORT |-> 20, OBJECTS |-> 10,
    NET_QUEUE |-> 10, FILE_QUEUE |-> 10, BLOCK_QUEUE |-> 10, RUNTIME |-> 20,
    THREADS |-> 10, NOTIFICATIONS |-> 10, TERMINAL |-> 10, CACHE |-> 10,
    PRIMARY_MASTER |-> 10, FILE_PAGES |-> 20, SWAP |-> 40, TRANSPORT |-> 30,
    CONTROLLER |-> 10, CONFIG_LOCK |-> 10, CONFIG |-> 10, INVENTORY |-> 10,
    JOURNAL |-> 10, NEXT |-> 10, DECODER |-> 10, INPUT |-> 10,
    PAGING |-> 10, COW_TABLE |-> 30, ALLOCATOR |-> 40, LOG |-> 40]

KernelMutexes == DOMAIN KernelRank

(* The stacks of a guard on a lock and of what runs under it.              *)
Hold(lock, inner) == {<<lock>>} \cup {<<lock>> \o s : s \in inner}
Take(lock) == {<<lock>>}

(* What is held only where processes do such a thing.                      *)
If(use, stacks) == IF use \in Uses THEN stacks ELSE {}

----------------------------------------------------------------------------
(* Tasks.                                                                  *)
signal_event == Take("SCHEDULER")
current_task_id == Take("SCHEDULER")
current_process_id == current_task_id \cup Take("PROCESS_TABLE")
current_credentials_if_running == current_task_id \cup Take("PROCESS_TABLE")
signal_worker == Hold("WORKER", signal_event)

(* The timer and reschedule interrupts, taken where interrupts are on.     *)
tick == Take("SCHEDULER")
terminal_write == Hold("TERMINAL", tick)

(* Memory.                                                                 *)
release_frame == Take("COW_TABLE") \cup Take("ALLOCATOR")
map_user_range == Hold("PAGING", Take("ALLOCATOR"))
share_user_range == Hold("PAGING", Hold("COW_TABLE", Take("ALLOCATOR")))
unmap_user_range == Hold("PAGING", release_frame)
map_file_frame == Hold("PAGING", Hold("COW_TABLE", Take("ALLOCATOR")))
file_frame_io == Hold("PAGING", {})
file_frames_map == Hold("CACHE",
    map_file_frame \cup release_frame \cup file_frame_io)

(* The lineage registry and the audit log.                                 *)
with_lineages == Take("LINEAGES")
audited_lineage == with_lineages \cup Take("LOG")
task_capability == Hold("SCHEDULER", audited_lineage)

----------------------------------------------------------------------------
(* Files and pipes.  A node's permissions are checked under the registry.  *)
access_allowed == current_credentials_if_running
registry_call == Hold("REGISTRY", access_allowed)
open_file_call == Hold("OPEN_FILES",
    Hold("REGISTRY", access_allowed \cup file_frames_map))
open_file == Hold("OPEN_FILES", Take("REGISTRY"))
close_open_file == Hold("OPEN_FILES", Take("REGISTRY"))
pipe_call == Take("PIPES") \cup signal_event
release_fd == close_open_file \cup pipe_call

(* The disk.  A mount imports the volume under the ATA guard; a read of a  *)
(* file takes the guard per sector and the page cache in between.          *)
mount_ata_root == Hold("PRIMARY_MASTER", registry_call \cup Take("SWAP"))
read_disk_file == Take("FILE_PAGES") \cup Take("PRIMARY_MASTER")

(* A controller is brought up under its guard: it is looked up, its memory *)
(* space is enabled and mapped, and its rings get their frames.            *)
enable_memory_bus_master == Hold("CONFIG_LOCK", Take("CONFIG") \cup map_user_range)
controller_init == Hold("CONTROLLER",
    Take("INVENTORY") \cup enable_memory_bus_master \cup map_user_range \cup Take("ALLOCATOR"))

journal_begin == Hold("JOURNAL", Take("NEXT"))
drain_scancodes == Hold("DECODER", Take("INPUT"))

(* The network stack drives its transport under the runtime's guard.       *)
network_poll == Take("TRANSPORT") \cup Hold("RUNTIME", Take("TRANSPORT"))

(* The queues of the asynchronous producers.                               *)
network_release_owner == Hold("NET_QUEUE", Take("RUNTIME"))
network_call == Hold("NET_QUEUE", Take("RUNTIME")) \cup signal_worker
file_release_owner == Hold("FILE_QUEUE", If("async file", close_open_file))
file_call == If("async file", Hold("FILE_QUEUE", close_open_file)) \cup signal_worker
block_call == Take("BLOCK_QUEUE") \cup signal_worker

(* Operations, ports and events.                                           *)
async_op_release_owner == Hold("OPERATIONS", Take("PORT"))
async_op_call == Hold("OPERATIONS", Take("PORT")) \cup signal_event
port_release_owner == Hold("ALLOCATION", Take("PORT"))
port_call == Hold("ALLOCATION", Take("PORT")) \cup Take("PORT") \cup signal_event
events_release_owner == Take("OBJECTS")

(* IPC: receivers are signalled after the state is unlocked.               *)
SignalsUnderStateMutant == Hold("IPC", audited_lineage \cup release_frame \cup signal_event)

ipc_call == Hold("IPC", audited_lineage \cup release_frame) \cup signal_event
ipc_register == Take("IPC")
ipc_release == Hold("IPC", audited_lineage \cup release_frame)

----------------------------------------------------------------------------
(* Process lifetime.                                                       *)
release_killed_fds ==
    If("file at death", close_open_file) \cup If("pipe at death", pipe_call)

UnderTableMutant ==
    network_release_owner \cup file_release_owner
        \cup Take("BLOCK_QUEUE") \cup async_op_release_owner
        \cup Hold("PROCESS_TABLE", port_release_owner)
        \cup events_release_owner
        \cup Take("NOTIFICATIONS") \cup release_killed_fds

complete_process_termination ==
    network_release_owner \cup file_release_owner
        \cup Take("BLOCK_QUEUE") \cup async_op_release_owner
        \cup Take("PROCESS_TABLE")
        \cup port_release_owner \cup events_release_owner
        \cup Take("NOTIFICATIONS") \cup release_killed_fds

finalize_switch == Hold("SCHEDULER", complete_process_termination)

kill_process ==
    current_process_id \cup Take("PROCESS_TABLE")
        \cup Hold("SCHEDULER", complete_process_termination)

exit_current_process ==
    current_process_id \cup Take("RUNTIME")
        \cup Hold("SCHEDULER",
                network_release_owner \cup events_release_owner
                    \cup file_release_owner \cup Take("BLOCK_QUEUE")
                    \cup async_op_release_owner \cup port_release_owner
                    \cup Take("THREADS") \cup Take("NOTIFICATIONS")
                    \cup Take("PROCESS_TABLE"))
        \cup release_fd \cup unmap_user_range

wait_process ==
    current_process_id \cup Take("PROCESS_TABLE") \cup release_fd
        \cup ipc_release \cup unmap_user_range

spawn_user_process ==
    current_process_id
        \cup Hold("SCHEDULER",
                with_lineages \cup Take("PROCESS_TABLE")
                    \cup ipc_register \cup ipc_release \cup unmap_user_range)

fork_current ==
    Hold("SCHEDULER", Take("PROCESS_TABLE")) \cup share_user_range
        \cup Take("OPEN_FILES") \cup Take("PIPES")
        \cup Hold("SCHEDULER", with_lineages \cup ipc_register \cup ipc_release
                                    \cup Take("PROCESS_TABLE"))
        \cup release_fd \cup unmap_user_range

exec_current == Hold("SCHEDULER", Take("PROCESS_TABLE")) \cup unmap_user_range

(* The pager holds its queue while it publishes that it is blocked.        *)
pager_wait_for_request == Hold("PAGER", Take("SCHEDULER"))
try_handle_file_fault == current_task_id \cup Take("PROCESS_TABLE") \cup Take("PAGER")

(* Memory has run out while a file page is mapped: a page of some process  *)
(* is unmapped, and written to swap or to its file, with the process table *)
(* held from the search for it on.                                         *)
evict_file_page ==
    unmap_user_range \cup Take("SWAP") \cup open_file_call \cup Hold("CACHE", release_frame)
evict_one_mapped_file_page == If("pressure", Hold("PROCESS_TABLE", evict_file_page))

KernelStacks == UNION {
    signal_event, current_process_id, terminal_write, task_capability,
    map_user_range, file_frames_map, registry_call,
    open_file_call, open_file, close_open_file, mount_ata_root, read_disk_file,
    controller_init, journal_begin, drain_scancodes,
    network_poll, pipe_call, network_call, file_call, block_call, async_op_call, port_call,
    events_release_owner, ipc_call, finalize_switch, kill_process,
    exit_current_process, wait_process, spawn_user_process, fork_current,
    exec_current, pager_wait_for_request, try_handle_file_fault,
    evict_one_mapped_file_page}

(* tick, preempt_from_interrupt and rebalance_tick use try_lock.           *)
TriedStacks == Hold("TERMINAL", tick) \ Take("TERMINAL")

(* An order of the locks that the paths climb as long as no process dies   *)
(* with a file or pipe open, none uses files asynchronously and memory     *)
(* does not run out while a file page is mapped.                           *)
Levels == <<
    {"TERMINAL", "WORKER", "PAGER", "OPEN_FILES", "PRIMARY_MASTER", "CONTROLLER",
     "JOURNAL", "DECODER"}, {"REGISTRY"}, {"SCHEDULER"},
    {"NET_QUEUE", "FILE_QUEUE", "BLOCK_QUEUE", "OPERATIONS", "ALLOCATION",
     "OBJECTS", "THREADS", "NOTIFICATIONS", "PIPES", "IPC", "CACHE",
     "PROCESS_TABLE", "FILE_PAGES", "CONFIG_LOCK"},
    {"RUNTIME", "PORT", "LINEAGES", "PAGING", "CONFIG", "INVENTORY", "NEXT", "INPUT"},
    {"COW_TABLE", "TRANSPORT", "SWAP"}, {"ALLOCATOR"}, {"LOG"}>>
KernelLevel == [l \in KernelMutexes |-> CHOOSE i \in DOMAIN Levels : l \in Levels[i]]
=============================================================================

----------------------------- MODULE MCServices -----------------------------
(***************************************************************************)
(* The services a process calls and the devices below them, for TLC:       *)
(* completion ports, authority, IPC, events, threads, processes, files,    *)
(* wireless, the network card, the disk controllers and USB.  They share   *)
(* no state at this level, so a behaviour exercises one instance, its      *)
(* subject.  The record queue, authority, threads and the parts of the     *)
(* wireless stack have variables of their own, which the theorems about    *)
(* them speak of; every other subject keeps its variables, in the order    *)
(* its module declares them, in x1, x2, ...                                *)
(***************************************************************************)
EXTENDS CompletionQueue, Authority, Threads, WifiLink, WifiRuntime, WifiSession, TLC

CONSTANTS v1, v2,     \* interchangeable: two tasks, processes, owners, values
          None

VARIABLES subject, fuel, x1, x2, x3, x4, x5, x6, x7, x8, x9, x10, x11

xs == <<x1, x2, x3, x4, x5, x6, x7, x8, x9, x10, x11>>
ownVars == <<vars, authVars, threadVars, linkVars, runtimeVars, wifiVars>>

(* Bounds on the calls of a behaviour, for the modules that set none.      *)
Calls == [authority |-> 6, messages |-> 7, memory |-> 10, waiters |-> 11,
          programs |-> 4, descriptors |-> 4, supplicant |-> 9, associations |-> 15,
          tree |-> 4, files |-> 3, reads |-> 6, volume |-> 3]

(* One process that associates two operations with a port and reads them   *)
(* in batches.                                                             *)
Runtime == INSTANCE AsyncRuntime WITH
    Tasks <- {"task"}, Workers <- {"worker"}, OpSlots <- {1, 2}, Ports <- {1},
    MaxGeneration <- 1, PORT_CAPACITY <- 2, BATCH <- 2, PER_PROCESS <- 1,
    slot <- x1, port <- x2, jobs <- x3, sched <- x4, pending <- x5, at <- x6,
    op <- x7, pt <- x8, batch <- x9, todo <- x10, acked <- x11

(* The capabilities that the tasks of each domain may have.                *)
Ceilings == [kernel |-> {"control", "io"}, service |-> {"control", "io"},
             user |-> {"io"}, restricted |-> {}]

TwoGroupKeys == {<<"g">>, <<"h">>}

(* Long behaviours of the supplicant, for keys that are used by several    *)
(* associations: no exchange fails, one nonce, one group key and one       *)
(* replay counter from the access point, and frames without a defect.      *)
Steady ==
    /\ sup'.state # "Failed" /\ hs'.state # "Failed" /\ rec'.state # "Backoff"
    /\ sup'.gtk \in {Unset, <<"g">>} /\ sup'.replay <= 1
    /\ hs'.anonce \in {Unset, "n"} /\ hs'.last <= 1
    /\ hs'.state \in {"AwaitingMessage3", "Completed"} => sup'.state = hs'.state
    /\ \A i \in DOMAIN session'.rx : session'.rx[i].defect = "none"

(* Two processes with two endpoints; two processes with a shared-memory    *)
(* object that only one of them can map at a time; two tasks of one        *)
(* process that block on one endpoint.                                     *)
Messages == INSTANCE Ipc WITH
    Procs <- {v1, v2}, Tasks <- {}, ProcessOf <- <<>>, ObjectIds <- {1, 2},
    MaxEndpoints <- 2, MaxShared <- 0, MaxHandles <- 3, QueueDepth <- 1,
    MaxWaiters <- 2, MaxMappings <- 0, ServiceNames <- {"name"}, MaxServices <- 1,
    Delegations <- {{"send"}, {"receive", "transfer"}},
    ipc <- x1, flight <- x2, waits <- x3, signals <- x4, forfeits <- x5, stray <- x6
Memory == INSTANCE Ipc WITH
    Procs <- {v1, v2}, Tasks <- {}, ProcessOf <- <<>>, ObjectIds <- {1},
    MaxEndpoints <- 0, MaxShared <- 1, MaxHandles <- 2, QueueDepth <- 1,
    MaxWaiters <- 0, MaxMappings <- 1, ServiceNames <- {}, MaxServices <- 0,
    Delegations <- {{"read", "map", "transfer"}},
    ipc <- x1, flight <- x2, waits <- x3, signals <- x4, forfeits <- x5, stray <- x6
Waiters == INSTANCE Ipc WITH
    Procs <- {1}, Tasks <- {v1, v2}, ProcessOf <- [t \in {v1, v2} |-> 1], ObjectIds <- {1},
    MaxEndpoints <- 1, MaxShared <- 0, MaxHandles <- 2, QueueDepth <- 1,
    MaxWaiters <- 2, MaxMappings <- 0, ServiceNames <- {}, MaxServices <- 0,
    Delegations <- {{"send"}},
    ipc <- x1, flight <- x2, waits <- x3, signals <- x4, forfeits <- x5, stray <- x6

(* One process with one timer or event at a time, until the clock ends.    *)
Timers == INSTANCE Events WITH
    Owners <- {"p"}, COUNT <- 1, QUOTA <- 1, MaxGeneration <- 2, MAX <- 4,
    Relatives <- {0, 1}, Periods <- {0, 1}, MaxOps <- 2,
    object <- x1, operation <- x2, call <- x3, worker <- x4, latch <- x5, now <- x6,
    taken <- x7

Mailboxes == INSTANCE Notifications WITH
    Recipients <- {1, 2}, Kinds <- {4, 6}, CAPACITY <- 3,
    entries <- x1, head <- x2, tail <- x3, len <- x4, owed <- x5

(* Processes that spawn, exec, signal and wait for each other; processes   *)
(* with descriptors and mappings of two objects.                           *)
Programs == INSTANCE Processes WITH
    MaxPids <- 3, MAX_PROCESSES <- 2, MAX_ENDPOINTS <- 2, MaxRefs <- 4,
    Fds <- {3, 4}, MapSlots <- {0}, Objects <- {}, Signals <- {9, 15}, Groups <- {1},
    Loads <- {"spawn", "exec"}, Names <- {"d", ".."}, Dirs <- {<<>>, <<"d">>},
    Variables <- {"v"}, Values <- {"x"}, MAX_ENV_VARS <- 1,
    proc <- x1, nextPid <- x2, spaces <- x3, refs <- x4, endpoints <- x5, call <- x6,
    lost <- x7, ended <- x8
Descriptors == INSTANCE Processes WITH
    MaxPids <- 3, MAX_PROCESSES <- 2, MAX_ENDPOINTS <- 2, MaxRefs <- 4,
    Fds <- {3, 4}, MapSlots <- {0}, Objects <- {"o", "q"}, Signals <- {9}, Groups <- {},
    Loads <- {"exec"}, Names <- {}, Dirs <- {<<>>},
    Variables <- {}, Values <- {}, MAX_ENV_VARS <- 1,
    proc <- x1, nextPid <- x2, spaces <- x3, refs <- x4, endpoints <- x5, call <- x6,
    lost <- x7, ended <- x8

(* The wireless firmware: its loading, and its start from host memory.     *)
Section(start, len, dev) == [start |-> start, len |-> len, dev |-> dev]
Firmware == INSTANCE WifiFirmware WITH
    Images <- {<<Section(0, 3, 1), Section(3, 2, 4)>>, <<Section(0, 3, 1), Section(3, 2, 3)>>,
               <<Section(2, 4, 0)>>, <<Section(0, 5, 0)>>, <<>>},
    ImageSize <- 6, MaxSections <- 2, MaxSectionSize <- 4, ChunkSize <- 2, DeviceSize <- 6,
    load <- x1, stager <- x2, exec <- x3, device <- x4, radio <- x5,
    Frames <- 1 .. 4, Kinds <- {"lmac"}, MaxEntries <- 1, CAPACITY <- 2,
    Packets <- {"alive", "rejected", "malformed"}, MaxPosts <- 3,
    free <- x1, context <- x2, startup <- x3, ring <- x4, posts <- x5, delivered <- x6

(* Two receive buffers, with indices that wrap; queues that are missing,   *)
(* too small for the buffers, large enough, and too large.                 *)
Card == INSTANCE VirtioNet WITH
    ACTIVE_RX_DESCRIPTORS <- 2, MAX_QUEUE_SIZE <- 4, IndexModulus <- 4, MaxFrames <- 4,
    MaxBogus <- 1, Sizes <- {0, 1, 2, 4, 8},
    t <- x1, rx <- x2, tx <- x3, packet <- x4, outgoing <- x5, device <- x6, wire <- x7

(* Three commands on queues that wrap; a ring of three entries.            *)
Nvme == INSTANCE NvmeQueue WITH
    Lbas <- {1, 2}, Values <- {v1, v2}, DEPTH <- 3, CidModulus <- 16, MaxCommands <- 3,
    up <- x1, io <- x2, sq <- x3, cq <- x4, transfer <- x5, disk <- x6, call <- x7,
    device <- x8, known <- x9, amiss <- x10
Ahci == INSTANCE AhciPort WITH
    Lbas <- {1, 2}, Values <- {v1, v2}, MaxCommands <- 4,
    port <- x1, engine <- x2, table <- x3, transfer <- x4, disk <- x5, call <- x6,
    running <- x7, known <- x8, amiss <- x9, issued <- x10
Usb == INSTANCE Xhci WITH
    LINK <- 3, EVENTS <- 3, MAX_EVENTS_PER_WAIT <- 2, MaxEntries <- 9, MaxPortEvents <- 1,
    ring <- x1, event <- x2, stage <- x3, hid <- x4, call <- x5, buffer <- x6,
    pushed <- x7, ports <- x8, amiss <- x9

(* A directory that is moved with a file in it; every call on a volume     *)
(* with one file; reads of two files through one cached page while names   *)
(* move.                                                                   *)
AllCalls == {"clone", "close", "create", "import", "map", "mkdir", "open", "overwrite",
             "persist", "read", "rename", "share", "unlink", "write"}
Tree == INSTANCE Vfs WITH
    Tasks <- {v1, v2}, Paths <- {<<"x">>, <<"d">>, <<"d", "x">>}, Imported <- {},
    Calls <- AllCalls, Bytes <- {"b"}, NODE_CAPACITY <- 2,
    MAX_NODES <- 4, MAX_OPEN_FILES <- 2, CachePages <- 1, RETRIES <- 2,
    nodes <- x1, files <- x2, disk <- x3, cache <- x4, epoch <- x5, fds <- x6,
    job <- x7, truth <- x8, bypassed <- x9, crossed <- x10
Files == INSTANCE Vfs WITH
    Tasks <- {v1, v2}, Paths <- {<<"x">>, <<"d">>, <<"d", "x">>}, Imported <- {<<"x">>},
    Calls <- AllCalls, Bytes <- {"b"}, NODE_CAPACITY <- 2,
    MAX_NODES <- 4, MAX_OPEN_FILES <- 2, CachePages <- 1, RETRIES <- 2,
    nodes <- x1, files <- x2, disk <- x3, cache <- x4, epoch <- x5, fds <- x6,
    job <- x7, truth <- x8, bypassed <- x9, crossed <- x10
Reads == INSTANCE Vfs WITH
    Tasks <- {v1, v2}, Paths <- {<<"x">>, <<"y">>, <<"z">>}, Imported <- {<<"x">>, <<"y">>},
    Calls <- {"open", "read", "rename"}, Bytes <- {"b"}, NODE_CAPACITY <- 2,
    MAX_NODES <- 4, MAX_OPEN_FILES <- 2, CachePages <- 1, RETRIES <- 2,
    nodes <- x1, files <- x2, disk <- x3, cache <- x4, epoch <- x5, fds <- x6,
    job <- x7, truth <- x8, bypassed <- x9, crossed <- x10

(* Two directories of three slots, short and long names, one write that    *)
(* the device refuses.                                                     *)
Volume == INSTANCE FatTree WITH
    LastCluster <- 6, SLOTS <- 3, ShortNames <- {"d", "e", "f"}, LongNames <- {"l"},
    Paths <- {<<"d">>, <<"e">>, <<"l">>, <<"d", "f">>, <<"d", "e">>, <<"d", "l">>},
    Sizes <- {0, 2}, Hints <- {2},
    Aliases <- <<"A1", "A2">>, MaxWrites <- 12, MaxFaults <- 1,
    fat <- x1, slot <- x2, wounded <- x3, faults <- x4, amiss <- x5

Symmetry == Permutations({v1, v2})

(* The variables a subject does not use, from the given one on.            *)
Zero11 == x11 = 0
Zero10 == x10 = 0 /\ Zero11
Zero9 == x9 = 0 /\ Zero10
Zero8 == x8 = 0 /\ Zero9
Zero7 == x7 = 0 /\ Zero8
Zero6 == x6 = 0 /\ Zero7
Zero5 == x5 = 0 /\ Zero6
Zero4 == x4 = 0 /\ Zero5
Zero3 == x3 = 0 /\ Zero4
Zero1 == x1 = 0 /\ x2 = 0 /\ Zero3

Same11 == UNCHANGED x11
Same10 == UNCHANGED x10 /\ Same11
Same9 == UNCHANGED x9 /\ Same10
Same8 == UNCHANGED x8 /\ Same9
Same7 == UNCHANGED x7 /\ Same8
Same6 == UNCHANGED x6 /\ Same7

ServicesInit ==
    /\ Init /\ AuthInit /\ ThreadsInit /\ LinkInit /\ RuntimeInit /\ WifiInit
    /\ fuel = 0
    /\ \/ /\ subject \in {"queue", "authority", "threads", "link", "interrupts", "supplicant",
                          "associations"}
          /\ Zero1
       \/ subject = "runtime" /\ Runtime!AsyncInit
       \/ subject = "messages" /\ Messages!IpcInit /\ Zero7
       \/ subject = "memory" /\ Memory!IpcInit /\ Zero7
       \/ subject = "waiters" /\ Waiters!IpcInit /\ Zero7
       \/ subject = "timers" /\ Timers!EventsInit /\ Zero8
       \/ subject = "mailboxes" /\ Mailboxes!NotificationsInit /\ Zero6
       \/ subject = "programs" /\ Programs!ProcessInit /\ Zero9
       \/ subject = "descriptors" /\ Descriptors!ProcessInit /\ Zero9
       \/ subject = "firmware" /\ Firmware!FirmwareInit /\ Zero6
       \/ subject = "startup" /\ Firmware!BootInit /\ Zero7
       \/ subject = "card" /\ Card!VirtioInit /\ Zero8
       \/ subject = "nvme" /\ Nvme!NvmeInit /\ Zero11
       \/ subject = "ahci" /\ Ahci!AhciInit /\ Zero11
       \/ subject = "usb" /\ Usb!XhciInit /\ Zero10
       \/ subject = "tree" /\ Tree!VfsInit /\ Zero11
       \/ subject = "files" /\ Files!VfsInit /\ Zero11
       \/ subject = "reads" /\ Reads!VfsInit /\ Zero11
       \/ subject = "volume" /\ Volume!FatInit /\ Zero6

(* A call of a behaviour with that many.                                   *)
Counted(bound) == fuel < bound /\ fuel' = fuel + 1

ServicesNext ==
    /\ UNCHANGED subject
    /\ \/ /\ subject = "queue" /\ Next /\ UNCHANGED <<fuel, xs>>
          /\ UNCHANGED <<authVars, threadVars, linkVars, runtimeVars, wifiVars>>
       \/ /\ subject = "authority" /\ Counted(Calls.authority) /\ AuthNext /\ UNCHANGED xs
          /\ UNCHANGED <<vars, threadVars, linkVars, runtimeVars, wifiVars>>
       \/ /\ subject = "threads" /\ ThreadsNext /\ UNCHANGED <<fuel, xs>>
          /\ UNCHANGED <<vars, authVars, linkVars, runtimeVars, wifiVars>>
       \/ /\ subject = "link" /\ LinkNext /\ UNCHANGED <<fuel, xs>>
          /\ UNCHANGED <<vars, authVars, threadVars, runtimeVars, wifiVars>>
       \/ /\ subject = "interrupts" /\ RuntimeNext /\ UNCHANGED <<fuel, xs>>
          /\ UNCHANGED <<vars, authVars, threadVars, linkVars, wifiVars>>
       \/ /\ \/ subject = "supplicant" /\ Counted(Calls.supplicant) /\ WifiNext
             \/ subject = "associations" /\ Counted(Calls.associations) /\ WifiNext /\ Steady
          /\ UNCHANGED xs
          /\ UNCHANGED <<vars, authVars, threadVars, linkVars, runtimeVars>>
       \/ /\ UNCHANGED ownVars
          /\ \/ subject = "runtime" /\ Runtime!AsyncNext /\ UNCHANGED fuel
             \/ subject = "messages" /\ Counted(Calls.messages) /\ Messages!IpcNext /\ Same7
             \/ subject = "memory" /\ Counted(Calls.memory) /\ Memory!IpcNext /\ Same7
             \/ subject = "waiters" /\ Counted(Calls.waiters) /\ Waiters!IpcNext /\ Same7
             \/ subject = "timers" /\ Timers!EventsNext /\ Same8 /\ UNCHANGED fuel
             \/ subject = "mailboxes" /\ Mailboxes!NotificationsNext /\ Same6 /\ UNCHANGED fuel
             \/ /\ subject = "programs" /\ Same9
                /\ \E p \in Programs!Pids :
                      \/ Counted(Calls.programs) /\ Programs!ProcessCall(p)
                      \/ Programs!ProcessStep(p) /\ UNCHANGED fuel
             \/ /\ subject = "descriptors" /\ Same9
                /\ \E p \in Descriptors!Pids :
                      \/ Counted(Calls.descriptors) /\ Descriptors!ProcessCall(p)
                      \/ Descriptors!ProcessStep(p) /\ UNCHANGED fuel
             \/ subject = "firmware" /\ Firmware!FirmwareNext /\ Same6 /\ UNCHANGED fuel
             \/ subject = "startup" /\ Firmware!BootNext /\ Same7 /\ UNCHANGED fuel
             \/ subject = "card" /\ Card!VirtioNext /\ Same8 /\ UNCHANGED fuel
             \/ subject = "nvme" /\ Nvme!NvmeNext /\ Same11 /\ UNCHANGED fuel
             \/ subject = "ahci" /\ Ahci!AhciNext /\ Same11 /\ UNCHANGED fuel
             \/ subject = "usb" /\ Usb!XhciNext /\ Same10 /\ UNCHANGED fuel
             \/ /\ subject = "tree" /\ Same11
                /\ \E t \in {v1, v2} :
                      \/ Counted(Calls.tree) /\ Tree!VfsCall(t)
                      \/ Tree!VfsStep(t) /\ UNCHANGED fuel
             \/ /\ subject = "files" /\ Same11
                /\ \E t \in {v1, v2} :
                      \/ Counted(Calls.files) /\ Files!VfsCall(t)
                      \/ Files!VfsStep(t) /\ UNCHANGED fuel
             \/ /\ subject = "reads" /\ Same11
                /\ \E t \in {v1, v2} :
                      \/ Counted(Calls.reads) /\ Reads!VfsCall(t)
                      \/ Reads!VfsStep(t) /\ UNCHANGED fuel
             \/ subject = "volume" /\ Counted(Calls.volume) /\ Volume!FatNext /\ Same6

ServicesSpec == ServicesInit /\ [][ServicesNext]_<<subject, fuel, ownVars, xs>>

----------------------------------------------------------------------------
(* What is sent arrives once, and nobody sleeps through it.                *)
(* async_associate, complete_as and the port's calls: one terminal record  *)
(* per accepted association.  expire and read: a timer's expirations are   *)
(* counted exactly through coalescing, delayed pumps and the end of the    *)
(* clock, no deadline passes while the worker sleeps beyond it, and a      *)
(* waited-on object that is ready has its completion on the way.  publish, *)
(* take and discard: a mailbox holds exactly what its recipient is owed,   *)
(* in order.  wait_endpoint: a task queued on an endpoint it could use is  *)
(* about to run.                                                           *)
DeliveredExact ==
    /\ subject = "runtime" => Runtime!OneRecord
    /\ subject = "timers" => /\ Timers!ExpirationsExact
                             /\ Timers!NoStrandedWait /\ Timers!NoDeadlineMissed
    /\ subject = "mailboxes" => Mailboxes!MailboxesFaithful
    /\ subject = "waiters" => Waiters!NoLostIpcWakeup

(* What a step may never do.  revoke_handle: make a recalled handle useful *)
(* again.  wait_process: remove a process that is not a child of the       *)
(* caller.  kill_process: end a SIGKILL without effect.                    *)
StepsAllowed ==
    [][/\ subject = "messages" => Messages!RecallIsFinal
       /\ subject = "memory" => Memory!RecallIsFinal
       /\ subject = "programs" => Programs!OnlyParentReaps /\ Programs!KillCounts
       /\ subject = "descriptors" => Descriptors!OnlyParentReaps]_xs

(* Reference counts are exact and names unique.  State of ipc.rs: an       *)
(* object is counted once by every handle, queued transfer, service and    *)
(* mapping, and one that nothing reaches is gone; the exception, counted   *)
(* exactly, is a mapping that could neither be removed nor put back.  The  *)
(* process table: files, pipes and address spaces belong to exactly the    *)
(* descriptors, mappings and processes that hold them, and a process ends  *)
(* once.                                                                   *)
ObjectsExact ==
    /\ subject = "messages" => Messages!HandleRefsExact /\ Messages!NoStrandedObject
    /\ subject = "memory" => Memory!HandleRefsExact /\ Memory!NoStrandedObject
    /\ subject = "waiters" => Waiters!HandleRefsExact
    /\ subject = "programs" => Programs!SpacesOwned /\ Programs!EndedOnce
    /\ subject = "descriptors" => Descriptors!DescriptorsExact /\ Descriptors!SpacesOwned

(* Memory shared with a device, and the commands given to it.              *)
(* WifiFirmware: the device has every byte the load session has passed,    *)
(* and a buffer it may still read is held until the load is given up; at   *)
(* its start no buffer it may write is free, and packets are handed on in  *)
(* order with their own contents.  VirtioNet: the receive buffers          *)
(* circulate without loss or duplication over the wrap of the indices, in  *)
(* a queue with a descriptor for each, and frames pass once, in order,     *)
(* unmixed.  wait of nvme.rs, issue of ahci.rs and the waits of xhci.rs: a *)
(* call that reports success has the effect and the data of its own        *)
(* command, though commands given up earlier may still complete; the       *)
(* exceptions are the overtaking of a command that was given up (NVMe), a  *)
(* late transfer into the shared page (AHCI) and a ring lapped by the      *)
(* driver (xHCI), which the modules record.                                *)
DevicesExact ==
    /\ subject = "firmware" => Firmware!LoadedFaithfully /\ Firmware!TransferBacked
    /\ subject = "startup" => Firmware!BuffersOwned /\ Firmware!PacketsInOrder
    /\ subject = "card" => Card!BuffersCirculate /\ Card!FramesIntact
    /\ subject = "nvme" => Nvme!NvmeTruthful
    /\ subject = "ahci" => Ahci!AhciTruthful
    /\ subject = "usb" => Usb!EventsOwn

(* vfs.rs: names form a tree, an open description is counted exactly and   *)
(* stays with the node it was opened on, and the bytes a read accepts      *)
(* after its second look at the node are the file's, whatever happened to  *)
(* the name, the volume and the page cache while no lock was held.         *)
(* create_path_file, create_directory_in, delete_path and rename_path: the *)
(* FAT and the directories agree after every call, also one whose write    *)
(* the device refuses; a call does all of what its name says or nothing;   *)
(* and a file that was stored is found with the content it was given.      *)
FilesServed ==
    /\ subject = "tree" => Tree!NamesFormTree /\ Tree!OpenFilesAttached
    /\ subject = "files" => Files!NamesFormTree /\ Files!OpenFilesAttached /\ Files!ReadsServeFile
    /\ subject = "reads" => Reads!OpenFilesAttached /\ Reads!ReadsServeFile
    /\ subject = "volume" => Volume!VolumeSound /\ Volume!AllOrNothing /\ Volume!CreatedIsFound
=============================================================================

---------------------------- MODULE WifiFirmware ----------------------------
(***************************************************************************)
(* Loading firmware into the Intel 22000-family device (wifi_firmware.rs): *)
(* an image is validated, a load session walks its sections, a stager      *)
(* copies one chunk at a time into DMA memory, and an executor over the    *)
(* chipset backend programs, triggers and polls its transfer.  The reset   *)
(* and MAC-access controllers of wifi_hw.rs bring the device to the point  *)
(* where this may start.                                                   *)
(*                                                                         *)
(* The composition is the one the interfaces document: a section is        *)
(* complete only after all its chunks are, and a chunk only after its      *)
(* transfer.  A load may be given up, and MAC access released, at any      *)
(* point: the code puts no condition on either.                            *)
(*                                                                         *)
(* The second half of the module is the other way the driver has: starting *)
(* the firmware from host memory.  Chunks are staged into owned DMA        *)
(* buffers that a context-info table names, the context is published, the  *)
(* device CPU started, and the ALIVE notification awaited among the        *)
(* packets that the device delivers, in any order of completion, into the  *)
(* ring of receive buffers (wifi_firmware.rs, wifi_hw.rs).                 *)
(***************************************************************************)
EXTENDS Naturals, Sequences, FiniteSets, SequencesExt

CONSTANTS Images,       \* section lists offered for loading
          ImageSize,
          MaxSections, MaxSectionSize,
          ChunkSize,
          DeviceSize,   \* device addresses are 0 .. DeviceSize - 1
          None

CONSTANTS Frames,     \* physical frames of the DMA allocator
          Kinds,      \* image regions: LMAC, UMAC, paging
          MaxEntries, \* INTEL_CONTEXT_INFO_MAX_DRAM_ENTRIES
          CAPACITY,   \* DMA_RING_CAPACITY
          Packets,    \* "alive", "rejected", "malformed" and other commands
          MaxPosts    \* bound on posted receive buffers

VARIABLES load,     \* FirmwareLoadSession over a validated image
          stager,   \* IntelFirmwareStager, or None
          exec,     \* IntelFirmwareTransferExecutor and its backend, or None
          device,   \* device memory, and the transfer the device is performing
          radio     \* IntelResetController, IntelMacAccessController and GP_CNTRL

VARIABLES free,      \* frames of the allocator
          context,   \* Intel22000DmaContextInfo and the built hardware context
          startup,   \* Intel22000FirmwareStartup
          ring,      \* OwnedBufferQueue with the completed lengths
          posts,     \* buffers posted so far
          delivered  \* history: [post, packet] written by the device, dispatched

firmwareVars == <<load, stager, exec, device, radio>>

Overlap(s, t) == s.dev < t.dev + t.len /\ t.dev < s.dev + s.len

Valid(image) ==
    /\ image # <<>> /\ Len(image) <= MaxSections
    /\ \A i \in DOMAIN image :
          /\ image[i].len > 0 /\ image[i].len <= MaxSectionSize
          /\ image[i].start + image[i].len <= ImageSize
          /\ image[i].dev + image[i].len <= DeviceSize
          /\ \A j \in 1..(i - 1) : ~Overlap(image[i], image[j])

FirmwareInit ==
    /\ \E image \in Images :
          load = IF Valid(image) THEN [image |-> image, state |-> "Validated", next |-> 0]
                 ELSE [image |-> <<>>, state |-> "Rejected", next |-> 0]
    /\ stager = None
    /\ exec = None
    /\ device = [memory |-> [a \in 0..(DeviceSize - 1) |-> None], transfer |-> None]
    /\ radio = [reset |-> "Uninitialized", mac |-> "ResetReady", bits |-> {}]

Section == load.image[load.next + 1]

-----------------------------------------------------------------------------
\* Reset and MAC access.  A poll sees the device ready within its limit or not.

RequestReset ==
    /\ radio.reset = "Uninitialized"
    /\ radio' = [radio EXCEPT !.reset = "ResetRequested", !.bits = @ \cup {"SW_RESET"}]
    /\ UNCHANGED <<load, stager, exec, device>>

BeginReadyWait ==
    /\ radio.reset = "ResetRequested"
    /\ radio' = [radio EXCEPT !.reset = "WaitingForReady"]
    /\ UNCHANGED <<load, stager, exec, device>>

PollReady(ready) ==
    /\ radio.reset = "WaitingForReady"
    /\ radio' = [radio EXCEPT !.reset = IF ready THEN "Ready" ELSE "Failed"]
    /\ UNCHANGED <<load, stager, exec, device>>

MarkInitDone ==
    /\ radio.reset = "Ready" /\ radio.mac = "ResetReady"
    /\ radio' = [radio EXCEPT !.mac = "InitDone", !.bits = @ \cup {"INIT_DONE"}]
    /\ UNCHANGED <<load, stager, exec, device>>

RequestAccess ==
    /\ radio.mac = "InitDone"
    /\ radio' = [radio EXCEPT !.mac = "AccessRequested", !.bits = @ \cup {"MAC_ACCESS_REQ"}]
    /\ UNCHANGED <<load, stager, exec, device>>

PollAccess(granted) ==
    /\ radio.mac = "AccessRequested"
    /\ radio' = [radio EXCEPT !.mac = IF granted THEN "Granted" ELSE "Failed"]
    /\ UNCHANGED <<load, stager, exec, device>>

ReleaseAccess ==
    /\ radio.mac = "Granted"
    /\ radio' = [radio EXCEPT !.mac = "Released", !.bits = @ \ {"MAC_ACCESS_REQ"}]
    /\ UNCHANGED <<load, stager, exec, device>>

-----------------------------------------------------------------------------
\* The load session and the stager.

BeginLoad ==
    /\ radio.mac = "Granted" /\ load.state = "Validated"
    /\ load' = [load EXCEPT !.state = "Loading"]
    /\ UNCHANGED <<stager, exec, device, radio>>

NewStager ==
    /\ load.state = "Loading" /\ stager = None
    /\ stager' = [state |-> "Ready", offset |-> 0, buffer |-> None]
    /\ UNCHANGED <<load, exec, device, radio>>

Least(a, b) == IF a < b THEN a ELSE b

\* Mutant: the destination of a chunk forgets how much was staged before.
SameOffsetMutant(n) == [dev |-> Section.dev, start |-> Section.start + stager.offset, len |-> n]

Descriptor(n) == [dev |-> Section.dev + stager.offset,
                  start |-> Section.start + stager.offset, len |-> n]

\* With no DMA memory the stager is left in Staging.
StageNext(memory) ==
    /\ stager # None /\ stager.state \in {"Ready", "Completed"} /\ stager.offset < Section.len
    /\ stager' = IF memory
                 THEN [stager EXCEPT !.state = "Staged",
                                     !.buffer = Descriptor(Least(Section.len - stager.offset, ChunkSize))]
                 ELSE [stager EXCEPT !.state = "Staging"]
    /\ UNCHANGED <<load, exec, device, radio>>

PublishChunk ==
    /\ stager # None /\ stager.state = "Staged" /\ exec = None
    /\ stager' = [stager EXCEPT !.state = "Published"]
    /\ exec' = [state |-> "Idle", prepared |-> FALSE, started |-> FALSE,
                descriptor |-> stager.buffer]
    /\ UNCHANGED <<load, device, radio>>

\* Mutant: the chunk counts as transferred as soon as it has been started.
EarlyCompleteMutant == exec # None /\ exec.state \in {"Started", "Completed"}

TransferDone == exec # None /\ exec.state = "Completed"

CompleteChunk ==
    /\ stager # None /\ stager.state = "Published" /\ TransferDone
    /\ stager' = [state |-> "Completed", offset |-> stager.offset + stager.buffer.len,
                  buffer |-> None]
    /\ exec' = None
    /\ UNCHANGED <<load, device, radio>>

CompleteSection ==
    /\ load.state = "Loading"
    /\ stager # None /\ stager.state = "Completed" /\ stager.offset = Section.len
    /\ load' = [load EXCEPT !.next = @ + 1,
                            !.state = IF load.next + 1 = Len(load.image) THEN "Loaded" ELSE @]
    /\ stager' = None
    /\ UNCHANGED <<exec, device, radio>>

\* Giving up, at any point.  The stager drops its buffer whatever the executor, which has
\* a descriptor of its own, has started.
FailLoad ==
    /\ load.state = "Loading"
    /\ load' = [load EXCEPT !.state = "Failed"]
    /\ stager' = IF stager = None THEN None ELSE [stager EXCEPT !.state = "Failed", !.buffer = None]
    /\ UNCHANGED <<exec, device, radio>>

-----------------------------------------------------------------------------
\* The executor over the Intel22000 backend; io says whether a register
\* access succeeds.

Prepare(io) ==
    /\ exec # None /\ exec.state = "Idle"
    /\ exec' = IF io /\ ~exec.prepared /\ ~exec.started
               THEN [exec EXCEPT !.state = "Prepared", !.prepared = TRUE]
               ELSE [exec EXCEPT !.state = "Failed"]
    /\ UNCHANGED <<load, stager, device, radio>>

Start(io) ==
    /\ exec # None /\ exec.state = "Prepared"
    /\ IF io /\ exec.prepared /\ ~exec.started
       THEN /\ exec' = [exec EXCEPT !.state = "Started", !.started = TRUE]
            /\ device' = [device EXCEPT !.transfer = exec.descriptor]
       ELSE /\ exec' = [exec EXCEPT !.state = "Failed"]
            /\ UNCHANGED device
    /\ UNCHANGED <<load, stager, radio>>

\* The bounded poll ends with what the device reported, or with a timeout.
WaitBounded(report) ==
    /\ exec # None /\ exec.state = "Started"
    /\ report = "Complete" => device.transfer = None
    /\ exec' = [exec EXCEPT !.state = IF report = "Complete" THEN "Completed" ELSE "Failed"]
    /\ UNCHANGED <<load, stager, device, radio>>

\* The device reads the buffer and stores the bytes, at any time after the trigger, a
\* timeout included.  What it reads of a buffer that was dropped is not known.
DeviceTransfers(intact) ==
    /\ device.transfer # None
    /\ ~intact => stager.buffer # device.transfer
    /\ LET d == device.transfer IN
       device' = [transfer |-> None,
                  memory |-> [a \in DOMAIN device.memory |->
                                IF a < d.dev \/ a >= d.dev + d.len THEN device.memory[a]
                                ELSE IF intact THEN d.start + (a - d.dev) ELSE None]]
    /\ UNCHANGED <<load, stager, exec, radio>>

FirmwareNext ==
    \/ RequestReset \/ BeginReadyWait \/ MarkInitDone \/ RequestAccess \/ ReleaseAccess
    \/ \E ok \in BOOLEAN : PollReady(ok) \/ PollAccess(ok) \/ StageNext(ok) \/ Prepare(ok) \/ Start(ok)
    \/ BeginLoad \/ NewStager \/ PublishChunk \/ CompleteChunk \/ CompleteSection \/ FailLoad
    \/ \E report \in {"Complete", "Error", "Timeout"} : WaitBounded(report)
    \/ \E intact \in BOOLEAN : DeviceTransfers(intact)

FirmwareSpec == FirmwareInit /\ [][FirmwareNext]_firmwareVars

-----------------------------------------------------------------------------
\* Every section a load session has passed, and the part of the current one
\* that its stager counts as transferred, is in device memory byte for byte:
\* no chunk lands on another, none is counted before the device has it
\* (complete_section, IntelFirmwareStager, FirmwareImage::validate).
LoadedFaithfully ==
    LET Holds(s, n) == \A k \in 0..(n - 1) : device.memory[s.dev + k] = s.start + k
    IN /\ \A i \in 1..load.next : Holds(load.image[i], load.image[i].len)
       /\ stager # None /\ load.state = "Loading" => Holds(Section, stager.offset)

\* While the device may still read a buffer, the stager holds that buffer and the executor
\* knows of the transfer, after a timeout too and whatever chunk is next, until the caller
\* gives the load up: only then can the device read memory that was dropped
\* (IntelFirmwareStager::complete and fail, IntelFirmwareTransferExecutor).
TransferBacked ==
    device.transfer # None =>
        /\ exec # None /\ exec.started /\ exec.descriptor = device.transfer
        /\ stager # None /\ (stager.buffer = device.transfer \/ load.state = "Failed")

-----------------------------------------------------------------------------
(* Starting the firmware from host memory.                                 *)

bootVars == <<free, context, startup, ring, posts, delivered>>

Slots == 0..(CAPACITY - 1)

EmptySlot == [owner |-> "Cpu", buffer |-> None, post |-> 0, packet |-> None]

EmptyRing == [slot |-> [s \in Slots |-> EmptySlot], head |-> 0, tail |-> 0, count |-> 0,
              deviceOwned |-> 0, completed |-> 0]

BootInit ==
    /\ free = Frames
    /\ context = [entry |-> [k \in Kinds |-> <<>>], dma |-> {}, rx |-> FALSE, command |-> FALSE,
                  built |-> None]
    /\ startup = "Reset"
    /\ ring = EmptyRing
    /\ posts = 0
    /\ delivered = [written |-> {}, dispatched |-> <<>>]

-----------------------------------------------------------------------------
\* The context-info table and the start of the device CPU.

SetRxQueue == /\ ~context.rx
              /\ context' = [context EXCEPT !.rx = TRUE]
              /\ UNCHANGED <<free, startup, ring, posts, delivered>>

SetCommandQueue == /\ ~context.command
                   /\ context' = [context EXCEPT !.command = TRUE]
                   /\ UNCHANGED <<free, startup, ring, posts, delivered>>

\* Mutant: the buffer is not kept, so its frame goes back to the allocator.
ForgetBufferMutant(f) == context.dma

Kept(f) == context.dma \cup {f}

StageFirmwareChunk(k) ==
    /\ free # {} /\ Cardinality(context.dma) < MaxEntries
    /\ \E f \in free :
          /\ context' = [context EXCEPT !.entry[k] = Append(@, f), !.dma = Kept(f)]
          /\ free' = free \ Kept(f)
    /\ UNCHANGED <<startup, ring, posts, delivered>>

ReadyForPublication == context.rx /\ context.command /\ context.dma # {}

BuildHardwareContext ==
    /\ ReadyForPublication /\ free # {} /\ context.built = None
    /\ \E f \in free : /\ context' = [context EXCEPT !.built = [frame |-> f, entry |-> context.entry]]
                       /\ free' = free \ {f}
    /\ UNCHANGED <<startup, ring, posts, delivered>>

PublishContext ==
    /\ startup = "Reset" /\ context.built # None
    /\ startup' = "ContextPublished"
    /\ UNCHANGED <<free, context, ring, posts, delivered>>

IssueCpuInitRun(io) ==
    /\ startup = "ContextPublished"
    /\ startup' = IF io THEN "CpuRunIssued" ELSE "Failed"
    /\ UNCHANGED <<free, context, ring, posts, delivered>>

BeginAliveWait ==
    /\ startup = "CpuRunIssued"
    /\ startup' = "AwaitingAlive"
    /\ UNCHANGED <<free, context, ring, posts, delivered>>

-----------------------------------------------------------------------------
\* Receive buffers.  A buffer that the full ring refuses is dropped again.

PostBuffer ==
    /\ posts < MaxPosts /\ ring.count < CAPACITY
    /\ ring.slot[ring.tail].owner = "Cpu" /\ ring.slot[ring.tail].buffer = None
    /\ \E f \in free :
          /\ free' = free \ {f}
          /\ ring' = [ring EXCEPT !.slot[ring.tail] = [owner |-> "Device", buffer |-> f,
                                                       post |-> posts + 1, packet |-> None],
                                  !.tail = (@ + 1) % CAPACITY, !.count = @ + 1,
                                  !.deviceOwned = @ + 1]
    /\ posts' = posts + 1
    /\ UNCHANGED <<context, startup, delivered>>

CompleteFromDevice(s, p) ==
    /\ ring.slot[s].owner = "Device"
    /\ ring' = [ring EXCEPT !.slot[s].owner = "Completed", !.slot[s].packet = p,
                            !.deviceOwned = @ - 1, !.completed = @ + 1]
    /\ delivered' = [delivered EXCEPT !.written = @ \cup {[post |-> ring.slot[s].post, packet |-> p]}]
    /\ UNCHANGED <<free, context, startup, posts>>

\* Mutant: any completed slot is reclaimed, not only the oldest.
AnyCompletedMutant(s) == ring.slot[s].owner = "Completed"

Reclaimable(s) == s = ring.head /\ ring.slot[s].owner = "Completed"

\* What a packet says: not a notification at all, not ALIVE, an ALIVE of a
\* known version with an accepted status, or one without.
Notification(p) == p # "malformed"

Alive(p) == p \in {"alive", "rejected"}

AliveAccepted(p) == p = "alive"

\* Only an ALIVE notification, and only while it is awaited, changes anything.
HandleAlive(p) ==
    IF startup # "AwaitingAlive" \/ ~Notification(p) \/ ~Alive(p) THEN startup
    ELSE IF AliveAccepted(p) THEN "FirmwareRunning" ELSE "Failed"

DispatchCompleted(s) ==
    /\ ring.count > 0 /\ Reclaimable(s)
    /\ ring' = [ring EXCEPT !.slot[s] = EmptySlot, !.head = (@ + 1) % CAPACITY,
                            !.count = @ - 1, !.completed = @ - 1]
    /\ free' = free \cup {ring.slot[s].buffer}
    /\ startup' = HandleAlive(ring.slot[s].packet)
    /\ delivered' = [delivered EXCEPT !.dispatched =
                        Append(@, [post |-> ring.slot[s].post, packet |-> ring.slot[s].packet])]
    /\ UNCHANGED <<context, posts>>

Quiesce ==
    /\ ring.deviceOwned = 0 /\ ring # EmptyRing
    /\ free' = free \cup {ring.slot[s].buffer : s \in {s \in Slots : ring.slot[s].buffer # None}}
    /\ ring' = EmptyRing
    /\ UNCHANGED <<context, startup, posts, delivered>>

BootNext ==
    \/ SetRxQueue \/ SetCommandQueue \/ BuildHardwareContext \/ PublishContext \/ BeginAliveWait
    \/ \E k \in Kinds : StageFirmwareChunk(k)
    \/ \E io \in BOOLEAN : IssueCpuInitRun(io)
    \/ PostBuffer \/ Quiesce
    \/ \E s \in Slots : DispatchCompleted(s) \/ \E p \in Packets : CompleteFromDevice(s, p)

BootSpec == BootInit /\ [][BootNext]_bootVars

-----------------------------------------------------------------------------
\* The ring's counters are exact, its occupied slots are the window from head
\* to tail, and every frame is in exactly one place: no buffer that the device
\* may write, and none that a published context names, is back in the
\* allocator (OwnedBufferQueue, Intel22000DmaContextInfo, Drop of OwnedDmaBuffer).
BuffersOwned ==
    LET In(owner) == {s \in Slots : ring.slot[s].owner = owner}
        Held == {ring.slot[s].buffer : s \in Slots \ In("Cpu")}
        Named == UNION {ToSet(context.entry[k]) : k \in Kinds}
        Built == IF context.built = None THEN {} ELSE {context.built.frame}
    IN /\ ring.deviceOwned = Cardinality(In("Device"))
       /\ ring.completed = Cardinality(In("Completed"))
       /\ Slots \ In("Cpu") = {(ring.head + i) % CAPACITY : i \in 0..(ring.count - 1)}
       /\ ring.tail = (ring.head + ring.count) % CAPACITY
       /\ Cardinality(Held) = ring.count
       /\ free \cap (Held \cup Named \cup Built) = {}
       /\ Cardinality(free) + ring.count + Cardinality(Named) + Cardinality(Built) = Cardinality(Frames)

\* Packets are handed on in the order their buffers were posted, each at most
\* once, with the contents that the device completed in that very buffer,
\* although completions come in any order; and the firmware is reported
\* running only after an ALIVE among them that followed the publication of a
\* complete context (dispatch_completed, Intel22000FirmwareStartup).
PacketsInOrder ==
    LET d == delivered.dispatched
    IN /\ \A i, j \in DOMAIN d : i < j => d[i].post < d[j].post
       /\ ToSet(d) \subseteq delivered.written
       /\ startup = "FirmwareRunning" =>
             /\ \E i \in DOMAIN d : d[i].packet = "alive"
             /\ context.built # None /\ \E k \in Kinds : context.built.entry[k] # <<>>
=============================================================================

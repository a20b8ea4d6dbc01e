------------------------------ MODULE NvmeQueue ------------------------------
(***************************************************************************)
(* The NVMe disk (nvme.rs): one submission and one completion queue, one   *)
(* command of the driver at a time, and one transfer page for every        *)
(* command.  The driver polls; a command it gives up on stays with the     *)
(* device, which may still move its data and complete it while a later     *)
(* command is being prepared or is running.                                *)
(*                                                                         *)
(* Calls are serialized by CONTROLLER's lock.  A call is three steps for   *)
(* the device to come between: the data is copied to the transfer page,    *)
(* the command is submitted, and the completion entry is looked at.        *)
(***************************************************************************)
EXTENDS Naturals, FiniteSets

CONSTANTS Lbas, Values,
          DEPTH,          \* entries of either queue
          CidModulus,     \* 2^16: command identifiers wrap, skipping 0
          MaxCommands,    \* bound: commands of a behaviour
          None

VARIABLES up,        \* init has published a controller
          io,        \* Queue: the driver's tail, head, phase and next identifier
          sq, cq,    \* the rings in shared memory
          transfer,  \* the transfer page
          disk,
          call,      \* the driver's call in progress
          device,    \* external: indices of the controller and the commands it has fetched
          known,     \* history: what each sector must hold, None when a write of it failed
          amiss      \* history: "misread", "overtaken"

nvmeVars == <<up, io, sq, cq, transfer, disk, call, device, known, amiss>>

Ring == 0 .. DEPTH - 1
Idle == [at |-> "idle"]
NoCommand == [cid |-> 0, op |-> "flush", lba |-> None]

Queue_new == [sq_tail |-> 0, cq_head |-> 0, phase |-> TRUE, next_cid |-> 1, issued |-> 0]

NvmeInit ==
    /\ up = FALSE
    /\ io = Queue_new
    /\ sq = [s \in Ring |-> NoCommand]
    /\ cq = [s \in Ring |-> [cid |-> 0, ok |-> TRUE, phase |-> FALSE]]
    /\ \E v \in Values : transfer = v /\ disk = [l \in Lbas |-> v]
    /\ call = Idle
    /\ device = [head |-> 0, tail |-> 0, cq_tail |-> 0, cq_head |-> 0, phase |-> TRUE, running |-> {}, moved |-> {}]
    /\ known = disk
    /\ amiss = {}

-----------------------------------------------------------------------------
(* The driver.                                                             *)

\* init: a controller that was reset, identified and given its I/O queues is published; if
\* any of this fails there is none, and init may be called again.
init(ok) ==
    /\ ~up
    /\ up' = ok
    /\ UNCHANGED <<io, sq, cq, transfer, disk, call, device, known, amiss>>

\* rw and flush up to the command: a write's data goes to the transfer page.
Begin(op, l, v) ==
    /\ up /\ call = Idle /\ io.issued < MaxCommands
    /\ call' = [at |-> "submit", op |-> op, lba |-> l, value |-> v]
    /\ transfer' = IF op = "write" THEN v ELSE transfer
    /\ known' = IF op = "write" THEN [known EXCEPT ![l] = None] ELSE known
    /\ UNCHANGED <<up, io, sq, cq, disk, device, amiss>>

NextCid(c) == IF (c + 1) % CidModulus = 0 THEN 1 ELSE (c + 1) % CidModulus

\* command and submit: the entry is written and the tail advanced, then the doorbell
\* publishes the tail.  When the doorbell cannot be mapped the call fails, and the next
\* doorbell publishes this command too.
submit(rung) ==
    LET tail == (io.sq_tail + 1) % DEPTH
    IN  /\ call.at = "submit"
        /\ sq' = [sq EXCEPT ![io.sq_tail] = [cid |-> io.next_cid, op |-> call.op, lba |-> call.lba]]
        /\ io' = [io EXCEPT !.sq_tail = tail, !.next_cid = NextCid(@), !.issued = @ + 1]
        /\ device' = IF rung THEN [device EXCEPT !.tail = tail] ELSE device
        /\ call' = IF rung THEN [at |-> "wait", op |-> call.op, lba |-> call.lba, value |-> call.value,
                                  cid |-> io.next_cid]
                    ELSE Idle
        /\ UNCHANGED <<up, cq, transfer, disk, known, amiss>>

Completed == cq[io.cq_head].phase = io.phase

\* Mutant: any completion is taken for the command's own.
AnyCidMutant(entry) == entry.ok

Own(entry) == entry.cid = call.cid /\ entry.ok

\* wait: an entry of the expected phase.  One that is another command's, or an error, ends
\* the call and is not consumed.  When the doorbell cannot be mapped the entry is consumed
\* and the call fails.
wait(rung) ==
    LET entry == cq[io.cq_head]
        head == (io.cq_head + 1) % DEPTH
    IN  /\ call.at = "wait" /\ Completed
        /\ call' = Idle
        /\ IF Own(entry)
           THEN /\ io' = [io EXCEPT !.cq_head = head, !.phase = IF head = 0 THEN ~@ ELSE @]
                /\ device' = IF rung THEN [device EXCEPT !.cq_head = head] ELSE device
                /\ known' = IF call.op = "write" /\ rung
                            THEN [known EXCEPT ![call.lba] = call.value] ELSE known
                /\ amiss' = IF call.op = "read" /\ rung /\ transfer # disk[call.lba]
                            THEN amiss \cup {"misread"} ELSE amiss
           ELSE UNCHANGED <<io, device, known, amiss>>
        /\ UNCHANGED <<up, sq, cq, transfer, disk>>

\* The poll limit is reached.
Timeout ==
    /\ call.at = "wait" /\ ~Completed
    /\ call' = Idle
    /\ UNCHANGED <<up, io, sq, cq, transfer, disk, device, known, amiss>>

-----------------------------------------------------------------------------
(* The device: commands it has fetched may proceed in any order.           *)

Fetch ==
    /\ device.head # device.tail
    /\ device' = [device EXCEPT !.head = (@ + 1) % DEPTH, !.running = @ \cup {sq[device.head]}]
    /\ UNCHANGED <<up, io, sq, cq, transfer, disk, call, known, amiss>>

Move(c) ==
    /\ c \in device.running \ device.moved
    /\ device' = [device EXCEPT !.moved = @ \cup {c}]
    /\ transfer' = IF c.op = "read" THEN disk[c.lba] ELSE transfer
    /\ disk' = IF c.op = "write" THEN [disk EXCEPT ![c.lba] = transfer] ELSE disk
    /\ UNCHANGED <<up, io, sq, cq, call, known, amiss>>

\* A completion entry needs room; an error may come before or after the data moved.
Complete(c, ok) ==
    /\ c \in device.running /\ (ok => c \in device.moved)
    /\ (device.cq_tail + 1) % DEPTH # device.cq_head
    /\ cq' = [cq EXCEPT ![device.cq_tail] = [cid |-> c.cid, ok |-> ok, phase |-> device.phase]]
    /\ device' = [device EXCEPT !.cq_tail = (@ + 1) % DEPTH,
                                !.phase = IF (device.cq_tail + 1) % DEPTH = 0 THEN ~@ ELSE @,
                                !.running = @ \ {c}, !.moved = @ \ {c}]
    /\ amiss' = IF device.running # {c} THEN amiss \cup {"overtaken"} ELSE amiss
    /\ UNCHANGED <<up, io, sq, transfer, disk, call, known>>

NvmeNext ==
    \/ \E ok \in BOOLEAN : init(ok)
    \/ \E l \in Lbas : \/ Begin("read", l, None) \/ \E v \in Values : Begin("write", l, v)
    \/ Begin("flush", None, None)
    \/ \E rung \in BOOLEAN : submit(rung) \/ wait(rung)
    \/ Timeout \/ Fetch
    \/ \E c \in device.running : Move(c) \/ \E ok \in BOOLEAN : Complete(c, ok)

NvmeSpec == NvmeInit /\ [][NvmeNext]_nvmeVars

-----------------------------------------------------------------------------
(* Properties.                                                             *)

\* A command reported successful did what it says, whatever timed out before it: a read
\* returned its sector and a write's sector holds its data until the next write of it.
\* Only a device that completes a command while it still works on an abandoned one can
\* break this: the shared transfer page then carries the wrong sector (Queue::wait, rw).
NvmeTruthful ==
    "overtaken" \notin amiss =>
        /\ "misread" \notin amiss
        /\ \A l \in Lbas : known[l] # None => disk[l] = known[l]
=============================================================================

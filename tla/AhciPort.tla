------------------------------- MODULE AhciPort -------------------------------
(***************************************************************************)
(* The AHCI disk (ahci.rs): a port with one command slot, one command      *)
(* table and one transfer page.  The driver polls; a command it gives up   *)
(* on stays in the slot, and the next call fills the same page and table.  *)
(* Calls are serialized by CONTROLLER's lock.                              *)
(***************************************************************************)
EXTENDS Naturals

CONSTANTS Lbas, Values,
          MaxCommands,    \* bound: commands of a behaviour
          None

VARIABLES port,      \* PxCI, busy (PxTFD) and the task-file error of PxIS
          engine,    \* "off", "started" by initialize, or "published" as a disk by init
          table,     \* the command table
          transfer,  \* the transfer page
          disk,
          call,      \* the driver's call in progress
          running,   \* external: the command the device has fetched
          known,     \* history: what each sector must hold, None when a write of it failed
          amiss,     \* history: "misread", "clobbered"
          issued

ahciVars == <<port, engine, table, transfer, disk, call, running, known, amiss, issued>>

Idle == [at |-> "idle"]
Quiet == [at |-> "none"]
NoTable == [op |-> "none", lba |-> None]

AhciInit ==
    /\ port = [ci |-> FALSE, busy |-> FALSE, fault |-> FALSE]
    /\ engine = "off"
    /\ table = NoTable
    /\ transfer = None
    /\ \E v \in Values : disk = [l \in Lbas |-> v]
    /\ call = Idle
    /\ running = Quiet
    /\ known = disk
    /\ amiss = {}
    /\ issued = 0

-----------------------------------------------------------------------------
(* The driver.                                                             *)

\* initialize up to identify: the engine of a port is stopped, which ends what an earlier
\* attempt left there, and started with fresh zeroed pages and the status cleared.
initialize ==
    /\ engine = "off"
    /\ engine' = "started"
    /\ port' = [ci |-> FALSE, busy |-> FALSE, fault |-> FALSE]
    /\ running' = Quiet
    /\ table' = NoTable /\ transfer' = None
    /\ UNCHANGED <<disk, call, known, amiss, issued>>

\* An abandoned command still owns the page and the table.
Owned == port.ci \/ running # Quiet

\* identify, rw or flush up to wait_tfd_clear: the transfer page, then the header and the
\* table (prepare_command) are rewritten.
Begin(op, l, v) ==
    /\ engine = (IF op = "identify" THEN "started" ELSE "published")
    /\ call = Idle /\ issued < MaxCommands
    /\ issued' = issued + 1
    /\ transfer' = IF op \in {"write", "identify"} THEN v ELSE transfer
    /\ table' = [op |-> op, lba |-> l]
    /\ call' = [at |-> "tfd", op |-> op, lba |-> l, value |-> v]
    /\ known' = IF op = "write" THEN [known EXCEPT ![l] = None] ELSE known
    /\ amiss' = IF Owned THEN amiss \cup {"clobbered"} ELSE amiss
    /\ UNCHANGED <<port, engine, disk, running>>

Ready == ~port.busy

\* wait_tfd_clear, then the interrupt status is cleared and the slot is set.
issue ==
    /\ call.at = "tfd" /\ Ready
    /\ port' = [port EXCEPT !.ci = TRUE, !.fault = FALSE]
    /\ call' = [call EXCEPT !.at = "poll"]
    /\ UNCHANGED <<engine, table, transfer, disk, running, known, amiss, issued>>

\* Mutant: the slot is not looked at.
NoSlotMutant == TRUE

Finished == ~port.ci

\* The outcome of identify decides whether there is a disk; init may be called again.
Identified(ok) ==
    engine' = IF call.op # "identify" THEN engine ELSE IF ok THEN "published" ELSE "off"

\* The slot is clear: the call fails on a task-file error and succeeds otherwise, if the
\* disk is a supported one.
Poll(supported) ==
    /\ call.at = "poll" /\ Finished
    /\ call' = Idle
    /\ Identified(~port.fault /\ supported)
    /\ known' = IF call.op = "write" /\ ~port.fault THEN [known EXCEPT ![call.lba] = call.value] ELSE known
    /\ amiss' = IF call.op = "read" /\ ~port.fault /\ transfer # disk[call.lba]
                THEN amiss \cup {"misread"} ELSE amiss
    /\ UNCHANGED <<port, table, transfer, disk, running, issued>>

\* Either poll limit, or a register that cannot be mapped.
Timeout ==
    /\ call.at \in {"tfd", "poll"}
    /\ call' = Idle
    /\ Identified(FALSE)
    /\ UNCHANGED <<port, table, transfer, disk, running, known, amiss, issued>>

-----------------------------------------------------------------------------
(* The device.                                                             *)

Fetch ==
    /\ port.ci /\ running = Quiet
    /\ running' = [at |-> "fetched", op |-> table.op, lba |-> table.lba]
    /\ port' = [port EXCEPT !.busy = TRUE]
    /\ UNCHANGED <<engine, table, transfer, disk, call, known, amiss, issued>>

Move ==
    /\ running.at = "fetched"
    /\ running' = [running EXCEPT !.at = "moved"]
    /\ transfer' = IF running.op = "read" THEN disk[running.lba]
                   ELSE IF running.op = "identify" THEN None ELSE transfer
    /\ disk' = IF running.op = "write" THEN [disk EXCEPT ![running.lba] = transfer] ELSE disk
    /\ UNCHANGED <<port, engine, table, call, known, amiss, issued>>

Finish(fault) ==
    /\ running # Quiet /\ (running.at = "moved" \/ fault)
    /\ running' = Quiet
    /\ port' = [ci |-> FALSE, busy |-> FALSE, fault |-> port.fault \/ fault]
    /\ UNCHANGED <<engine, table, transfer, disk, call, known, amiss, issued>>

AhciNext ==
    \/ initialize \/ Begin("identify", None, None)
    \/ \E l \in Lbas : Begin("read", l, None) \/ \E v \in Values : Begin("write", l, v)
    \/ Begin("flush", None, None)
    \/ issue \/ Timeout \/ \E supported \in BOOLEAN : Poll(supported)
    \/ Fetch \/ Move \/ \E fault \in BOOLEAN : Finish(fault)

AhciSpec == AhciInit /\ [][AhciNext]_ahciVars

-----------------------------------------------------------------------------
(* Properties.                                                             *)

\* A call reported successful did what it says, unless an earlier call that timed out
\* still owned the page and the table it was prepared in: then the late command's data
\* can take the place of the new one's (rw, issue; ahci.rs:184-223).
AhciTruthful ==
    "clobbered" \notin amiss =>
        /\ "misread" \notin amiss
        /\ \A l \in Lbas : known[l] # None => disk[l] = known[l]
=============================================================================

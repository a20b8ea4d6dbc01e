-------------------------------- MODULE Pipe --------------------------------
(***************************************************************************)
(* Anonymous pipes (kernel/src/pipe.rs) with the descriptors that refer to *)
(* them (task.rs) and the scheduler's event latch.                         *)
(*                                                                         *)
(* A system call is a sequence of critical sections of the pipe table's    *)
(* lock and of signals to single tasks; processes on other CPUs run in     *)
(* between.  The table has one pipe slot, so every new pipe reuses it.     *)
(* Bytes are numbered in the order they are written, from 1.               *)
(***************************************************************************)
EXTENDS Naturals, FiniteSets, FiniteSetsExt, FiniteSetTheorems, TLAPS

CONSTANTS
    Procs,
    PIPE_BUFFER,
    MAX_WAITERS,
    MaxEpoch,     \* bound: pipes created
    MaxCall,      \* bound: bytes of one read or write
    MaxSent       \* bound: bytes written to one pipe

ASSUME PipeAssumption ==
    /\ IsFiniteSet(Procs) /\ PIPE_BUFFER \in Nat \ {0}
    /\ MAX_WAITERS \in Nat /\ MaxEpoch \in Nat /\ MaxCall \in Nat /\ MaxSent \in Nat

VARIABLES
    pipe,      \* the pipe in the slot
    epoch,     \* generations[slot]: the epoch of the last pipe
    fds,       \* epoch of the pipe each process can read and write, 0 if none
    call,      \* the system call each process is in
    latch,     \* event_pending of each process
    sent,      \* bytes written to this pipe
    received   \* bytes read from this pipe

pipeVars == <<pipe, epoch, fds, call, latch, sent, received>>

Position == 0 .. PIPE_BUFFER - 1

EmptyPipe ==
    [epoch |-> 0, occupied |-> FALSE, data |-> [i \in Position |-> 0],
     head |-> 0, tail |-> 0, len |-> 0, readers |-> 0, writers |-> 0,
     read_waiters |-> {}, write_waiters |-> {}]

NoCall == [pc |-> "idle", id |-> 0, left |-> 0, total |-> 0, wake |-> {}]

PipeInit ==
    /\ pipe = EmptyPipe
    /\ epoch = 0
    /\ fds = [p \in Procs |-> [read |-> 0, write |-> 0]]
    /\ call = [p \in Procs |-> NoCall]
    /\ latch = [p \in Procs |-> FALSE]
    /\ sent = 0 /\ received = 0

(* Table::get.                                                             *)
Valid(id) == pipe.occupied /\ pipe.epoch = id

At(p, where) == call[p].pc = where
Goto(p, where) == call' = [call EXCEPT ![p].pc = where]
Return(p) == call' = [call EXCEPT ![p] = NoCall]

(* Table::push_waiter.                                                     *)
Pushable(waiters, p) == p \in waiters \/ Cardinality(waiters) < MAX_WAITERS

----------------------------------------------------------------------------
(***************************************************************************)
(* Descriptors.                                                            *)
(***************************************************************************)

(* pipe_current: Table::alloc, both ends to the caller.                    *)
Create(p) ==
    /\ At(p, "idle") /\ fds[p] = [read |-> 0, write |-> 0]
    /\ ~pipe.occupied /\ epoch < MaxEpoch
    /\ epoch' = epoch + 1
    /\ pipe' = [EmptyPipe EXCEPT !.epoch = epoch + 1, !.occupied = TRUE,
                                 !.readers = 1, !.writers = 1]
    /\ fds' = [fds EXCEPT ![p] = [read |-> epoch + 1, write |-> epoch + 1]]
    /\ sent' = 0 /\ received' = 0
    /\ UNCHANGED <<call, latch>>

(* clone_reader and clone_writer, for the descriptor another process       *)
(* inherits at fork.                                                       *)
CloneReader(p, q) ==
    /\ At(p, "idle") /\ At(q, "idle")
    /\ fds[p].read # 0 /\ fds[q].read = 0 /\ Valid(fds[p].read)
    /\ fds' = [fds EXCEPT ![q].read = fds[p].read]
    /\ pipe' = [pipe EXCEPT !.readers = @ + 1]
    /\ UNCHANGED <<epoch, call, latch, sent, received>>

CloneWriter(p, q) ==
    /\ At(p, "idle") /\ At(q, "idle")
    /\ fds[p].write # 0 /\ fds[q].write = 0 /\ Valid(fds[p].write)
    /\ fds' = [fds EXCEPT ![q].write = fds[p].write]
    /\ pipe' = [pipe EXCEPT !.writers = @ + 1]
    /\ UNCHANGED <<epoch, call, latch, sent, received>>

(* close_current: the descriptor goes first, under PROCESS_TABLE.          *)
StartClose(p) ==
    /\ At(p, "idle")
    /\ \/ /\ fds[p].read # 0
          /\ fds' = [fds EXCEPT ![p].read = 0]
          /\ call' = [call EXCEPT ![p].pc = "close_reader", ![p].id = fds[p].read]
       \/ /\ fds[p].write # 0
          /\ fds' = [fds EXCEPT ![p].write = 0]
          /\ call' = [call EXCEPT ![p].pc = "close_writer", ![p].id = fds[p].write]
    /\ UNCHANGED <<pipe, epoch, latch, sent, received>>

(* The slot is freed when the last end is closed.                          *)
Freed(P) == IF P.readers = 0 /\ P.writers = 0 THEN EmptyPipe ELSE P

CloseAllMutant(p) ==
    /\ At(p, "close_reader")
    /\ pipe' = Freed([pipe EXCEPT !.readers = 0, !.write_waiters = {}])
    /\ call' = [call EXCEPT ![p].pc = "wake", ![p].wake = pipe.write_waiters]
    /\ UNCHANGED <<epoch, fds, latch, sent, received>>

CloseReader(p) ==
    /\ At(p, "close_reader")
    /\ \/ ~Valid(call[p].id) /\ Return(p) /\ UNCHANGED pipe
       \/ /\ Valid(call[p].id)
          /\ pipe' = Freed([pipe EXCEPT !.readers = @ - 1, !.write_waiters = {}])
          /\ call' = [call EXCEPT ![p].pc = "wake", ![p].wake = pipe.write_waiters]
    /\ UNCHANGED <<epoch, fds, latch, sent, received>>

SilentCloseMutant(p) ==
    /\ At(p, "close_writer")
    /\ pipe' = Freed([pipe EXCEPT !.writers = @ - 1])
    /\ Return(p)
    /\ UNCHANGED <<epoch, fds, latch, sent, received>>

CloseWriter(p) ==
    /\ At(p, "close_writer")
    /\ \/ ~Valid(call[p].id) /\ Return(p) /\ UNCHANGED pipe
       \/ /\ Valid(call[p].id)
          /\ pipe' = Freed([pipe EXCEPT !.writers = @ - 1, !.read_waiters = {}])
          /\ call' = [call EXCEPT ![p].pc = "wake", ![p].wake = pipe.read_waiters]
    /\ UNCHANGED <<epoch, fds, latch, sent, received>>

----------------------------------------------------------------------------
(***************************************************************************)
(* write.                                                                  *)
(***************************************************************************)

StartWrite(p, n) ==
    /\ At(p, "idle") /\ fds[p].write # 0
    /\ sent + n <= MaxSent
    /\ call' = [call EXCEPT ![p] = [NoCall EXCEPT !.pc = "write", !.id = fds[p].write,
                                                  !.left = n]]
    /\ UNCHANGED <<pipe, epoch, fds, latch, sent, received>>

(* The ring after k bytes, numbered from sent + 1, are written to it.      *)
Filled(k) ==
    [pipe EXCEPT
       !.data = [i \in Position |->
                   LET d == (i + PIPE_BUFFER - pipe.tail) % PIPE_BUFFER
                   IN IF d < k THEN sent + d + 1 ELSE @[i]],
       !.tail = (@ + k) % PIPE_BUFFER,
       !.len = @ + k]

Room(p) == Min({call[p].left, PIPE_BUFFER - pipe.len})

TryWrite(p) ==
    /\ At(p, "write")
    /\ \/ /\ ~Valid(call[p].id) \/ pipe.readers = 0
          /\ Return(p)
          /\ UNCHANGED <<pipe, sent>>
       \/ /\ Valid(call[p].id) /\ pipe.readers > 0 /\ Room(p) > 0
          /\ pipe' = Filled(Room(p))
          /\ sent' = sent + Room(p)
          /\ call' = [call EXCEPT ![p].pc = "write_take", ![p].left = @ - Room(p),
                                  ![p].total = @ + Room(p)]
       \/ /\ Valid(call[p].id) /\ pipe.readers > 0 /\ Room(p) = 0
          /\ \/ /\ Pushable(pipe.write_waiters, p)
                /\ pipe' = [pipe EXCEPT !.write_waiters = @ \cup {p}]
                /\ Goto(p, "write_check")
             \/ /\ ~Pushable(pipe.write_waiters, p)
                /\ Return(p)
                /\ UNCHANGED pipe
          /\ UNCHANGED sent
    /\ UNCHANGED <<epoch, fds, latch, received>>

(* take_waiters of the other end, after data was moved.                    *)
WriteTake(p) ==
    /\ At(p, "write_take")
    /\ IF Valid(call[p].id)
       THEN /\ pipe' = [pipe EXCEPT !.read_waiters = {}]
            /\ call' = [call EXCEPT ![p].pc = "wake", ![p].wake = pipe.read_waiters]
       ELSE Goto(p, "wake") /\ UNCHANGED pipe
    /\ UNCHANGED <<epoch, fds, latch, sent, received>>

WriteCheck(p) ==
    /\ At(p, "write_check")
    /\ Goto(p, IF Valid(call[p].id) /\ pipe.readers > 0 /\ pipe.len >= PIPE_BUFFER
               THEN "write_wait" ELSE "write")
    /\ UNCHANGED <<pipe, epoch, fds, latch, sent, received>>

----------------------------------------------------------------------------
(***************************************************************************)
(* read.                                                                   *)
(***************************************************************************)

StartRead(p, n) ==
    /\ At(p, "idle") /\ fds[p].read # 0
    /\ call' = [call EXCEPT ![p] = [NoCall EXCEPT !.pc = "read", !.id = fds[p].read,
                                                  !.left = n]]
    /\ UNCHANGED <<pipe, epoch, fds, latch, sent, received>>

HeadStaysMutant(k) == [pipe EXCEPT !.len = @ - k]

Emptied(k) == [pipe EXCEPT !.head = (@ + k) % PIPE_BUFFER, !.len = @ - k]

Available(p) == Min({call[p].left, pipe.len})

TryRead(p) ==
    /\ At(p, "read")
    /\ \/ /\ ~Valid(call[p].id) \/ (pipe.len = 0 /\ pipe.writers = 0)
          /\ Return(p)
          /\ UNCHANGED <<pipe, received>>
       \/ /\ Valid(call[p].id) /\ pipe.len > 0
          /\ pipe' = Emptied(Available(p))
          /\ received' = received + Available(p)
          /\ call' = [call EXCEPT ![p].pc = "read_take", ![p].left = 0,
                                  ![p].total = Available(p)]
       \/ /\ Valid(call[p].id) /\ pipe.len = 0 /\ pipe.writers > 0
          /\ \/ /\ Pushable(pipe.read_waiters, p)
                /\ pipe' = [pipe EXCEPT !.read_waiters = @ \cup {p}]
                /\ Goto(p, "read_check")
             \/ /\ ~Pushable(pipe.read_waiters, p)
                /\ Return(p)
                /\ UNCHANGED pipe
          /\ UNCHANGED received
    /\ UNCHANGED <<epoch, fds, latch, sent>>

ReadTake(p) ==
    /\ At(p, "read_take")
    /\ IF Valid(call[p].id)
       THEN /\ pipe' = [pipe EXCEPT !.write_waiters = {}]
            /\ call' = [call EXCEPT ![p].pc = "wake", ![p].wake = pipe.write_waiters]
       ELSE Goto(p, "wake") /\ UNCHANGED pipe
    /\ UNCHANGED <<epoch, fds, latch, sent, received>>

ReadCheck(p) ==
    /\ At(p, "read_check")
    /\ Goto(p, IF Valid(call[p].id) /\ pipe.len = 0 /\ pipe.writers > 0
               THEN "read_wait" ELSE "read")
    /\ UNCHANGED <<pipe, epoch, fds, latch, sent, received>>

----------------------------------------------------------------------------
(***************************************************************************)
(* Waiting and waking (task.rs).                                           *)
(***************************************************************************)

Retry(where) == IF where \in {"write_wait", "write_blocked"} THEN "write" ELSE "read"

WaitForEvent(p) ==
    /\ call[p].pc \in {"write_wait", "read_wait"}
    /\ \/ /\ latch[p]
          /\ latch' = [latch EXCEPT ![p] = FALSE]
          /\ Goto(p, Retry(call[p].pc))
       \/ /\ ~latch[p]
          /\ Goto(p, IF At(p, "write_wait") THEN "write_blocked" ELSE "read_blocked")
          /\ UNCHANGED latch
    /\ UNCHANGED <<pipe, epoch, fds, sent, received>>

Blocked(p) == call[p].pc \in {"write_blocked", "read_blocked"}

(* signal_event, once for each task of wake_list.                          *)
SignalEvent(p, q) ==
    /\ At(p, "wake") /\ q \in call[p].wake
    /\ IF Blocked(q)
       THEN /\ call' = [call EXCEPT ![p].wake = @ \ {q}, ![q].pc = Retry(@)]
            /\ UNCHANGED latch
       ELSE /\ call' = [call EXCEPT ![p].wake = @ \ {q}]
            /\ latch' = [latch EXCEPT ![q] = TRUE]
    /\ UNCHANGED <<pipe, epoch, fds, sent, received>>

(* wake_list is done: a write goes on until all its bytes are written.     *)
Woke(p) ==
    /\ At(p, "wake") /\ call[p].wake = {}
    /\ IF call[p].left > 0 THEN Goto(p, "write") ELSE Return(p)
    /\ UNCHANGED <<pipe, epoch, fds, latch, sent, received>>

Step(p) ==
    \/ CloseReader(p) \/ CloseWriter(p)
    \/ TryWrite(p) \/ WriteTake(p) \/ WriteCheck(p)
    \/ TryRead(p) \/ ReadTake(p) \/ ReadCheck(p)
    \/ WaitForEvent(p) \/ Woke(p)
    \/ \E q \in Procs : SignalEvent(p, q)

Begin(p) ==
    \/ Create(p) \/ StartClose(p)
    \/ \E q \in Procs : CloneReader(p, q) \/ CloneWriter(p, q)
    \/ \E n \in 1 .. MaxCall : StartWrite(p, n) \/ StartRead(p, n)

PipeNext == \E p \in Procs : Begin(p) \/ Step(p)

PipeSpec == PipeInit /\ [][PipeNext]_pipeVars

(* A process inside a system call keeps running; nothing obliges it to     *)
(* start one.                                                              *)
FairPipeSpec == PipeSpec /\ \A p \in Procs : WF_pipeVars(Step(p))

----------------------------------------------------------------------------
(***************************************************************************)
(* Properties.                                                             *)
(***************************************************************************)

Count == 0 .. Cardinality(Procs)

PC == {"idle", "close_reader", "close_writer", "write", "write_take", "write_check",
       "write_wait", "write_blocked", "read", "read_take", "read_check", "read_wait",
       "read_blocked", "wake"}

(* The variables hold values of their types.                               *)
PipeTypeOK ==
    /\ pipe \in [epoch : 0 .. MaxEpoch, occupied : BOOLEAN, data : [Position -> 0 .. MaxSent * Cardinality(Procs)],
                 head : Position, tail : Position, len : 0 .. PIPE_BUFFER,
                 readers : Count, writers : Count,
                 read_waiters : SUBSET Procs, write_waiters : SUBSET Procs]
    /\ epoch \in 0 .. MaxEpoch
    /\ fds \in [Procs -> [read : 0 .. MaxEpoch, write : 0 .. MaxEpoch]]
    /\ call \in [Procs -> [pc : PC, id : 0 .. MaxEpoch, left : 0 .. MaxCall,
                           total : 0 .. MaxCall, wake : SUBSET Procs]]
    /\ latch \in [Procs -> BOOLEAN]
    /\ sent \in Nat /\ received \in Nat

(***************************************************************************)
(* The ring buffer of try_write and try_read is a queue: whatever writers  *)
(* and readers interleave, with partial writes and wrap-around, it holds   *)
(* exactly the bytes written and not yet read, in the order written.       *)
(***************************************************************************)
RingFifo ==
    pipe.occupied =>
        /\ sent = received + pipe.len
        /\ \A i \in 0 .. pipe.len - 1 :
             pipe.data[(pipe.head + i) % PIPE_BUFFER] = received + i + 1

(***************************************************************************)
(* Reference counts: the ends of the pipe are counted exactly, through     *)
(* fork, close and reuse of the slot; so a descriptor never refers to      *)
(* another pipe than it was opened on, and the last close frees the slot.  *)
(***************************************************************************)
RefsExact ==
    /\ pipe.readers = Cardinality({p \in Procs : fds[p].read # 0})
                      + Cardinality({p \in Procs : At(p, "close_reader")})
    /\ pipe.writers = Cardinality({p \in Procs : fds[p].write # 0})
                      + Cardinality({p \in Procs : At(p, "close_writer")})
    /\ \A p \in Procs : {fds[p].read, fds[p].write} \subseteq {0, pipe.epoch}
    /\ pipe.occupied <=> pipe.readers + pipe.writers > 0

(***************************************************************************)
(* "Empty reads block while writers exist; full writes block while readers *)
(* exist. Closing an end wakes the opposite waiters" (pipe.rs:3): a task   *)
(* asleep in a read or write that could proceed is about to be signalled.  *)
(* The condition is tested twice and the task is registered before the     *)
(* second test; the latch covers the rest.                                 *)
(***************************************************************************)
NoLostPipeWakeup ==
    /\ \A p \in Procs : At(p, "read_blocked") /\ (pipe.len > 0 \/ pipe.writers = 0) =>
          \/ \E q \in Procs : p \in call[q].wake
          \/ p \in pipe.read_waiters /\ \E q \in Procs : At(q, "write_take")
    /\ \A p \in Procs : At(p, "write_blocked") /\ (pipe.len < PIPE_BUFFER \/ pipe.readers = 0) =>
          \/ \E q \in Procs : p \in call[q].wake
          \/ p \in pipe.write_waiters /\ \E q \in Procs : At(q, "read_take")

(* Table: whatever processes fork, close, read and write, the ring is a    *)
(* queue, the ends are counted exactly and nobody sleeps through a change. *)
PipeExact == RingFifo /\ RefsExact /\ NoLostPipeWakeup

(* The same as progress: a read or write that could proceed does not stay  *)
(* asleep.                                                                 *)
PipeWaitEnds ==
    /\ \A p \in Procs : At(p, "read_blocked") /\ (pipe.len > 0 \/ pipe.writers = 0)
                          ~> ~At(p, "read_blocked")
    /\ \A p \in Procs : At(p, "write_blocked") /\ (pipe.len < PIPE_BUFFER \/ pipe.readers = 0)
                          ~> ~At(p, "write_blocked")

-----------------------------------------------------------------------------
(***************************************************************************)
(* Proofs, for any set of processes and any sizes of the ring and of the   *)
(* waiter lists.                                                           *)
(*                                                                         *)
(* PipeExact needs an invariant about calls in progress.  CallsHeld: a     *)
(* call is on a pipe of which its process holds an end until the call is   *)
(* over, so the slot is not reused under it.  EndsCounted: the counts      *)
(* include the ends that are being closed.  RingSound: head, tail and      *)
(* length agree.  ReaderSound and WriterSound follow a task from the       *)
(* moment it registers to the moment it sleeps: it stays registered while  *)
(* what it waits for has not happened, or it is among those that some      *)
(* process is about to signal, or its latch is set.                        *)
(***************************************************************************)
PipeRecord == [
    epoch : Nat, occupied : BOOLEAN, data : [Position -> Nat], head : Position, tail : Position,
    len : 0 .. PIPE_BUFFER, readers : Nat, writers : Nat,
    read_waiters : SUBSET Procs, write_waiters : SUBSET Procs]

CallRecord == [pc : PC, id : Nat, left : Nat, total : Nat, wake : SUBSET Procs]

PipeTyped ==
    /\ pipe \in PipeRecord
    /\ epoch \in Nat
    /\ fds \in [Procs -> [read : Nat, write : Nat]]
    /\ call \in [Procs -> CallRecord]
    /\ latch \in [Procs -> BOOLEAN]
    /\ sent \in Nat /\ received \in Nat

Reading == {"read", "read_take", "read_check", "read_wait", "read_blocked"}
Writing == {"write", "write_take", "write_check", "write_wait", "write_blocked"}

(* A call is on the pipe of a descriptor that its process keeps until the  *)
(* call is over, or of the one it is closing.                              *)
CallHeld(p) ==
    /\ call[p].pc \in Reading => call[p].id = fds[p].read /\ fds[p].read # 0
    /\ call[p].pc \in Writing => call[p].id = fds[p].write /\ fds[p].write # 0
    /\ call[p].pc \in {"close_reader", "close_writer"} => call[p].id = pipe.epoch
    /\ call[p].pc # "wake" => call[p].wake = {}
    /\ call[p].pc \in {"idle", "close_reader", "close_writer", "read_take"} => call[p].left = 0
    /\ call[p].pc = "wake" /\ call[p].left > 0 => call[p].id = fds[p].write /\ fds[p].write # 0

CallsHeld == \A p \in Procs : CallHeld(p)

(* The ends are counted, and the slot is occupied while there is one.      *)
ReadEnds == {p \in Procs : fds[p].read # 0}
WriteEnds == {p \in Procs : fds[p].write # 0}
ClosingReaders == {p \in Procs : At(p, "close_reader")}
ClosingWriters == {p \in Procs : At(p, "close_writer")}

EndsCounted ==
    /\ pipe.readers = Cardinality(ReadEnds) + Cardinality(ClosingReaders)
    /\ pipe.writers = Cardinality(WriteEnds) + Cardinality(ClosingWriters)
    /\ \A p \in Procs : {fds[p].read, fds[p].write} \subseteq {0, pipe.epoch}
    /\ pipe.occupied <=> pipe.readers + pipe.writers > 0
    /\ pipe.occupied => pipe.epoch # 0
    /\ ~pipe.occupied => pipe = EmptyPipe

(* The ring: the tail is where the bytes from the head on end.             *)
Wrap(n) == IF n < PIPE_BUFFER THEN n ELSE n - PIPE_BUFFER

RingSound == pipe.occupied =>
    /\ pipe.tail = Wrap(pipe.head + pipe.len)
    /\ sent = received + pipe.len
    /\ \A i \in 0 .. pipe.len - 1 : pipe.data[Wrap(pipe.head + i)] = received + i + 1

(* What a reader or writer that is about to sleep, or asleep, waits for.   *)
ToBeSignalled(p) == \E q \in Procs : p \in call[q].wake

ReaderSound(p) ==
    /\ At(p, "read_check") => p \in pipe.read_waiters \/ ToBeSignalled(p) \/ latch[p]
    /\ At(p, "read_wait") \/ At(p, "read_blocked") =>
         \/ latch[p] /\ At(p, "read_wait")
         \/ ToBeSignalled(p)
         \/ /\ p \in pipe.read_waiters
            /\ (pipe.len = 0 /\ pipe.writers > 0) \/ \E q \in Procs : At(q, "write_take")

WriterSound(p) ==
    /\ At(p, "write_check") => p \in pipe.write_waiters \/ ToBeSignalled(p) \/ latch[p]
    /\ At(p, "write_wait") \/ At(p, "write_blocked") =>
         \/ latch[p] /\ At(p, "write_wait")
         \/ ToBeSignalled(p)
         \/ /\ p \in pipe.write_waiters
            /\ (pipe.len = PIPE_BUFFER /\ pipe.readers > 0) \/ \E q \in Procs : At(q, "read_take")

PipeInv ==
    /\ PipeTyped /\ CallsHeld /\ EndsCounted /\ RingSound
    /\ \A p \in Procs : ReaderSound(p) /\ WriterSound(p)

----------------------------------------------------------------------------
(* The bounds of the ring.                                                 *)
LEMMA PipeNumbers ==
    /\ PIPE_BUFFER \in Nat /\ PIPE_BUFFER > 0 /\ MaxCall \in Nat
    /\ IsFiniteSet(Procs)
BY PipeAssumption

(* An index less than two rounds ahead wraps at most once.                 *)
LEMMA ModWrap ==
    ASSUME NEW n \in Nat, n < 2 * PIPE_BUFFER
    PROVE  n % PIPE_BUFFER = Wrap(n) /\ Wrap(n) \in Position
BY PipeNumbers DEF Wrap, Position

(* The smaller of two numbers, as try_write and try_read take it.          *)
LEMMA MinOfTwo ==
    ASSUME NEW a \in Nat, NEW b \in Nat
    PROVE  Min({a, b}) = IF a <= b THEN a ELSE b
<1> DEFINE m == IF a <= b THEN a ELSE b
<1>1. m \in {a, b} /\ \A y \in {a, b} : m <= y
  OBVIOUS
<1>2. \A x \in {a, b} : (\A y \in {a, b} : x <= y) => x = m
  OBVIOUS
<1> QED BY <1>1, <1>2 DEF Min

(* A set of processes that gains or loses one.                             *)
OneMoved(p, S, T) ==
    /\ Cardinality(S) \in Nat /\ Cardinality(T) \in Nat
    /\ p \notin S /\ p \in T => Cardinality(T) = Cardinality(S) + 1
    /\ p \in S /\ p \notin T => Cardinality(T) = Cardinality(S) - 1
    /\ (p \in S <=> p \in T) => T = S
    /\ p \in S => Cardinality(S) > 0

(* Counting the processes with a property that one of them may have.       *)
LEMMA OneProcess ==
    ASSUME NEW S \in SUBSET Procs, NEW T \in SUBSET Procs, NEW p \in Procs,
           \A q \in Procs \ {p} : q \in S <=> q \in T
    PROVE  OneMoved(p, S, T)
<1>1. IsFiniteSet(S) /\ IsFiniteSet(T)
  BY PipeNumbers, FS_Subset
<1>2. Cardinality(S) \in Nat /\ Cardinality(T) \in Nat
  BY <1>1, FS_CardinalityType
<1>3. ASSUME p \notin S, p \in T PROVE Cardinality(T) = Cardinality(S) + 1
  <2>1. T = S \cup {p}
    BY <1>3
  <2> QED BY <2>1, <1>1, <1>3, FS_AddElement
<1>4. ASSUME p \in S, p \notin T PROVE Cardinality(T) = Cardinality(S) - 1
  <2>1. T = S \ {p}
    BY <1>4
  <2> QED BY <2>1, <1>1, <1>4, FS_RemoveElement
<1>5. (p \in S <=> p \in T) => T = S
  OBVIOUS
<1>6. p \in S => Cardinality(S) > 0
  <2>1. Cardinality(S) = 0 <=> S = {}
    BY <1>1, FS_EmptySet
  <2> QED BY <2>1, <1>2
<1> QED BY <1>2, <1>3, <1>4, <1>5, <1>6 DEF OneMoved

(* The descriptors and calls that hold the pipe keep it in its slot.       *)
Held ==
    \A p \in Procs :
      /\ fds[p].read # 0 => Valid(fds[p].read) /\ pipe.readers > 0
      /\ fds[p].write # 0 => Valid(fds[p].write) /\ pipe.writers > 0
      /\ call[p].pc \in Reading => Valid(call[p].id) /\ pipe.readers > 0
      /\ call[p].pc \in Writing => Valid(call[p].id) /\ pipe.writers > 0
      /\ At(p, "close_reader") => Valid(call[p].id) /\ pipe.readers > 0
      /\ At(p, "close_writer") => Valid(call[p].id) /\ pipe.writers > 0

(* A call under way is on the pipe that occupies the slot.                 *)
LEMMA CallsAreHeld ==
    ASSUME PipeTyped, CallsHeld, EndsCounted PROVE Held
<1> SUFFICES ASSUME NEW p \in Procs
             PROVE  /\ fds[p].read # 0 => Valid(fds[p].read) /\ pipe.readers > 0
                    /\ fds[p].write # 0 => Valid(fds[p].write) /\ pipe.writers > 0
                    /\ call[p].pc \in Reading => Valid(call[p].id) /\ pipe.readers > 0
                    /\ call[p].pc \in Writing => Valid(call[p].id) /\ pipe.writers > 0
                    /\ At(p, "close_reader") => Valid(call[p].id) /\ pipe.readers > 0
                    /\ At(p, "close_writer") => Valid(call[p].id) /\ pipe.writers > 0
  BY DEF Held
<1>1. /\ ReadEnds \in SUBSET Procs /\ WriteEnds \in SUBSET Procs
      /\ ClosingReaders \in SUBSET Procs /\ ClosingWriters \in SUBSET Procs
  BY DEF ReadEnds, WriteEnds, ClosingReaders, ClosingWriters
<1>2. Cardinality(ReadEnds) \in Nat /\ (p \in ReadEnds => Cardinality(ReadEnds) > 0)
  BY <1>1, OneProcess DEF OneMoved
<1>3. Cardinality(WriteEnds) \in Nat /\ (p \in WriteEnds => Cardinality(WriteEnds) > 0)
  BY <1>1, OneProcess DEF OneMoved
<1>4. /\ Cardinality(ClosingReaders) \in Nat
      /\ p \in ClosingReaders => Cardinality(ClosingReaders) > 0
  BY <1>1, OneProcess DEF OneMoved
<1>5. /\ Cardinality(ClosingWriters) \in Nat
      /\ p \in ClosingWriters => Cardinality(ClosingWriters) > 0
  BY <1>1, OneProcess DEF OneMoved
<1>6. /\ pipe.readers \in Nat /\ pipe.writers \in Nat /\ pipe.occupied \in BOOLEAN
      /\ pipe.readers = Cardinality(ReadEnds) + Cardinality(ClosingReaders)
      /\ pipe.writers = Cardinality(WriteEnds) + Cardinality(ClosingWriters)
      /\ pipe.readers + pipe.writers > 0 => pipe.occupied
      /\ {fds[p].read, fds[p].write} \subseteq {0, pipe.epoch}
  BY DEF EndsCounted, PipeTyped, PipeRecord
<1>7. fds[p].read # 0 => pipe.readers > 0 /\ pipe.occupied /\ pipe.epoch = fds[p].read
  <2> SUFFICES ASSUME fds[p].read # 0
               PROVE  pipe.readers > 0 /\ pipe.occupied /\ pipe.epoch = fds[p].read
    OBVIOUS
  <2>1. p \in ReadEnds
    BY DEF ReadEnds
  <2>2. pipe.readers > 0
    BY <2>1, <1>2, <1>4, <1>6
  <2> QED BY <2>2, <1>6
<1>8. fds[p].write # 0 => pipe.writers > 0 /\ pipe.occupied /\ pipe.epoch = fds[p].write
  <2> SUFFICES ASSUME fds[p].write # 0
               PROVE  pipe.writers > 0 /\ pipe.occupied /\ pipe.epoch = fds[p].write
    OBVIOUS
  <2>1. p \in WriteEnds
    BY DEF WriteEnds
  <2>2. pipe.writers > 0
    BY <2>1, <1>3, <1>5, <1>6
  <2> QED BY <2>2, <1>6
<1>9. At(p, "close_reader") => pipe.readers > 0 /\ pipe.occupied /\ pipe.epoch = call[p].id
  <2> SUFFICES ASSUME At(p, "close_reader")
               PROVE  pipe.readers > 0 /\ pipe.occupied /\ pipe.epoch = call[p].id
    OBVIOUS
  <2>1. p \in ClosingReaders /\ call[p].id = pipe.epoch
    BY DEF ClosingReaders, CallsHeld, CallHeld, At
  <2>2. pipe.readers > 0
    BY <2>1, <1>2, <1>4, <1>6
  <2> QED BY <2>1, <2>2, <1>6
<1>10. At(p, "close_writer") => pipe.writers > 0 /\ pipe.occupied /\ pipe.epoch = call[p].id
  <2> SUFFICES ASSUME At(p, "close_writer")
               PROVE  pipe.writers > 0 /\ pipe.occupied /\ pipe.epoch = call[p].id
    OBVIOUS
  <2>1. p \in ClosingWriters /\ call[p].id = pipe.epoch
    BY DEF ClosingWriters, CallsHeld, CallHeld, At
  <2>2. pipe.writers > 0
    BY <2>1, <1>3, <1>5, <1>6
  <2> QED BY <2>1, <2>2, <1>6
<1>11. /\ call[p].pc \in Reading => call[p].id = fds[p].read /\ fds[p].read # 0
       /\ call[p].pc \in Writing => call[p].id = fds[p].write /\ fds[p].write # 0
  BY DEF CallsHeld, CallHeld
<1> QED BY <1>7, <1>8, <1>9, <1>10, <1>11 DEF Valid

(* PipeInit establishes the invariant: no pipe, no descriptor, no call.    *)
LEMMA PipeInitKeeps == PipeInit => PipeInv
<1> SUFFICES ASSUME PipeInit PROVE PipeInv
  OBVIOUS
<1> USE DEF PipeInit
<1>1. PipeTyped
  <2>1. EmptyPipe \in PipeRecord
    BY PipeNumbers DEF EmptyPipe, PipeRecord, Position
  <2>2. NoCall \in CallRecord
    BY DEF NoCall, CallRecord, PC
  <2> QED BY <2>1, <2>2 DEF PipeTyped
<1>2. CallsHeld
  BY DEF CallsHeld, CallHeld, NoCall, Reading, Writing
<1>3. EndsCounted
  <2>1. ReadEnds = {} /\ WriteEnds = {} /\ ClosingReaders = {} /\ ClosingWriters = {}
    BY DEF ReadEnds, WriteEnds, ClosingReaders, ClosingWriters, At, NoCall
  <2>2. Cardinality({}) = 0
    BY FS_EmptySet
  <2> QED BY <2>1, <2>2 DEF EndsCounted, EmptyPipe
<1>4. RingSound
  BY DEF RingSound, EmptyPipe
<1>5. \A p \in Procs : ReaderSound(p) /\ WriterSound(p)
  BY DEF ReaderSound, WriterSound, At, NoCall
<1> QED BY <1>1, <1>2, <1>3, <1>4, <1>5 DEF PipeInv

----------------------------------------------------------------------------
(* What try_write and try_read move: at least a byte, at most what fits    *)
(* and what is there.                                                      *)
LEMMA TransferBounds ==
    ASSUME PipeTyped, NEW p \in Procs
    PROVE  /\ Room(p) \in Nat /\ Room(p) <= call[p].left /\ Room(p) <= PIPE_BUFFER - pipe.len
           /\ call[p].left > 0 /\ Room(p) = 0 => pipe.len = PIPE_BUFFER
           /\ Available(p) \in Nat /\ Available(p) <= call[p].left /\ Available(p) <= pipe.len
<1>1. call[p].left \in Nat /\ pipe.len \in Nat /\ PIPE_BUFFER - pipe.len \in Nat
  BY PipeNumbers DEF PipeTyped, PipeRecord, CallRecord
<1>2. Room(p) = IF call[p].left <= PIPE_BUFFER - pipe.len THEN call[p].left
                ELSE PIPE_BUFFER - pipe.len
  BY <1>1, MinOfTwo DEF Room
<1>3. Available(p) = IF call[p].left <= pipe.len THEN call[p].left ELSE pipe.len
  BY <1>1, MinOfTwo DEF Available
<1>4. PIPE_BUFFER \in Nat
  BY PipeNumbers
<1> HIDE DEF Room, Available
<1> QED BY <1>1, <1>2, <1>3, <1>4

(* The record of the pipe, changed in one field or another.                *)
LEMMA PipeFields ==
    ASSUME NEW r \in PipeRecord
    PROVE  /\ \A n \in Nat : [r EXCEPT !.readers = n] \in PipeRecord
           /\ \A n \in Nat : [r EXCEPT !.writers = n] \in PipeRecord
           /\ \A n \in Nat, S \in SUBSET Procs :
                [r EXCEPT !.readers = n, !.write_waiters = S] \in PipeRecord
           /\ \A n \in Nat, S \in SUBSET Procs :
                [r EXCEPT !.writers = n, !.read_waiters = S] \in PipeRecord
           /\ \A S \in SUBSET Procs : [r EXCEPT !.read_waiters = S] \in PipeRecord
           /\ \A S \in SUBSET Procs : [r EXCEPT !.write_waiters = S] \in PipeRecord
           /\ Freed(r) \in PipeRecord
<1>1. EmptyPipe \in PipeRecord
  BY PipeNumbers DEF EmptyPipe, PipeRecord, Position
<1>2. Freed(r) \in PipeRecord
  BY <1>1 DEF Freed
<1> QED BY Zenon, <1>2 DEF PipeRecord

(* The ring, filled or emptied, is a ring.                                 *)
LEMMA RingFields ==
    ASSUME PipeTyped, NEW k \in Nat
    PROVE  /\ k <= PIPE_BUFFER - pipe.len => Filled(k) \in PipeRecord
           /\ k <= pipe.len => Emptied(k) \in PipeRecord
<1>1. /\ pipe \in PipeRecord /\ pipe.head \in Position /\ pipe.tail \in Position
      /\ pipe.len \in 0 .. PIPE_BUFFER /\ pipe.data \in [Position -> Nat] /\ sent \in Nat
  BY DEF PipeTyped, PipeRecord
<1>2. \A n \in Nat : n % PIPE_BUFFER \in Position
  BY PipeNumbers DEF Position
<1>3. \A i \in Position : (i + PIPE_BUFFER - pipe.tail) % PIPE_BUFFER \in Nat
  BY <1>1, <1>2, PipeNumbers DEF Position
<1>4. (pipe.tail + k) % PIPE_BUFFER \in Position /\ (pipe.head + k) % PIPE_BUFFER \in Position
  <2>1. pipe.tail + k \in Nat /\ pipe.head + k \in Nat
    BY <1>1, PipeNumbers DEF Position
  <2> HIDE DEF Position
  <2> QED BY <2>1, <1>2
<1>5. ASSUME k <= PIPE_BUFFER - pipe.len PROVE Filled(k) \in PipeRecord
  <2> DEFINE d == [i \in Position |->
                     IF (i + PIPE_BUFFER - pipe.tail) % PIPE_BUFFER < k
                     THEN sent + ((i + PIPE_BUFFER - pipe.tail) % PIPE_BUFFER) + 1
                     ELSE pipe.data[i]]
  <2>1. d \in [Position -> Nat]
    BY <1>1, <1>3
  <2>2. pipe.len + k \in 0 .. PIPE_BUFFER
    BY <1>1, <1>5, PipeNumbers
  <2>3. Filled(k) = [pipe EXCEPT !.data = d, !.tail = (pipe.tail + k) % PIPE_BUFFER,
                                 !.len = pipe.len + k]
    BY DEF Filled
  <2> HIDE DEF d
  <2> QED BY Zenon, <2>1, <2>2, <2>3, <1>1, <1>4 DEF PipeRecord
<1>6. ASSUME k <= pipe.len PROVE Emptied(k) \in PipeRecord
  <2>1. pipe.len - k \in 0 .. PIPE_BUFFER
    BY <1>1, <1>6, PipeNumbers
  <2> QED BY Zenon, <2>1, <1>1, <1>4 DEF Emptied, PipeRecord
<1> QED BY <1>5, <1>6

(* Every step leaves the variables in their types.                         *)
LEMMA PipeTypedStep ==
    ASSUME PipeTyped, Held, PipeNext PROVE PipeTyped'
<1>0. NoCall \in CallRecord
  BY DEF NoCall, CallRecord, PC
<1>1. PICK p \in Procs : Begin(p) \/ Step(p)
  BY DEF PipeNext
<1>2. /\ pipe \in PipeRecord /\ epoch \in Nat /\ fds \in [Procs -> [read : Nat, write : Nat]]
      /\ call \in [Procs -> CallRecord] /\ latch \in [Procs -> BOOLEAN]
      /\ sent \in Nat /\ received \in Nat
  BY DEF PipeTyped
<1>3. /\ pipe.readers \in Nat /\ pipe.writers \in Nat /\ pipe.epoch \in Nat
      /\ pipe.read_waiters \in SUBSET Procs /\ pipe.write_waiters \in SUBSET Procs
  BY <1>2 DEF PipeRecord
<1>4. /\ call[p].pc \in PC /\ call[p].id \in Nat /\ call[p].left \in Nat /\ call[p].total \in Nat
      /\ call[p].wake \in SUBSET Procs /\ fds[p].read \in Nat /\ fds[p].write \in Nat
  BY <1>2 DEF CallRecord
<1>5. /\ At(p, "close_reader") => pipe.readers > 0
      /\ At(p, "close_writer") => pipe.writers > 0
  BY DEF Held
<1>a. call \in [Procs -> CallRecord] /\ call[p] \in CallRecord
  BY <1>2
<1>9. /\ "idle" \in PC /\ "close_reader" \in PC /\ "close_writer" \in PC /\ "wake" \in PC
      /\ "write" \in PC /\ "write_take" \in PC /\ "write_check" \in PC /\ "write_wait" \in PC
      /\ "write_blocked" \in PC /\ "read" \in PC /\ "read_take" \in PC /\ "read_check" \in PC
      /\ "read_wait" \in PC /\ "read_blocked" \in PC
  BY DEF PC
<1>6. /\ Return(p) => call' \in [Procs -> CallRecord]
      /\ \A w \in PC : Goto(p, w) => call' \in [Procs -> CallRecord]
      /\ call' = [call EXCEPT ![p].pc = "wake", ![p].wake = pipe.read_waiters]
           => call' \in [Procs -> CallRecord]
      /\ call' = [call EXCEPT ![p].pc = "wake", ![p].wake = pipe.write_waiters]
           => call' \in [Procs -> CallRecord]
  <2>0. \A S \in SUBSET Procs : [call EXCEPT ![p].pc = "wake", ![p].wake = S]
                                  \in [Procs -> CallRecord]
    BY Zenon, <1>a, <1>9 DEF CallRecord
  <2>1. Return(p) => call' \in [Procs -> CallRecord]
    BY <1>0, <1>2 DEF Return
  <2>2. \A w \in PC : Goto(p, w) => call' \in [Procs -> CallRecord]
    BY ZenonT(30), <1>2 DEF Goto, CallRecord
  <2>3. call' = [call EXCEPT ![p].pc = "wake", ![p].wake = pipe.read_waiters]
          => call' \in [Procs -> CallRecord]
    BY Zenon, <2>0, <1>3
  <2>4. call' = [call EXCEPT ![p].pc = "wake", ![p].wake = pipe.write_waiters]
          => call' \in [Procs -> CallRecord]
    BY Zenon, <2>0, <1>3
  <2> QED BY <2>1, <2>2, <2>3, <2>4
<1>7. /\ \A n \in Nat : [pipe EXCEPT !.readers = n] \in PipeRecord
      /\ \A n \in Nat : [pipe EXCEPT !.writers = n] \in PipeRecord
      /\ \A n \in Nat, S \in SUBSET Procs :
           [pipe EXCEPT !.readers = n, !.write_waiters = S] \in PipeRecord
      /\ \A n \in Nat, S \in SUBSET Procs :
           [pipe EXCEPT !.writers = n, !.read_waiters = S] \in PipeRecord
      /\ \A S \in SUBSET Procs : [pipe EXCEPT !.read_waiters = S] \in PipeRecord
      /\ \A S \in SUBSET Procs : [pipe EXCEPT !.write_waiters = S] \in PipeRecord
  BY Zenon, <1>2, PipeFields
<1>8. \A r \in PipeRecord : Freed(r) \in PipeRecord
  BY Zenon, PipeFields
<1>10. \A w \in PC : Retry(w) \in PC
  BY DEF PC, Retry
<1>11. CASE Create(p)
  <2>1. EmptyPipe \in PipeRecord /\ epoch + 1 \in Nat
    BY <1>2, PipeNumbers DEF EmptyPipe, PipeRecord, Position
  <2>2. pipe' \in PipeRecord /\ epoch' \in Nat
    BY Zenon, <1>11, <2>1 DEF Create, PipeRecord
  <2>3. fds' \in [Procs -> [read : Nat, write : Nat]]
    BY <1>11, <2>1, <1>2 DEF Create
  <2> QED BY <2>2, <2>3, <1>11, <1>2 DEF Create, PipeTyped
<1>12. CASE StartClose(p)
  <2>1. call' \in [Procs -> CallRecord]
    <3>1. \A w \in PC, n \in Nat : [call EXCEPT ![p].pc = w, ![p].id = n] \in [Procs -> CallRecord]
      BY Zenon, <1>a DEF CallRecord
    <3>2. /\ [call EXCEPT ![p].pc = "close_reader", ![p].id = fds[p].read] \in [Procs -> CallRecord]
          /\ [call EXCEPT ![p].pc = "close_writer", ![p].id = fds[p].write] \in [Procs -> CallRecord]
      BY Zenon, <1>4, <1>9, <3>1
    <3> QED BY Zenon, <1>12, <3>2 DEF StartClose
  <2>2. fds' \in [Procs -> [read : Nat, write : Nat]]
    <3>1. \A n \in Nat : /\ [fds EXCEPT ![p].read = n] \in [Procs -> [read : Nat, write : Nat]]
                        /\ [fds EXCEPT ![p].write = n] \in [Procs -> [read : Nat, write : Nat]]
      BY Zenon, <1>2
    <3>2. 0 \in Nat
      OBVIOUS
    <3> QED BY Zenon, <1>12, <3>1, <3>2 DEF StartClose
  <2> QED BY <2>1, <2>2, <1>12, <1>2 DEF StartClose, PipeTyped
<1>13. ASSUME NEW q \in Procs, CloneReader(p, q) PROVE PipeTyped'
  <2>1. pipe' \in PipeRecord
    BY SMTT(30), <1>13, <1>2, <1>3 DEF CloneReader, PipeRecord
  <2>2. fds' \in [Procs -> [read : Nat, write : Nat]]
    BY <1>13, <1>2 DEF CloneReader
  <2> QED BY <2>1, <2>2, <1>13, <1>2 DEF CloneReader, PipeTyped
<1>14. ASSUME NEW q \in Procs, CloneWriter(p, q) PROVE PipeTyped'
  <2>1. pipe' \in PipeRecord
    BY <1>14, <1>2, <1>3 DEF CloneWriter, PipeRecord
  <2>2. fds' \in [Procs -> [read : Nat, write : Nat]]
    BY <1>14, <1>2 DEF CloneWriter
  <2> QED BY <2>1, <2>2, <1>14, <1>2 DEF CloneWriter, PipeTyped
<1>15. ASSUME NEW n \in 1 .. MaxCall, StartWrite(p, n) PROVE PipeTyped'
  <2>1. n \in Nat
    BY PipeNumbers
  <2>2. call' \in [Procs -> CallRecord]
    BY Zenon, <2>1, <1>15, <1>2, <1>4, <1>9 DEF StartWrite, NoCall, CallRecord
  <2> QED BY <2>2, <1>15, <1>2 DEF StartWrite, PipeTyped
<1>16. ASSUME NEW n \in 1 .. MaxCall, StartRead(p, n) PROVE PipeTyped'
  <2>1. n \in Nat
    BY PipeNumbers
  <2>2. call' \in [Procs -> CallRecord]
    BY Zenon, <2>1, <1>16, <1>2, <1>4, <1>9 DEF StartRead, NoCall, CallRecord
  <2> QED BY <2>2, <1>16, <1>2 DEF StartRead, PipeTyped
<1>17. CASE CloseReader(p)
  <2>1. call' \in [Procs -> CallRecord]
    BY Zenon, <1>17, <1>6 DEF CloseReader
  <2>2. pipe.readers - 1 \in Nat
    BY <1>17, <1>3, <1>5 DEF CloseReader
  <2>3. [pipe EXCEPT !.readers = @ - 1, !.write_waiters = {}] \in PipeRecord
    BY Zenon, <2>2, <1>7
  <2>4. pipe' \in PipeRecord
    BY <2>3, <1>17, <1>2, <1>8 DEF CloseReader
  <2> QED BY <2>1, <2>4, <1>17, <1>2 DEF CloseReader, PipeTyped
<1>18. CASE CloseWriter(p)
  <2>1. call' \in [Procs -> CallRecord]
    BY Zenon, <1>18, <1>6 DEF CloseWriter
  <2>2. pipe.writers - 1 \in Nat
    BY <1>18, <1>3, <1>5 DEF CloseWriter
  <2>3. [pipe EXCEPT !.writers = @ - 1, !.read_waiters = {}] \in PipeRecord
    BY Zenon, <2>2, <1>7
  <2>4. pipe' \in PipeRecord
    BY <2>3, <1>18, <1>2, <1>8 DEF CloseWriter
  <2> QED BY <2>1, <2>4, <1>18, <1>2 DEF CloseWriter, PipeTyped
<1>19. CASE TryWrite(p)
  <2>1. /\ Room(p) \in Nat /\ Room(p) <= call[p].left /\ Room(p) <= PIPE_BUFFER - pipe.len
        /\ Filled(Room(p)) \in PipeRecord
    BY TransferBounds, RingFields
  <2>2. call[p].left - Room(p) \in Nat /\ call[p].total + Room(p) \in Nat /\ sent + Room(p) \in Nat
    BY <2>1, <1>2, <1>4
  <2>3. pipe.write_waiters \cup {p} \in SUBSET Procs
    BY <1>3
  <2>4. pipe' \in PipeRecord /\ sent' \in Nat
    BY Zenon, <2>1, <2>2, <2>3, <1>2, <1>7, <1>19 DEF TryWrite
  <2>5. call' = [call EXCEPT ![p].pc = "write_take", ![p].left = @ - Room(p),
                             ![p].total = @ + Room(p)] => call' \in [Procs -> CallRecord]
    <3>1. \A a \in Nat, b \in Nat :
            [call EXCEPT ![p].pc = "write_take", ![p].left = a, ![p].total = b]
              \in [Procs -> CallRecord]
      BY Zenon, <1>a, <1>9 DEF CallRecord
    <3>2. [call EXCEPT ![p].pc = "write_take", ![p].left = @ - Room(p), ![p].total = @ + Room(p)]
          = [call EXCEPT ![p].pc = "write_take", ![p].left = call[p].left - Room(p),
                         ![p].total = call[p].total + Room(p)]
      BY <1>a DEF CallRecord
    <3>3. [call EXCEPT ![p].pc = "write_take", ![p].left = call[p].left - Room(p),
                       ![p].total = call[p].total + Room(p)] \in [Procs -> CallRecord]
      BY Zenon, <2>2, <3>1
    <3> QED BY Zenon, <3>2, <3>3
  <2>6. call' \in [Procs -> CallRecord]
    BY Zenon, <2>5, <1>6, <1>9, <1>19 DEF TryWrite
  <2> QED BY <2>4, <2>6, <1>19, <1>2 DEF TryWrite, PipeTyped
<1>20. CASE WriteTake(p)
  <2>1. pipe' \in PipeRecord
    BY Zenon, <1>20, <1>2, <1>7 DEF WriteTake
  <2>2. call' \in [Procs -> CallRecord]
    BY Zenon, <1>20, <1>6, <1>9 DEF WriteTake
  <2> QED BY <2>1, <2>2, <1>20, <1>2 DEF WriteTake, PipeTyped
<1>21. CASE WriteCheck(p)
  <2>1. call' \in [Procs -> CallRecord]
    BY <1>21, <1>6, <1>9 DEF WriteCheck
  <2> QED BY <2>1, <1>21, <1>2 DEF WriteCheck, PipeTyped
<1>22. CASE TryRead(p)
  <2>1. Available(p) \in Nat /\ Available(p) <= pipe.len /\ Emptied(Available(p)) \in PipeRecord
    BY TransferBounds, RingFields
  <2>2. received + Available(p) \in Nat /\ 0 \in Nat
    BY <2>1, <1>2
  <2>3. pipe.read_waiters \cup {p} \in SUBSET Procs
    BY <1>3
  <2>4. pipe' \in PipeRecord /\ received' \in Nat
    BY Zenon, <2>1, <2>2, <2>3, <1>2, <1>7, <1>22 DEF TryRead
  <2>5. call' = [call EXCEPT ![p].pc = "read_take", ![p].left = 0, ![p].total = Available(p)]
          => call' \in [Procs -> CallRecord]
    <3>1. \A a \in Nat : [call EXCEPT ![p].pc = "read_take", ![p].left = 0, ![p].total = a]
                            \in [Procs -> CallRecord]
      BY Zenon, <1>a, <1>9 DEF CallRecord
    <3> QED BY Zenon, <2>1, <3>1
  <2>6. call' \in [Procs -> CallRecord]
    BY Zenon, <2>5, <1>6, <1>9, <1>22 DEF TryRead
  <2> QED BY <2>4, <2>6, <1>22, <1>2 DEF TryRead, PipeTyped
<1>23. CASE ReadTake(p)
  <2>1. pipe' \in PipeRecord
    BY Zenon, <1>23, <1>2, <1>7 DEF ReadTake
  <2>2. call' \in [Procs -> CallRecord]
    BY Zenon, <1>23, <1>6, <1>9 DEF ReadTake
  <2> QED BY <2>1, <2>2, <1>23, <1>2 DEF ReadTake, PipeTyped
<1>24. CASE ReadCheck(p)
  <2>1. call' \in [Procs -> CallRecord]
    BY <1>24, <1>6, <1>9 DEF ReadCheck
  <2> QED BY <2>1, <1>24, <1>2 DEF ReadCheck, PipeTyped
<1>25. CASE WaitForEvent(p)
  <2>1. call' \in [Procs -> CallRecord]
    BY <1>25, <1>4, <1>6, <1>9, <1>10 DEF WaitForEvent
  <2>2. latch' \in [Procs -> BOOLEAN]
    BY Zenon, <1>25, <1>2 DEF WaitForEvent
  <2> QED BY <2>1, <2>2, <1>25, <1>2 DEF WaitForEvent, PipeTyped
<1>26. CASE Woke(p)
  <2>1. call' \in [Procs -> CallRecord]
    BY <1>26, <1>6, <1>9 DEF Woke
  <2> QED BY <2>1, <1>26, <1>2 DEF Woke, PipeTyped
<1>27. ASSUME NEW q \in Procs, SignalEvent(p, q) PROVE PipeTyped'
  <2>1. call[q] \in CallRecord /\ call[q].pc \in PC /\ Retry(call[q].pc) \in PC
    BY <1>2, <1>10 DEF CallRecord
  <2>2. call[p].wake \ {q} \in SUBSET Procs
    BY <1>4
  <2>3. \A r \in Procs : call'[r] \in CallRecord
    <3> SUFFICES ASSUME NEW r \in Procs PROVE call'[r] \in CallRecord
      OBVIOUS
    <3>1. call[r] \in CallRecord
      BY <1>2
    <3>2. CASE Blocked(q)
      <4>1. call' = [call EXCEPT ![p].wake = @ \ {q}, ![q].pc = Retry(@)]
        BY <3>2, <1>27 DEF SignalEvent
      <4> QED BY <4>1, <3>1, <2>1, <2>2, <1>a DEF CallRecord
    <3>3. CASE ~Blocked(q)
      <4>1. call' = [call EXCEPT ![p].wake = @ \ {q}]
        BY <3>3, <1>27 DEF SignalEvent
      <4> QED BY <4>1, <3>1, <2>1, <2>2, <1>a DEF CallRecord
    <3> QED BY <3>2, <3>3
  <2>4. call' = [r \in Procs |-> call'[r]]
    BY <1>2, <1>27 DEF SignalEvent
  <2>5. latch' \in [Procs -> BOOLEAN]
    BY Zenon, <1>27, <1>2 DEF SignalEvent
  <2>6. call' \in [Procs -> CallRecord]
    BY <2>3, <2>4
  <2> QED BY <2>5, <2>6, <1>27, <1>2 DEF SignalEvent, PipeTyped
<1> QED BY Zenon, <1>1, <1>11, <1>12, <1>13, <1>14, <1>15, <1>16, <1>17, <1>18, <1>19, <1>20, <1>21,
           <1>22, <1>23, <1>24, <1>25, <1>26, <1>27 DEF Begin, Step

----------------------------------------------------------------------------
(***************************************************************************)
(* What each step of a call does, with the branches that its descriptor    *)
(* rules out left out: while a process is inside a call the pipe is there. *)
(***************************************************************************)

Others(p) == \A q \in Procs \ {p} : call'[q] = call[q]

(* The call of p moves on to w, or ends, and no other call changes.        *)
Onward(p, w) ==
    /\ Others(p)
    /\ call'[p].pc = w /\ call'[p].id = call[p].id /\ call'[p].left = call[p].left
    /\ call'[p].wake = call[p].wake

Wakes(p, S) ==
    /\ Others(p)
    /\ call'[p].pc = "wake" /\ call'[p].id = call[p].id /\ call'[p].left = call[p].left
    /\ call'[p].wake = S

Ends(p) == Others(p) /\ call'[p] = NoCall

Starts(p, w, i) ==
    Others(p) /\ call'[p].pc = w /\ call'[p].id = i /\ call'[p].wake = {}

(* The updates of the call of one process.                                 *)
LEMMA CallSteps ==
    ASSUME call \in [Procs -> CallRecord], NEW p \in Procs
    PROVE  /\ Return(p) => Ends(p)
           /\ \A w : Goto(p, w) => Onward(p, w)
           /\ \A S : call' = [call EXCEPT ![p].pc = "wake", ![p].wake = S] => Wakes(p, S)
<1>1. call[p] \in CallRecord
  OBVIOUS
<1>2. Return(p) => Ends(p)
  BY DEF Return, Ends, Others
<1>3. ASSUME NEW w, Goto(p, w) PROVE Onward(p, w)
  BY <1>1, <1>3 DEF Goto, Onward, Others, CallRecord
<1>4. ASSUME NEW S, call' = [call EXCEPT ![p].pc = "wake", ![p].wake = S] PROVE Wakes(p, S)
  BY <1>1, <1>4 DEF Wakes, Others, CallRecord
<1> QED BY <1>2, <1>3, <1>4

(* close_reader and close_writer.                                          *)
LEMMA CloseReaderDoes ==
    ASSUME PipeTyped, Held, NEW p \in Procs, CloseReader(p)
    PROVE  /\ At(p, "close_reader") /\ Wakes(p, pipe.write_waiters)
           /\ pipe.occupied /\ pipe.readers > 0
           /\ pipe' = Freed([pipe EXCEPT !.readers = pipe.readers - 1, !.write_waiters = {}])
           /\ UNCHANGED <<epoch, fds, latch, sent, received>>
<1>1. Valid(call[p].id) /\ At(p, "close_reader") /\ pipe.readers > 0
  BY DEF CloseReader, Held
<1>2. /\ pipe' = Freed([pipe EXCEPT !.readers = pipe.readers - 1, !.write_waiters = {}])
      /\ call' = [call EXCEPT ![p].pc = "wake", ![p].wake = pipe.write_waiters]
  BY <1>1 DEF CloseReader
<1>3. Wakes(p, pipe.write_waiters)
  BY Zenon, <1>2, CallSteps DEF PipeTyped
<1> QED BY <1>1, <1>2, <1>3 DEF CloseReader, Valid

(* close_writer: a reference less, the readers to wake taken.              *)
LEMMA CloseWriterDoes ==
    ASSUME PipeTyped, Held, NEW p \in Procs, CloseWriter(p)
    PROVE  /\ At(p, "close_writer") /\ Wakes(p, pipe.read_waiters)
           /\ pipe.occupied /\ pipe.writers > 0
           /\ pipe' = Freed([pipe EXCEPT !.writers = pipe.writers - 1, !.read_waiters = {}])
           /\ UNCHANGED <<epoch, fds, latch, sent, received>>
<1>1. Valid(call[p].id) /\ At(p, "close_writer") /\ pipe.writers > 0
  BY DEF CloseWriter, Held
<1>2. /\ pipe' = Freed([pipe EXCEPT !.writers = pipe.writers - 1, !.read_waiters = {}])
      /\ call' = [call EXCEPT ![p].pc = "wake", ![p].wake = pipe.read_waiters]
  BY <1>1 DEF CloseWriter
<1>3. Wakes(p, pipe.read_waiters)
  BY Zenon, <1>2, CallSteps DEF PipeTyped
<1> QED BY <1>1, <1>2, <1>3 DEF CloseWriter, Valid

(* close_current, up to the release of the process table.                  *)
LEMMA StartCloseDoes ==
    ASSUME PipeTyped, NEW p \in Procs, StartClose(p)
    PROVE  /\ At(p, "idle") /\ Others(p)
           /\ call'[p].left = call[p].left /\ call'[p].wake = call[p].wake
           /\ \A q \in Procs \ {p} : fds'[q] = fds[q]
           /\ \/ /\ fds[p].read # 0 /\ fds'[p].read = 0 /\ fds'[p].write = fds[p].write
                 /\ call'[p].pc = "close_reader" /\ call'[p].id = fds[p].read
              \/ /\ fds[p].write # 0 /\ fds'[p].write = 0 /\ fds'[p].read = fds[p].read
                 /\ call'[p].pc = "close_writer" /\ call'[p].id = fds[p].write
           /\ UNCHANGED <<pipe, epoch, latch, sent, received>>
<1>1. call \in [Procs -> CallRecord] /\ call[p] \in CallRecord
  BY DEF PipeTyped
<1>2. fds \in [Procs -> [read : Nat, write : Nat]] /\ fds[p] \in [read : Nat, write : Nat]
  BY DEF PipeTyped
<1>3. CASE /\ fds[p].read # 0 /\ fds' = [fds EXCEPT ![p].read = 0]
           /\ call' = [call EXCEPT ![p].pc = "close_reader", ![p].id = fds[p].read]
  <2>1. /\ Others(p) /\ call'[p].left = call[p].left /\ call'[p].wake = call[p].wake
        /\ call'[p].pc = "close_reader" /\ call'[p].id = fds[p].read
    BY <1>1, <1>3 DEF Others, CallRecord
  <2>2. /\ \A q \in Procs \ {p} : fds'[q] = fds[q]
        /\ fds[p].read # 0 /\ fds'[p].read = 0 /\ fds'[p].write = fds[p].write
    BY <1>2, <1>3
  <2> QED BY <2>1, <2>2 DEF StartClose
<1>4. CASE /\ fds[p].write # 0 /\ fds' = [fds EXCEPT ![p].write = 0]
           /\ call' = [call EXCEPT ![p].pc = "close_writer", ![p].id = fds[p].write]
  <2>1. /\ Others(p) /\ call'[p].left = call[p].left /\ call'[p].wake = call[p].wake
        /\ call'[p].pc = "close_writer" /\ call'[p].id = fds[p].write
    BY <1>1, <1>4 DEF Others, CallRecord
  <2>2. /\ \A q \in Procs \ {p} : fds'[q] = fds[q]
        /\ fds[p].write # 0 /\ fds'[p].write = 0 /\ fds'[p].read = fds[p].read
    BY <1>2, <1>4
  <2> QED BY <2>1, <2>2 DEF StartClose
<1> QED BY <1>3, <1>4 DEF StartClose

(* write and read begin.                                                   *)
LEMMA StartWriteDoes ==
    ASSUME PipeTyped, NEW p \in Procs, NEW n, StartWrite(p, n)
    PROVE  /\ At(p, "idle") /\ fds[p].write # 0 /\ Starts(p, "write", fds[p].write)
           /\ UNCHANGED <<pipe, epoch, fds, latch, sent, received>>
BY DEF PipeTyped, StartWrite, Starts, Others, NoCall, CallRecord

(* A read begins on the pipe of the process's descriptor.                  *)
LEMMA StartReadDoes ==
    ASSUME PipeTyped, NEW p \in Procs, NEW n, StartRead(p, n)
    PROVE  /\ At(p, "idle") /\ fds[p].read # 0 /\ Starts(p, "read", fds[p].read)
           /\ UNCHANGED <<pipe, epoch, fds, latch, sent, received>>
BY DEF PipeTyped, StartRead, Starts, Others, NoCall, CallRecord

(* try_write: the pipe has no readers, some bytes fit, or none.            *)
LEMMA TryWriteDoes ==
    ASSUME PipeTyped, Held, NEW p \in Procs, TryWrite(p)
    PROVE  /\ At(p, "write") /\ Others(p) /\ pipe.occupied
           /\ UNCHANGED <<epoch, fds, latch, received>>
           /\ \/ Ends(p) /\ UNCHANGED <<pipe, sent>>
              \/ /\ pipe' = Filled(Room(p)) /\ sent' = sent + Room(p)
                 /\ call'[p].pc = "write_take" /\ call'[p].id = call[p].id
                 /\ call'[p].wake = call[p].wake
              \/ /\ pipe' = [pipe EXCEPT !.write_waiters = pipe.write_waiters \cup {p}]
                 /\ sent' = sent
                 /\ Onward(p, "write_check")
<1>1. call \in [Procs -> CallRecord] /\ call[p] \in CallRecord
  BY DEF PipeTyped
<1>2. Valid(call[p].id) /\ At(p, "write") /\ pipe.occupied
  BY DEF TryWrite, Held, At, Writing, Valid
<1>3. /\ Return(p) => Ends(p) /\ Others(p)
      /\ Goto(p, "write_check") => Onward(p, "write_check") /\ Others(p)
  BY Zenon, <1>1, CallSteps DEF Ends, Onward
<1>4. ASSUME NEW a, NEW b,
             call' = [call EXCEPT ![p].pc = "write_take", ![p].left = a, ![p].total = b]
      PROVE  /\ call'[p].pc = "write_take" /\ call'[p].id = call[p].id
             /\ call'[p].wake = call[p].wake /\ Others(p)
  BY <1>1, <1>4 DEF CallRecord, Others
<1>5. [call EXCEPT ![p].pc = "write_take", ![p].left = @ - Room(p), ![p].total = @ + Room(p)]
      = [call EXCEPT ![p].pc = "write_take", ![p].left = call[p].left - Room(p),
                     ![p].total = call[p].total + Room(p)]
  BY <1>1 DEF CallRecord
<1>6. CASE /\ pipe' = Filled(Room(p)) /\ sent' = sent + Room(p)
           /\ call' = [call EXCEPT ![p].pc = "write_take", ![p].left = @ - Room(p),
                                   ![p].total = @ + Room(p)]
  <2>1. /\ call'[p].pc = "write_take" /\ call'[p].id = call[p].id
        /\ call'[p].wake = call[p].wake /\ Others(p)
    BY Zenon, <1>4, <1>5, <1>6
  <2> QED BY <2>1, <1>6, <1>2 DEF TryWrite
<1>7. CASE /\ pipe' = [pipe EXCEPT !.write_waiters = @ \cup {p}] /\ Goto(p, "write_check")
           /\ UNCHANGED sent
  BY <1>7, <1>3, <1>2 DEF TryWrite
<1>8. CASE Return(p) /\ UNCHANGED <<pipe, sent>>
  BY <1>8, <1>3, <1>2 DEF TryWrite
<1> QED BY <1>2, <1>6, <1>7, <1>8 DEF TryWrite

(* try_read: some bytes are there, or no writers, or the reader waits.     *)
LEMMA TryReadDoes ==
    ASSUME PipeTyped, Held, NEW p \in Procs, TryRead(p)
    PROVE  /\ At(p, "read") /\ Others(p) /\ pipe.occupied
           /\ UNCHANGED <<epoch, fds, latch, sent>>
           /\ \/ Ends(p) /\ UNCHANGED <<pipe, received>>
              \/ /\ pipe' = Emptied(Available(p)) /\ received' = received + Available(p)
                 /\ call'[p].pc = "read_take" /\ call'[p].id = call[p].id
                 /\ call'[p].wake = call[p].wake /\ call'[p].left = 0
              \/ /\ pipe' = [pipe EXCEPT !.read_waiters = pipe.read_waiters \cup {p}]
                 /\ received' = received
                 /\ Onward(p, "read_check")
<1>1. call \in [Procs -> CallRecord] /\ call[p] \in CallRecord
  BY DEF PipeTyped
<1>2. Valid(call[p].id) /\ At(p, "read") /\ pipe.occupied
  BY DEF TryRead, Held, At, Reading, Valid
<1>3. /\ Return(p) => Ends(p) /\ Others(p)
      /\ Goto(p, "read_check") => Onward(p, "read_check") /\ Others(p)
  BY Zenon, <1>1, CallSteps DEF Ends, Onward
<1>4. ASSUME NEW b,
             call' = [call EXCEPT ![p].pc = "read_take", ![p].left = 0, ![p].total = b]
      PROVE  /\ call'[p].pc = "read_take" /\ call'[p].id = call[p].id
             /\ call'[p].wake = call[p].wake /\ call'[p].left = 0 /\ Others(p)
  BY <1>1, <1>4 DEF CallRecord, Others
<1>5. CASE /\ pipe' = Emptied(Available(p)) /\ received' = received + Available(p)
           /\ call' = [call EXCEPT ![p].pc = "read_take", ![p].left = 0,
                                   ![p].total = Available(p)]
  <2>1. /\ call'[p].pc = "read_take" /\ call'[p].id = call[p].id
        /\ call'[p].wake = call[p].wake /\ call'[p].left = 0 /\ Others(p)
    BY Zenon, <1>4, <1>5
  <2> QED BY <2>1, <1>5, <1>2 DEF TryRead
<1>6. CASE /\ pipe' = [pipe EXCEPT !.read_waiters = @ \cup {p}] /\ Goto(p, "read_check")
           /\ UNCHANGED received
  BY <1>6, <1>3, <1>2 DEF TryRead
<1>7. CASE Return(p) /\ UNCHANGED <<pipe, received>>
  BY <1>7, <1>3, <1>2 DEF TryRead
<1> QED BY <1>2, <1>5, <1>6, <1>7 DEF TryRead

(* take_waiters.                                                           *)
LEMMA WriteTakeDoes ==
    ASSUME PipeTyped, Held, NEW p \in Procs, WriteTake(p)
    PROVE  /\ At(p, "write_take") /\ Wakes(p, pipe.read_waiters) /\ pipe.occupied
           /\ pipe' = [pipe EXCEPT !.read_waiters = {}]
           /\ UNCHANGED <<epoch, fds, latch, sent, received>>
<1>1. Valid(call[p].id) /\ At(p, "write_take") /\ pipe.occupied
  BY DEF WriteTake, Held, At, Writing, Valid
<1>2. /\ pipe' = [pipe EXCEPT !.read_waiters = {}]
      /\ call' = [call EXCEPT ![p].pc = "wake", ![p].wake = pipe.read_waiters]
  BY <1>1 DEF WriteTake
<1>3. Wakes(p, pipe.read_waiters)
  BY Zenon, <1>2, CallSteps DEF PipeTyped
<1> QED BY <1>1, <1>2, <1>3 DEF WriteTake

(* After a transfer a read takes the writers to wake.                      *)
LEMMA ReadTakeDoes ==
    ASSUME PipeTyped, Held, NEW p \in Procs, ReadTake(p)
    PROVE  /\ At(p, "read_take") /\ Wakes(p, pipe.write_waiters) /\ pipe.occupied
           /\ pipe' = [pipe EXCEPT !.write_waiters = {}]
           /\ UNCHANGED <<epoch, fds, latch, sent, received>>
<1>1. Valid(call[p].id) /\ At(p, "read_take") /\ pipe.occupied
  BY DEF ReadTake, Held, At, Reading, Valid
<1>2. /\ pipe' = [pipe EXCEPT !.write_waiters = {}]
      /\ call' = [call EXCEPT ![p].pc = "wake", ![p].wake = pipe.write_waiters]
  BY <1>1 DEF ReadTake
<1>3. Wakes(p, pipe.write_waiters)
  BY Zenon, <1>2, CallSteps DEF PipeTyped
<1> QED BY <1>1, <1>2, <1>3 DEF ReadTake

(* The second test, before the process sleeps.                             *)
LEMMA WriteCheckDoes ==
    ASSUME PipeTyped, Held, NEW p \in Procs, WriteCheck(p)
    PROVE  /\ At(p, "write_check")
           /\ \/ Onward(p, "write_wait") /\ pipe.readers > 0 /\ pipe.len = PIPE_BUFFER
              \/ Onward(p, "write")
           /\ UNCHANGED <<pipe, epoch, fds, latch, sent, received>>
<1>1. pipe.len \in 0 .. PIPE_BUFFER
  BY DEF PipeTyped, PipeRecord
<1>2. \A w : Goto(p, w) => Onward(p, w)
  BY Zenon, CallSteps DEF PipeTyped
<1>3. CASE Valid(call[p].id) /\ pipe.readers > 0 /\ pipe.len >= PIPE_BUFFER
  <2>1. Goto(p, "write_wait")
    BY <1>3 DEF WriteCheck
  <2>2. pipe.len = PIPE_BUFFER
    BY <1>1, <1>3, PipeNumbers
  <2> QED BY <2>1, <2>2, <1>2, <1>3 DEF WriteCheck
<1>4. CASE ~(Valid(call[p].id) /\ pipe.readers > 0 /\ pipe.len >= PIPE_BUFFER)
  <2>1. Goto(p, "write")
    BY <1>4 DEF WriteCheck
  <2> QED BY <2>1, <1>2 DEF WriteCheck
<1> QED BY <1>3, <1>4

(* A registered reader tests the condition again.                          *)
LEMMA ReadCheckDoes ==
    ASSUME PipeTyped, Held, NEW p \in Procs, ReadCheck(p)
    PROVE  /\ At(p, "read_check")
           /\ \/ Onward(p, "read_wait") /\ pipe.writers > 0 /\ pipe.len = 0
              \/ Onward(p, "read")
           /\ UNCHANGED <<pipe, epoch, fds, latch, sent, received>>
<1>1. \A w : Goto(p, w) => Onward(p, w)
  BY Zenon, CallSteps DEF PipeTyped
<1>2. CASE Valid(call[p].id) /\ pipe.len = 0 /\ pipe.writers > 0
  <2>1. Goto(p, "read_wait")
    BY <1>2 DEF ReadCheck
  <2> QED BY <2>1, <1>1, <1>2 DEF ReadCheck
<1>3. CASE ~(Valid(call[p].id) /\ pipe.len = 0 /\ pipe.writers > 0)
  <2>1. Goto(p, "read")
    BY <1>3 DEF ReadCheck
  <2> QED BY <2>1, <1>1 DEF ReadCheck
<1> QED BY <1>2, <1>3

(* wait_for_event: the latch is consumed, or the process sleeps.           *)
LEMMA WaitForEventDoes ==
    ASSUME PipeTyped, NEW p \in Procs, WaitForEvent(p)
    PROVE  /\ \/ At(p, "write_wait") /\ latch[p] /\ Onward(p, "write")
              \/ At(p, "read_wait") /\ latch[p] /\ Onward(p, "read")
              \/ At(p, "write_wait") /\ ~latch[p] /\ Onward(p, "write_blocked") /\ latch' = latch
              \/ At(p, "read_wait") /\ ~latch[p] /\ Onward(p, "read_blocked") /\ latch' = latch
           /\ \A q \in Procs \ {p} : latch'[q] = latch[q]
           /\ UNCHANGED <<pipe, epoch, fds, sent, received>>
<1>1. \A w : Goto(p, w) => Onward(p, w)
  BY Zenon, CallSteps DEF PipeTyped
<1>2. Retry("write_wait") = "write" /\ Retry("read_wait") = "read"
  BY DEF Retry
<1>3. At(p, "write_wait") \/ At(p, "read_wait")
  BY DEF WaitForEvent, At
<1>4. \A q \in Procs \ {p} : latch'[q] = latch[q]
  BY DEF PipeTyped, WaitForEvent
<1>5. CASE latch[p]
  <2>1. Goto(p, Retry(call[p].pc))
    BY <1>5 DEF WaitForEvent
  <2>2. \/ At(p, "write_wait") /\ Onward(p, "write")
        \/ At(p, "read_wait") /\ Onward(p, "read")
    BY <2>1, <1>1, <1>2, <1>3 DEF At
  <2> QED BY <2>2, <1>4, <1>5 DEF WaitForEvent
<1>6. CASE ~latch[p]
  <2>1. Goto(p, IF At(p, "write_wait") THEN "write_blocked" ELSE "read_blocked")
    BY <1>6 DEF WaitForEvent
  <2>2. \/ At(p, "write_wait") /\ Onward(p, "write_blocked")
        \/ At(p, "read_wait") /\ Onward(p, "read_blocked")
    BY <2>1, <1>1, <1>3 DEF At
  <2> QED BY <2>2, <1>4, <1>6 DEF WaitForEvent
<1> QED BY <1>5, <1>6

(* wake_list is done.                                                      *)
LEMMA WokeDoes ==
    ASSUME PipeTyped, NEW p \in Procs, Woke(p)
    PROVE  /\ At(p, "wake") /\ call[p].wake = {}
           /\ (call[p].left > 0 /\ Onward(p, "write")) \/ Ends(p)
           /\ UNCHANGED <<pipe, epoch, fds, latch, sent, received>>
BY Zenon, CallSteps DEF PipeTyped, Woke

(* signal_event for q, by p.                                               *)
Signals(p, q) ==
    /\ At(p, "wake") /\ q \in call[p].wake
    /\ \A r \in Procs :
         /\ call'[r].id = call[r].id /\ call'[r].left = call[r].left
         /\ call'[r].wake = IF r = p THEN call[p].wake \ {q} ELSE call[r].wake
         /\ r # q => call'[r].pc = call[r].pc /\ latch'[r] = latch[r]
    /\ \/ /\ Blocked(q) /\ latch' = latch
          /\ call'[q].pc = IF At(q, "write_blocked") THEN "write" ELSE "read"
       \/ ~Blocked(q) /\ latch'[q] /\ call'[q].pc = call[q].pc
    /\ UNCHANGED <<pipe, epoch, fds, sent, received>>

(* signal_event wakes a blocked task, or leaves its latch set.             *)
LEMMA SignalEventDoes ==
    ASSUME PipeTyped, CallsHeld, NEW p \in Procs, NEW q \in Procs, SignalEvent(p, q)
    PROVE  Signals(p, q)
<1>1. call \in [Procs -> CallRecord] /\ latch \in [Procs -> BOOLEAN]
  BY DEF PipeTyped
<1>2. call[p] \in CallRecord /\ call[q] \in CallRecord
  BY <1>1
<1>3. CASE Blocked(q)
  <2>1. call' = [call EXCEPT ![p].wake = @ \ {q}, ![q].pc = Retry(@)] /\ latch' = latch
    BY <1>3 DEF SignalEvent
  <2>2. p # q
    BY <1>3 DEF SignalEvent, Blocked, At
  <2>3. /\ call'[p] = [call[p] EXCEPT !.wake = call[p].wake \ {q}]
        /\ call'[q] = [call[q] EXCEPT !.pc = Retry(call[q].pc)]
        /\ \A r \in Procs \ {p, q} : call'[r] = call[r]
    BY Zenon, <2>1, <2>2, <1>1
  <2>4. \A r \in Procs :
          /\ call'[r].id = call[r].id /\ call'[r].left = call[r].left
          /\ call'[r].wake = IF r = p THEN call[p].wake \ {q} ELSE call[r].wake
          /\ r # q => call'[r].pc = call[r].pc
    BY <2>2, <2>3, <1>2 DEF CallRecord
  <2>5. call'[q].pc = IF At(q, "write_blocked") THEN "write" ELSE "read"
    BY <2>3, <1>2, <1>3 DEF CallRecord, Retry, Blocked, At
  <2> QED BY Zenon, <2>1, <2>4, <2>5, <1>3 DEF SignalEvent, Signals
<1>4. CASE ~Blocked(q)
  <2>1. call' = [call EXCEPT ![p].wake = @ \ {q}] /\ latch' = [latch EXCEPT ![q] = TRUE]
    BY <1>4 DEF SignalEvent
  <2>2. /\ call'[p] = [call[p] EXCEPT !.wake = call[p].wake \ {q}]
        /\ \A r \in Procs \ {p} : call'[r] = call[r]
    BY <2>1, <1>1
  <2>3. \A r \in Procs :
          /\ call'[r].id = call[r].id /\ call'[r].left = call[r].left
          /\ call'[r].wake = IF r = p THEN call[p].wake \ {q} ELSE call[r].wake
          /\ call'[r].pc = call[r].pc
    BY <2>2, <1>2 DEF CallRecord
  <2>4. latch'[q] /\ \A r \in Procs : r # q => latch'[r] = latch[r]
    BY <2>1, <1>1
  <2> QED BY Zenon, <2>3, <2>4, <1>4 DEF SignalEvent, Signals
<1> QED BY <1>3, <1>4

----------------------------------------------------------------------------
(* The fields of the pipe that a step leaves alone.                        *)
SameEnds ==
    /\ pipe'.readers = pipe.readers /\ pipe'.writers = pipe.writers
    /\ pipe'.epoch = pipe.epoch /\ pipe'.occupied = pipe.occupied

SameRing ==
    /\ pipe'.occupied = pipe.occupied /\ pipe'.data = pipe.data /\ pipe'.head = pipe.head
    /\ pipe'.tail = pipe.tail /\ pipe'.len = pipe.len

(* What the updates of the slot leave alone.                               *)
LEMMA PipeParts ==
    ASSUME pipe \in PipeRecord
    PROVE  /\ \A k : pipe' = Filled(k) =>
                /\ SameEnds /\ pipe'.head = pipe.head
                /\ pipe'.tail = (pipe.tail + k) % PIPE_BUFFER /\ pipe'.len = pipe.len + k
                /\ pipe'.read_waiters = pipe.read_waiters
                /\ pipe'.write_waiters = pipe.write_waiters
           /\ \A k : pipe' = Emptied(k) =>
                /\ SameEnds /\ pipe'.head = (pipe.head + k) % PIPE_BUFFER
                /\ pipe'.tail = pipe.tail /\ pipe'.len = pipe.len - k /\ pipe'.data = pipe.data
                /\ pipe'.read_waiters = pipe.read_waiters
                /\ pipe'.write_waiters = pipe.write_waiters
           /\ \A S : pipe' = [pipe EXCEPT !.read_waiters = S] =>
                /\ SameEnds /\ SameRing /\ pipe'.read_waiters = S
                /\ pipe'.write_waiters = pipe.write_waiters
           /\ \A S : pipe' = [pipe EXCEPT !.write_waiters = S] =>
                /\ SameEnds /\ SameRing /\ pipe'.write_waiters = S
                /\ pipe'.read_waiters = pipe.read_waiters
<1>1. ASSUME NEW k, pipe' = Filled(k)
      PROVE  /\ SameEnds /\ pipe'.head = pipe.head
             /\ pipe'.tail = (pipe.tail + k) % PIPE_BUFFER /\ pipe'.len = pipe.len + k
             /\ pipe'.read_waiters = pipe.read_waiters
             /\ pipe'.write_waiters = pipe.write_waiters
  BY <1>1 DEF Filled, PipeRecord, SameEnds
<1>2. ASSUME NEW k, pipe' = Emptied(k)
      PROVE  /\ SameEnds /\ pipe'.head = (pipe.head + k) % PIPE_BUFFER
             /\ pipe'.tail = pipe.tail /\ pipe'.len = pipe.len - k /\ pipe'.data = pipe.data
             /\ pipe'.read_waiters = pipe.read_waiters
             /\ pipe'.write_waiters = pipe.write_waiters
  BY <1>2 DEF Emptied, PipeRecord, SameEnds
<1>3. ASSUME NEW S, pipe' = [pipe EXCEPT !.read_waiters = S]
      PROVE  /\ SameEnds /\ SameRing /\ pipe'.read_waiters = S
             /\ pipe'.write_waiters = pipe.write_waiters
  BY <1>3 DEF PipeRecord, SameEnds, SameRing
<1>4. ASSUME NEW S, pipe' = [pipe EXCEPT !.write_waiters = S]
      PROVE  /\ SameEnds /\ SameRing /\ pipe'.write_waiters = S
             /\ pipe'.read_waiters = pipe.read_waiters
  BY <1>4 DEF PipeRecord, SameEnds, SameRing
<1> QED BY Zenon, <1>1, <1>2, <1>3, <1>4

(* The close of an end: the slot is freed, or only its end and its waiters *)
(* change.                                                                 *)
LEMMA ClosedParts ==
    ASSUME pipe \in PipeRecord
    PROVE  /\ pipe' = Freed([pipe EXCEPT !.readers = pipe.readers - 1, !.write_waiters = {}]) =>
                \/ pipe.readers = 1 /\ pipe.writers = 0 /\ pipe' = EmptyPipe
                \/ /\ pipe.readers # 1 \/ pipe.writers # 0
                   /\ pipe'.readers = pipe.readers - 1 /\ pipe'.writers = pipe.writers
                   /\ pipe'.epoch = pipe.epoch /\ SameRing
                   /\ pipe'.write_waiters = {} /\ pipe'.read_waiters = pipe.read_waiters
           /\ pipe' = Freed([pipe EXCEPT !.writers = pipe.writers - 1, !.read_waiters = {}]) =>
                \/ pipe.readers = 0 /\ pipe.writers = 1 /\ pipe' = EmptyPipe
                \/ /\ pipe.readers # 0 \/ pipe.writers # 1
                   /\ pipe'.writers = pipe.writers - 1 /\ pipe'.readers = pipe.readers
                   /\ pipe'.epoch = pipe.epoch /\ SameRing
                   /\ pipe'.read_waiters = {} /\ pipe'.write_waiters = pipe.write_waiters
<1>1. ASSUME pipe' = Freed([pipe EXCEPT !.readers = pipe.readers - 1, !.write_waiters = {}])
      PROVE  \/ pipe.readers = 1 /\ pipe.writers = 0 /\ pipe' = EmptyPipe
             \/ /\ pipe.readers # 1 \/ pipe.writers # 0
                /\ pipe'.readers = pipe.readers - 1 /\ pipe'.writers = pipe.writers
                /\ pipe'.epoch = pipe.epoch /\ SameRing
                /\ pipe'.write_waiters = {} /\ pipe'.read_waiters = pipe.read_waiters
  BY <1>1 DEF Freed, PipeRecord, SameRing
<1>2. ASSUME pipe' = Freed([pipe EXCEPT !.writers = pipe.writers - 1, !.read_waiters = {}])
      PROVE  \/ pipe.readers = 0 /\ pipe.writers = 1 /\ pipe' = EmptyPipe
             \/ /\ pipe.readers # 0 \/ pipe.writers # 1
                /\ pipe'.writers = pipe.writers - 1 /\ pipe'.readers = pipe.readers
                /\ pipe'.epoch = pipe.epoch /\ SameRing
                /\ pipe'.read_waiters = {} /\ pipe'.write_waiters = pipe.write_waiters
  BY <1>2 DEF Freed, PipeRecord, SameRing
<1> QED BY <1>1, <1>2

----------------------------------------------------------------------------
(* The ends are counted as before when no end comes or goes.               *)
SameClosing ==
    \A r \in Procs :
      /\ call'[r].pc = "close_reader" <=> call[r].pc = "close_reader"
      /\ call'[r].pc = "close_writer" <=> call[r].pc = "close_writer"

(* The counts stay right where ends and descriptors do not change.         *)
LEMMA EndsKeep ==
    ASSUME EndsCounted, SameEnds, SameClosing, fds' = fds, pipe.occupied \/ pipe' = pipe
    PROVE  EndsCounted'
<1>1. /\ ReadEnds' = ReadEnds /\ WriteEnds' = WriteEnds
      /\ ClosingReaders' = ClosingReaders /\ ClosingWriters' = ClosingWriters
  BY DEF ReadEnds, WriteEnds, ClosingReaders, ClosingWriters, SameClosing, At
<1> QED BY <1>1 DEF EndsCounted, SameEnds

(* The steps that move no end: they only read or change the waiters, the   *)
(* bytes and the calls.                                                    *)
LEMMA MovesKeepEnds ==
    ASSUME PipeTyped, Held, CallsHeld, EndsCounted, NEW p \in Procs,
           \/ \E n : StartWrite(p, n) \/ StartRead(p, n)
           \/ TryWrite(p) \/ WriteTake(p) \/ WriteCheck(p)
           \/ TryRead(p) \/ ReadTake(p) \/ ReadCheck(p)
           \/ WaitForEvent(p) \/ Woke(p) \/ \E q \in Procs : SignalEvent(p, q)
    PROVE  /\ EndsCounted' /\ SameEnds /\ SameClosing /\ fds' = fds
           /\ pipe.occupied \/ pipe' = pipe
<1> DEFINE Goal == SameEnds /\ SameClosing /\ fds' = fds /\ (pipe.occupied \/ pipe' = pipe)
<1> SUFFICES Goal
  BY EndsKeep
<1>1. pipe \in PipeRecord
  BY DEF PipeTyped
<1>2. pipe' = pipe => SameEnds
  BY DEF SameEnds
<1>3. /\ Others(p) /\ call[p].pc # "close_reader" /\ call[p].pc # "close_writer"
      /\ call'[p].pc # "close_reader" /\ call'[p].pc # "close_writer"
      => SameClosing
  BY DEF SameClosing, Others
<1>4. NoCall.pc = "idle"
  BY DEF NoCall
<1>5. ASSUME NEW n, StartWrite(p, n) PROVE Goal
  BY <1>2, <1>3, <1>5, StartWriteDoes DEF Starts, At
<1>6. ASSUME NEW n, StartRead(p, n) PROVE Goal
  BY <1>2, <1>3, <1>6, StartReadDoes DEF Starts, At
<1>7. CASE TryWrite(p)
  <2>1. /\ At(p, "write") /\ Others(p) /\ pipe.occupied /\ fds' = fds
        /\ call'[p].pc \in {"idle", "write_take", "write_check"}
        /\ \/ pipe' = pipe \/ pipe' = Filled(Room(p))
           \/ pipe' = [pipe EXCEPT !.write_waiters = pipe.write_waiters \cup {p}]
    BY <1>4, <1>7, TryWriteDoes DEF Ends, Onward
  <2>2. SameEnds
    BY <2>1, <1>1, <1>2, PipeParts
  <2> QED BY <2>1, <2>2, <1>3 DEF At
<1>8. CASE WriteTake(p)
  <2>1. /\ At(p, "write_take") /\ Others(p) /\ pipe.occupied /\ fds' = fds
        /\ call'[p].pc = "wake" /\ pipe' = [pipe EXCEPT !.read_waiters = {}]
    BY <1>8, WriteTakeDoes DEF Wakes
  <2>2. SameEnds
    BY <2>1, <1>1, PipeParts
  <2> QED BY <2>1, <2>2, <1>3 DEF At
<1>9. CASE WriteCheck(p)
  <2>1. /\ At(p, "write_check") /\ Others(p) /\ pipe' = pipe /\ fds' = fds
        /\ call'[p].pc \in {"write_wait", "write"}
    BY <1>9, WriteCheckDoes DEF Onward
  <2> QED BY <2>1, <1>2, <1>3 DEF At
<1>10. CASE TryRead(p)
  <2>1. /\ At(p, "read") /\ Others(p) /\ pipe.occupied /\ fds' = fds
        /\ call'[p].pc \in {"idle", "read_take", "read_check"}
        /\ \/ pipe' = pipe \/ pipe' = Emptied(Available(p))
           \/ pipe' = [pipe EXCEPT !.read_waiters = pipe.read_waiters \cup {p}]
    BY <1>4, <1>10, TryReadDoes DEF Ends, Onward
  <2>2. SameEnds
    BY <2>1, <1>1, <1>2, PipeParts
  <2> QED BY <2>1, <2>2, <1>3 DEF At
<1>11. CASE ReadTake(p)
  <2>1. /\ At(p, "read_take") /\ Others(p) /\ pipe.occupied /\ fds' = fds
        /\ call'[p].pc = "wake" /\ pipe' = [pipe EXCEPT !.write_waiters = {}]
    BY <1>11, ReadTakeDoes DEF Wakes
  <2>2. SameEnds
    BY <2>1, <1>1, PipeParts
  <2> QED BY <2>1, <2>2, <1>3 DEF At
<1>12. CASE ReadCheck(p)
  <2>1. /\ At(p, "read_check") /\ Others(p) /\ pipe' = pipe /\ fds' = fds
        /\ call'[p].pc \in {"read_wait", "read"}
    BY <1>12, ReadCheckDoes DEF Onward
  <2> QED BY <2>1, <1>2, <1>3 DEF At
<1>13. CASE WaitForEvent(p)
  <2>1. /\ At(p, "read_wait") \/ At(p, "write_wait")
        /\ Others(p) /\ pipe' = pipe /\ fds' = fds
        /\ call'[p].pc \in {"read", "write", "read_blocked", "write_blocked"}
    BY <1>13, WaitForEventDoes DEF Onward
  <2> QED BY <2>1, <1>2, <1>3 DEF At
<1>14. CASE Woke(p)
  <2>1. /\ At(p, "wake") /\ Others(p) /\ pipe' = pipe /\ fds' = fds
        /\ call'[p].pc \in {"write", "idle"}
    BY <1>4, <1>14, WokeDoes DEF Onward, Ends
  <2> QED BY <2>1, <1>2, <1>3 DEF At
<1>15. ASSUME NEW q \in Procs, SignalEvent(p, q) PROVE Goal
  <2>0. Signals(p, q)
    BY <1>15, SignalEventDoes
  <2>1. /\ fds' = fds /\ pipe' = pipe
        /\ \A r \in Procs : r # q => call'[r].pc = call[r].pc
        /\ \/ Blocked(q) /\ call'[q].pc \in {"write", "read"}
           \/ call'[q].pc = call[q].pc
    BY <2>0 DEF Signals
  <2>2. SameClosing
    <3> SUFFICES ASSUME NEW r \in Procs
                 PROVE  /\ call'[r].pc = "close_reader" <=> call[r].pc = "close_reader"
                        /\ call'[r].pc = "close_writer" <=> call[r].pc = "close_writer"
      BY DEF SameClosing
    <3>1. CASE r = q
      BY <3>1, <2>1 DEF Blocked
    <3>2. CASE r # q
      BY <3>2, <2>1
    <3> QED BY <3>1, <3>2
  <2> QED BY <2>1, <2>2, <1>2
<1> QED BY Zenon, <1>5, <1>6, <1>7, <1>8, <1>9, <1>10, <1>11, <1>12, <1>13, <1>14, <1>15

(* No descriptor and no close is left on a slot that is free.              *)
LEMMA NobodyCounted ==
    ASSUME NEW S \in SUBSET Procs, NEW T \in SUBSET Procs,
           Cardinality(S) + Cardinality(T) = 0
    PROVE  S = {} /\ T = {}
<1>1. IsFiniteSet(S) /\ IsFiniteSet(T)
  BY PipeNumbers, FS_Subset
<1>2. Cardinality(S) \in Nat /\ Cardinality(T) \in Nat
  BY <1>1, FS_CardinalityType
<1>3. Cardinality(S) = 0 /\ Cardinality(T) = 0
  BY <1>2
<1> QED BY <1>1, <1>3, FS_EmptySet

(* The counts after a step of p: each set gains p, loses p or stays.       *)
LEMMA CountsMove ==
    ASSUME NEW p \in Procs,
           \A q \in Procs \ {p} : fds'[q] = fds[q] /\ call'[q].pc = call[q].pc
    PROVE  /\ Cardinality(ReadEnds) \in Nat /\ Cardinality(WriteEnds) \in Nat
           /\ Cardinality(ClosingReaders) \in Nat /\ Cardinality(ClosingWriters) \in Nat
           /\ (fds'[p].read # 0) /\ ~(fds[p].read # 0)
                => Cardinality(ReadEnds') = Cardinality(ReadEnds) + 1
           /\ ~(fds'[p].read # 0) /\ fds[p].read # 0
                => Cardinality(ReadEnds') = Cardinality(ReadEnds) - 1
           /\ (fds'[p].read # 0 <=> fds[p].read # 0)
                => Cardinality(ReadEnds') = Cardinality(ReadEnds)
           /\ (fds'[p].write # 0) /\ ~(fds[p].write # 0)
                => Cardinality(WriteEnds') = Cardinality(WriteEnds) + 1
           /\ ~(fds'[p].write # 0) /\ fds[p].write # 0
                => Cardinality(WriteEnds') = Cardinality(WriteEnds) - 1
           /\ (fds'[p].write # 0 <=> fds[p].write # 0)
                => Cardinality(WriteEnds') = Cardinality(WriteEnds)
           /\ (call'[p].pc = "close_reader") /\ ~(call[p].pc = "close_reader")
                => Cardinality(ClosingReaders') = Cardinality(ClosingReaders) + 1
           /\ ~(call'[p].pc = "close_reader") /\ call[p].pc = "close_reader"
                => Cardinality(ClosingReaders') = Cardinality(ClosingReaders) - 1
           /\ (call'[p].pc = "close_reader" <=> call[p].pc = "close_reader")
                => Cardinality(ClosingReaders') = Cardinality(ClosingReaders)
           /\ (call'[p].pc = "close_writer") /\ ~(call[p].pc = "close_writer")
                => Cardinality(ClosingWriters') = Cardinality(ClosingWriters) + 1
           /\ ~(call'[p].pc = "close_writer") /\ call[p].pc = "close_writer"
                => Cardinality(ClosingWriters') = Cardinality(ClosingWriters) - 1
           /\ (call'[p].pc = "close_writer" <=> call[p].pc = "close_writer")
                => Cardinality(ClosingWriters') = Cardinality(ClosingWriters)
<1>1. /\ Cardinality(ReadEnds) \in Nat
      /\ (fds'[p].read # 0) /\ ~(fds[p].read # 0)
           => Cardinality(ReadEnds') = Cardinality(ReadEnds) + 1
      /\ ~(fds'[p].read # 0) /\ fds[p].read # 0
           => Cardinality(ReadEnds') = Cardinality(ReadEnds) - 1
      /\ (fds'[p].read # 0 <=> fds[p].read # 0)
           => Cardinality(ReadEnds') = Cardinality(ReadEnds)
  <2>0. ReadEnds \in SUBSET Procs /\ ReadEnds' \in SUBSET Procs
    BY DEF ReadEnds
  <2>1. PICK S \in SUBSET Procs : S = ReadEnds
    BY <2>0
  <2>2. PICK T \in SUBSET Procs : T = ReadEnds'
    BY <2>0
  <2>3. /\ \A q \in Procs \ {p} : q \in S <=> q \in T
        /\ p \in S <=> fds[p].read # 0
        /\ p \in T <=> fds'[p].read # 0
    BY <2>1, <2>2 DEF ReadEnds, At
  <2>4. \A q \in Procs \ {p} : q \in S <=> q \in T
    BY <2>3
  <2>5. OneMoved(p, S, T)
    BY <2>4, OneProcess
  <2> QED BY <2>1, <2>2, <2>3, <2>5 DEF OneMoved
<1>2. /\ Cardinality(WriteEnds) \in Nat
      /\ (fds'[p].write # 0) /\ ~(fds[p].write # 0)
           => Cardinality(WriteEnds') = Cardinality(WriteEnds) + 1
      /\ ~(fds'[p].write # 0) /\ fds[p].write # 0
           => Cardinality(WriteEnds') = Cardinality(WriteEnds) - 1
      /\ (fds'[p].write # 0 <=> fds[p].write # 0)
           => Cardinality(WriteEnds') = Cardinality(WriteEnds)
  <2>0. WriteEnds \in SUBSET Procs /\ WriteEnds' \in SUBSET Procs
    BY DEF WriteEnds
  <2>1. PICK S \in SUBSET Procs : S = WriteEnds
    BY <2>0
  <2>2. PICK T \in SUBSET Procs : T = WriteEnds'
    BY <2>0
  <2>3. /\ \A q \in Procs \ {p} : q \in S <=> q \in T
        /\ p \in S <=> fds[p].write # 0
        /\ p \in T <=> fds'[p].write # 0
    BY <2>1, <2>2 DEF WriteEnds, At
  <2>4. \A q \in Procs \ {p} : q \in S <=> q \in T
    BY <2>3
  <2>5. OneMoved(p, S, T)
    BY <2>4, OneProcess
  <2> QED BY <2>1, <2>2, <2>3, <2>5 DEF OneMoved
<1>3. /\ Cardinality(ClosingReaders) \in Nat
      /\ (call'[p].pc = "close_reader") /\ ~(call[p].pc = "close_reader")
           => Cardinality(ClosingReaders') = Cardinality(ClosingReaders) + 1
      /\ ~(call'[p].pc = "close_reader") /\ call[p].pc = "close_reader"
           => Cardinality(ClosingReaders') = Cardinality(ClosingReaders) - 1
      /\ (call'[p].pc = "close_reader" <=> call[p].pc = "close_reader")
           => Cardinality(ClosingReaders') = Cardinality(ClosingReaders)
  <2>0. ClosingReaders \in SUBSET Procs /\ ClosingReaders' \in SUBSET Procs
    BY DEF ClosingReaders
  <2>1. PICK S \in SUBSET Procs : S = ClosingReaders
    BY <2>0
  <2>2. PICK T \in SUBSET Procs : T = ClosingReaders'
    BY <2>0
  <2>3. /\ \A q \in Procs \ {p} : q \in S <=> q \in T
        /\ p \in S <=> call[p].pc = "close_reader"
        /\ p \in T <=> call'[p].pc = "close_reader"
    BY <2>1, <2>2 DEF ClosingReaders, At
  <2>4. \A q \in Procs \ {p} : q \in S <=> q \in T
    BY <2>3
  <2>5. OneMoved(p, S, T)
    BY <2>4, OneProcess
  <2> QED BY <2>1, <2>2, <2>3, <2>5 DEF OneMoved
<1>4. /\ Cardinality(ClosingWriters) \in Nat
      /\ (call'[p].pc = "close_writer") /\ ~(call[p].pc = "close_writer")
           => Cardinality(ClosingWriters') = Cardinality(ClosingWriters) + 1
      /\ ~(call'[p].pc = "close_writer") /\ call[p].pc = "close_writer"
           => Cardinality(ClosingWriters') = Cardinality(ClosingWriters) - 1
      /\ (call'[p].pc = "close_writer" <=> call[p].pc = "close_writer")
           => Cardinality(ClosingWriters') = Cardinality(ClosingWriters)
  <2>0. ClosingWriters \in SUBSET Procs /\ ClosingWriters' \in SUBSET Procs
    BY DEF ClosingWriters
  <2>1. PICK S \in SUBSET Procs : S = ClosingWriters
    BY <2>0
  <2>2. PICK T \in SUBSET Procs : T = ClosingWriters'
    BY <2>0
  <2>3. /\ \A q \in Procs \ {p} : q \in S <=> q \in T
        /\ p \in S <=> call[p].pc = "close_writer"
        /\ p \in T <=> call'[p].pc = "close_writer"
    BY <2>1, <2>2 DEF ClosingWriters, At
  <2>4. \A q \in Procs \ {p} : q \in S <=> q \in T
    BY <2>3
  <2>5. OneMoved(p, S, T)
    BY <2>4, OneProcess
  <2> QED BY <2>1, <2>2, <2>3, <2>5 DEF OneMoved
<1> QED BY <1>1, <1>2, <1>3, <1>4

(* pipe: the caller gets both ends of a pipe in a slot nobody held.        *)
LEMMA CreateDoes ==
    ASSUME PipeTyped, EndsCounted, NEW p \in Procs, Create(p)
    PROVE  /\ At(p, "idle") /\ call' = call /\ latch' = latch /\ sent' = 0 /\ received' = 0
           /\ \A q \in Procs : /\ fds[q].read = 0 /\ fds[q].write = 0
                               /\ ~At(q, "close_reader") /\ ~At(q, "close_writer")
           /\ pipe = EmptyPipe
           /\ pipe'.readers = 1 /\ pipe'.writers = 1 /\ pipe'.occupied /\ pipe'.len = 0
           /\ pipe'.head = 0 /\ pipe'.tail = 0
           /\ pipe'.epoch # 0 /\ fds'[p].read = pipe'.epoch /\ fds'[p].write = pipe'.epoch
           /\ \A q \in Procs \ {p} : fds'[q] = fds[q]
<1>1. pipe = EmptyPipe /\ pipe.readers = 0 /\ pipe.writers = 0
  BY DEF Create, EndsCounted, EmptyPipe
<1>2. \A q \in Procs : /\ fds[q].read = 0 /\ fds[q].write = 0
                       /\ ~At(q, "close_reader") /\ ~At(q, "close_writer")
  <2>1. /\ ReadEnds \in SUBSET Procs /\ ClosingReaders \in SUBSET Procs
        /\ WriteEnds \in SUBSET Procs /\ ClosingWriters \in SUBSET Procs
    BY DEF ReadEnds, WriteEnds, ClosingReaders, ClosingWriters
  <2>2. /\ Cardinality(ReadEnds) + Cardinality(ClosingReaders) = 0
        /\ Cardinality(WriteEnds) + Cardinality(ClosingWriters) = 0
    BY <1>1 DEF EndsCounted
  <2>3. ReadEnds = {} /\ ClosingReaders = {} /\ WriteEnds = {} /\ ClosingWriters = {}
    BY <2>1, <2>2, NobodyCounted
  <2> QED BY <2>3 DEF ReadEnds, WriteEnds, ClosingReaders, ClosingWriters
<1>3. fds \in [Procs -> [read : Nat, write : Nat]] /\ epoch \in Nat
  BY DEF PipeTyped
<1>4. /\ pipe'.readers = 1 /\ pipe'.writers = 1 /\ pipe'.occupied /\ pipe'.len = 0
      /\ pipe'.head = 0 /\ pipe'.tail = 0 /\ pipe'.epoch = epoch + 1
  BY DEF Create, EmptyPipe
<1>5. /\ fds'[p].read = epoch + 1 /\ fds'[p].write = epoch + 1
      /\ \A q \in Procs \ {p} : fds'[q] = fds[q]
  BY <1>3 DEF Create
<1> QED BY <1>1, <1>2, <1>3, <1>4, <1>5 DEF Create

(* Table::clone_reader and clone_writer: one more end of the same pipe.    *)
LEMMA CloneReaderDoes ==
    ASSUME PipeTyped, NEW p \in Procs, NEW q \in Procs, CloneReader(p, q)
    PROVE  /\ At(q, "idle") /\ fds[q].read = 0 /\ fds'[q].read = pipe.epoch
           /\ fds'[q].read # 0 /\ fds'[q].write = fds[q].write
           /\ \A r \in Procs \ {q} : fds'[r] = fds[r]
           /\ pipe.occupied /\ pipe'.readers = pipe.readers + 1 /\ pipe'.writers = pipe.writers
           /\ pipe'.epoch = pipe.epoch /\ SameRing
           /\ pipe'.read_waiters = pipe.read_waiters /\ pipe'.write_waiters = pipe.write_waiters
           /\ UNCHANGED <<epoch, call, latch, sent, received>>
<1>1. /\ fds \in [Procs -> [read : Nat, write : Nat]] /\ pipe \in PipeRecord
      /\ fds[q] \in [read : Nat, write : Nat]
  BY DEF PipeTyped
<1>2. /\ fds'[q].read = fds[p].read /\ fds'[q].write = fds[q].write
      /\ \A r \in Procs \ {q} : fds'[r] = fds[r]
  BY <1>1 DEF CloneReader
<1>3. /\ pipe'.readers = pipe.readers + 1 /\ pipe'.writers = pipe.writers
      /\ pipe'.epoch = pipe.epoch /\ SameRing
      /\ pipe'.read_waiters = pipe.read_waiters /\ pipe'.write_waiters = pipe.write_waiters
  BY <1>1 DEF CloneReader, PipeRecord, SameRing
<1> QED BY <1>2, <1>3 DEF CloneReader, Valid

(* clone_writer: one more reference, of the child.                         *)
LEMMA CloneWriterDoes ==
    ASSUME PipeTyped, NEW p \in Procs, NEW q \in Procs, CloneWriter(p, q)
    PROVE  /\ At(q, "idle") /\ fds[q].write = 0 /\ fds'[q].write = pipe.epoch
           /\ fds'[q].write # 0 /\ fds'[q].read = fds[q].read
           /\ \A r \in Procs \ {q} : fds'[r] = fds[r]
           /\ pipe.occupied /\ pipe'.writers = pipe.writers + 1 /\ pipe'.readers = pipe.readers
           /\ pipe'.epoch = pipe.epoch /\ SameRing
           /\ pipe'.read_waiters = pipe.read_waiters /\ pipe'.write_waiters = pipe.write_waiters
           /\ UNCHANGED <<epoch, call, latch, sent, received>>
<1>1. /\ fds \in [Procs -> [read : Nat, write : Nat]] /\ pipe \in PipeRecord
      /\ fds[q] \in [read : Nat, write : Nat]
  BY DEF PipeTyped
<1>2. /\ fds'[q].write = fds[p].write /\ fds'[q].read = fds[q].read
      /\ \A r \in Procs \ {q} : fds'[r] = fds[r]
  BY <1>1 DEF CloneWriter
<1>3. /\ pipe'.writers = pipe.writers + 1 /\ pipe'.readers = pipe.readers
      /\ pipe'.epoch = pipe.epoch /\ SameRing
      /\ pipe'.read_waiters = pipe.read_waiters /\ pipe'.write_waiters = pipe.write_waiters
  BY <1>1 DEF CloneWriter, PipeRecord, SameRing
<1> QED BY <1>2, <1>3 DEF CloneWriter, Valid

(* Whatever moves an end counts it.                                        *)
LEMMA EndsStep ==
    ASSUME PipeTyped, PipeTyped', Held, CallsHeld, EndsCounted, PipeNext
    PROVE  EndsCounted'
<1>1. PICK p \in Procs : Begin(p) \/ Step(p)
  BY DEF PipeNext
<1>2. /\ pipe \in PipeRecord /\ pipe.readers \in Nat /\ pipe.writers \in Nat
      /\ pipe.readers = Cardinality(ReadEnds) + Cardinality(ClosingReaders)
      /\ pipe.writers = Cardinality(WriteEnds) + Cardinality(ClosingWriters)
      /\ \A q \in Procs : {fds[q].read, fds[q].write} \subseteq {0, pipe.epoch}
      /\ pipe.occupied <=> pipe.readers + pipe.writers > 0
      /\ pipe.occupied => pipe.epoch # 0
  BY DEF PipeTyped, PipeRecord, EndsCounted
<1>3. CASE Create(p)
  <2>1. /\ At(p, "idle") /\ call' = call
        /\ \A q \in Procs : /\ fds[q].read = 0 /\ fds[q].write = 0
                            /\ ~At(q, "close_reader") /\ ~At(q, "close_writer")
        /\ pipe = EmptyPipe
        /\ pipe'.readers = 1 /\ pipe'.writers = 1 /\ pipe'.occupied
        /\ pipe'.epoch # 0 /\ fds'[p].read = pipe'.epoch /\ fds'[p].write = pipe'.epoch
        /\ \A q \in Procs \ {p} : fds'[q] = fds[q]
    BY <1>3, CreateDoes
  <2>2. /\ Cardinality(ReadEnds) \in Nat /\ Cardinality(WriteEnds) \in Nat
        /\ Cardinality(ClosingReaders) \in Nat /\ Cardinality(ClosingWriters) \in Nat
        /\ Cardinality(ReadEnds') = Cardinality(ReadEnds) + 1
        /\ Cardinality(WriteEnds') = Cardinality(WriteEnds) + 1
        /\ Cardinality(ClosingReaders') = Cardinality(ClosingReaders)
        /\ Cardinality(ClosingWriters') = Cardinality(ClosingWriters)
    BY <2>1, CountsMove DEF At
  <2>3. pipe.readers = 0 /\ pipe.writers = 0
    BY <2>1 DEF EmptyPipe
  <2>4. /\ pipe'.readers = Cardinality(ReadEnds') + Cardinality(ClosingReaders')
        /\ pipe'.writers = Cardinality(WriteEnds') + Cardinality(ClosingWriters')
    BY <2>1, <2>2, <2>3, <1>2
  <2>5. \A q \in Procs : {fds'[q].read, fds'[q].write} \subseteq {0, pipe'.epoch}
    BY <2>1
  <2> QED BY <2>1, <2>4, <2>5 DEF EndsCounted
<1>4. CASE StartClose(p)
  <2>1. /\ At(p, "idle") /\ Others(p) /\ pipe' = pipe
        /\ \A q \in Procs \ {p} : fds'[q] = fds[q]
        /\ \/ /\ fds[p].read # 0 /\ fds'[p].read = 0 /\ fds'[p].write = fds[p].write
              /\ call'[p].pc = "close_reader"
           \/ /\ fds[p].write # 0 /\ fds'[p].write = 0 /\ fds'[p].read = fds[p].read
              /\ call'[p].pc = "close_writer"
    BY <1>4, StartCloseDoes
  <2>2. \A q \in Procs \ {p} : fds'[q] = fds[q] /\ call'[q].pc = call[q].pc
    BY Zenon, <2>1 DEF Others
  <2>3. /\ Cardinality(ReadEnds) \in Nat /\ Cardinality(WriteEnds) \in Nat
        /\ Cardinality(ClosingReaders) \in Nat /\ Cardinality(ClosingWriters) \in Nat
        /\ Cardinality(ReadEnds') + Cardinality(ClosingReaders')
             = Cardinality(ReadEnds) + Cardinality(ClosingReaders)
        /\ Cardinality(WriteEnds') + Cardinality(ClosingWriters')
             = Cardinality(WriteEnds) + Cardinality(ClosingWriters)
    BY <2>1, <2>2, CountsMove DEF At
  <2>4. \A q \in Procs : {fds'[q].read, fds'[q].write} \subseteq {0, pipe.epoch}
    BY <2>1, <1>2
  <2> QED BY <2>1, <2>3, <2>4 DEF EndsCounted
<1>5. ASSUME NEW q \in Procs, CloneReader(p, q) PROVE EndsCounted'
  <2>1. /\ fds[q].read = 0 /\ fds'[q].read = pipe.epoch
        /\ fds'[q].read # 0 /\ fds'[q].write = fds[q].write
        /\ \A r \in Procs \ {q} : fds'[r] = fds[r]
        /\ pipe.occupied /\ pipe'.readers = pipe.readers + 1 /\ pipe'.writers = pipe.writers
        /\ pipe'.epoch = pipe.epoch /\ pipe'.occupied = pipe.occupied /\ call' = call
    BY <1>5, CloneReaderDoes DEF SameRing
  <2>2. /\ Cardinality(ReadEnds) \in Nat /\ Cardinality(WriteEnds) \in Nat
        /\ Cardinality(ClosingReaders) \in Nat /\ Cardinality(ClosingWriters) \in Nat
        /\ Cardinality(ReadEnds') = Cardinality(ReadEnds) + 1
        /\ Cardinality(WriteEnds') = Cardinality(WriteEnds)
        /\ Cardinality(ClosingReaders') = Cardinality(ClosingReaders)
        /\ Cardinality(ClosingWriters') = Cardinality(ClosingWriters)
    BY Zenon, <2>1, CountsMove
  <2>3. /\ pipe'.readers = Cardinality(ReadEnds') + Cardinality(ClosingReaders')
        /\ pipe'.writers = Cardinality(WriteEnds') + Cardinality(ClosingWriters')
        /\ pipe'.readers + pipe'.writers > 0
    BY <2>1, <2>2, <1>2
  <2>4. \A r \in Procs : {fds'[r].read, fds'[r].write} \subseteq {0, pipe'.epoch}
    BY <2>1, <1>2
  <2> QED BY Zenon, <2>1, <2>3, <2>4, <1>2 DEF EndsCounted
<1>6. ASSUME NEW q \in Procs, CloneWriter(p, q) PROVE EndsCounted'
  <2>1. /\ fds[q].write = 0 /\ fds'[q].write = pipe.epoch
        /\ fds'[q].write # 0 /\ fds'[q].read = fds[q].read
        /\ \A r \in Procs \ {q} : fds'[r] = fds[r]
        /\ pipe.occupied /\ pipe'.writers = pipe.writers + 1 /\ pipe'.readers = pipe.readers
        /\ pipe'.epoch = pipe.epoch /\ pipe'.occupied = pipe.occupied /\ call' = call
    BY <1>6, CloneWriterDoes DEF SameRing
  <2>2. /\ Cardinality(ReadEnds) \in Nat /\ Cardinality(WriteEnds) \in Nat
        /\ Cardinality(ClosingReaders) \in Nat /\ Cardinality(ClosingWriters) \in Nat
        /\ Cardinality(ReadEnds') = Cardinality(ReadEnds)
        /\ Cardinality(WriteEnds') = Cardinality(WriteEnds) + 1
        /\ Cardinality(ClosingReaders') = Cardinality(ClosingReaders)
        /\ Cardinality(ClosingWriters') = Cardinality(ClosingWriters)
    BY Zenon, <2>1, CountsMove
  <2>3. /\ pipe'.readers = Cardinality(ReadEnds') + Cardinality(ClosingReaders')
        /\ pipe'.writers = Cardinality(WriteEnds') + Cardinality(ClosingWriters')
        /\ pipe'.readers + pipe'.writers > 0
    BY <2>1, <2>2, <1>2
  <2>4. \A r \in Procs : {fds'[r].read, fds'[r].write} \subseteq {0, pipe'.epoch}
    BY <2>1, <1>2
  <2> QED BY Zenon, <2>1, <2>3, <2>4, <1>2 DEF EndsCounted
<1>7. CASE CloseReader(p)
  <2>1. /\ At(p, "close_reader") /\ Others(p) /\ call'[p].pc = "wake"
        /\ pipe.occupied /\ pipe.readers > 0 /\ fds' = fds
        /\ pipe' = Freed([pipe EXCEPT !.readers = pipe.readers - 1, !.write_waiters = {}])
    BY <1>7, CloseReaderDoes DEF Wakes
  <2>2. \A q \in Procs \ {p} : fds'[q] = fds[q] /\ call'[q].pc = call[q].pc
    BY <2>1 DEF Others
  <2>3. /\ Cardinality(ReadEnds) \in Nat /\ Cardinality(WriteEnds) \in Nat
        /\ Cardinality(ClosingReaders) \in Nat /\ Cardinality(ClosingWriters) \in Nat
        /\ Cardinality(ReadEnds') = Cardinality(ReadEnds)
        /\ Cardinality(WriteEnds') = Cardinality(WriteEnds)
        /\ Cardinality(ClosingReaders') = Cardinality(ClosingReaders) - 1
        /\ Cardinality(ClosingWriters') = Cardinality(ClosingWriters)
    BY <2>1, <2>2, CountsMove DEF At
  <2>4. \/ pipe.readers = 1 /\ pipe.writers = 0 /\ pipe' = EmptyPipe
        \/ /\ pipe.readers # 1 \/ pipe.writers # 0
           /\ pipe'.readers = pipe.readers - 1 /\ pipe'.writers = pipe.writers
           /\ pipe'.epoch = pipe.epoch /\ SameRing
    BY <2>1, <1>2, ClosedParts
  <2>5. CASE pipe.readers = 1 /\ pipe.writers = 0 /\ pipe' = EmptyPipe
    <3>1. pipe'.readers = 0 /\ pipe'.writers = 0 /\ pipe'.occupied = FALSE
      BY <2>5 DEF EmptyPipe
    <3>2. /\ pipe'.readers = Cardinality(ReadEnds') + Cardinality(ClosingReaders')
          /\ pipe'.writers = Cardinality(WriteEnds') + Cardinality(ClosingWriters')
      BY <3>1, <2>3, <2>5, <1>2
    <3>3. \A q \in Procs : fds'[q].read = 0 /\ fds'[q].write = 0
      <4>0. /\ ReadEnds' \in SUBSET Procs /\ ClosingReaders' \in SUBSET Procs
            /\ WriteEnds' \in SUBSET Procs /\ ClosingWriters' \in SUBSET Procs
        BY DEF ReadEnds, WriteEnds, ClosingReaders, ClosingWriters
      <4>1. PICK S \in SUBSET Procs, T \in SUBSET Procs : S = ReadEnds' /\ T = ClosingReaders'
        BY <4>0
      <4>2. PICK U \in SUBSET Procs, V \in SUBSET Procs : U = WriteEnds' /\ V = ClosingWriters'
        BY <4>0
      <4>3. Cardinality(S) + Cardinality(T) = 0 /\ Cardinality(U) + Cardinality(V) = 0
        BY <4>1, <4>2, <3>1, <3>2
      <4>4. S = {} /\ U = {}
        BY <4>3, NobodyCounted
      <4> QED BY <4>1, <4>2, <4>4 DEF ReadEnds, WriteEnds
    <3> QED BY <3>1, <3>2, <3>3, <2>5 DEF EndsCounted
  <2>6. CASE /\ pipe.readers # 1 \/ pipe.writers # 0
             /\ pipe'.readers = pipe.readers - 1 /\ pipe'.writers = pipe.writers
             /\ pipe'.epoch = pipe.epoch /\ SameRing
    <3>1. /\ pipe'.readers = Cardinality(ReadEnds') + Cardinality(ClosingReaders')
          /\ pipe'.writers = Cardinality(WriteEnds') + Cardinality(ClosingWriters')
          /\ pipe'.readers + pipe'.writers > 0
      BY <2>1, <2>3, <2>6, <1>2
    <3>2. pipe'.occupied = pipe.occupied
      BY <2>6 DEF SameRing
    <3> QED BY <3>1, <3>2, <2>1, <2>6, <1>2 DEF EndsCounted
  <2> QED BY <2>4, <2>5, <2>6
<1>8. CASE CloseWriter(p)
  <2>1. /\ At(p, "close_writer") /\ Others(p) /\ call'[p].pc = "wake"
        /\ pipe.occupied /\ pipe.writers > 0 /\ fds' = fds
        /\ pipe' = Freed([pipe EXCEPT !.writers = pipe.writers - 1, !.read_waiters = {}])
    BY <1>8, CloseWriterDoes DEF Wakes
  <2>2. \A q \in Procs \ {p} : fds'[q] = fds[q] /\ call'[q].pc = call[q].pc
    BY <2>1 DEF Others
  <2>3. /\ Cardinality(ReadEnds) \in Nat /\ Cardinality(WriteEnds) \in Nat
        /\ Cardinality(ClosingReaders) \in Nat /\ Cardinality(ClosingWriters) \in Nat
        /\ Cardinality(ReadEnds') = Cardinality(ReadEnds)
        /\ Cardinality(WriteEnds') = Cardinality(WriteEnds)
        /\ Cardinality(ClosingReaders') = Cardinality(ClosingReaders)
        /\ Cardinality(ClosingWriters') = Cardinality(ClosingWriters) - 1
    BY <2>1, <2>2, CountsMove DEF At
  <2>4. \/ pipe.readers = 0 /\ pipe.writers = 1 /\ pipe' = EmptyPipe
        \/ /\ pipe.readers # 0 \/ pipe.writers # 1
           /\ pipe'.writers = pipe.writers - 1 /\ pipe'.readers = pipe.readers
           /\ pipe'.epoch = pipe.epoch /\ SameRing
    BY <2>1, <1>2, ClosedParts
  <2>5. CASE pipe.readers = 0 /\ pipe.writers = 1 /\ pipe' = EmptyPipe
    <3>1. pipe'.readers = 0 /\ pipe'.writers = 0 /\ pipe'.occupied = FALSE
      BY <2>5 DEF EmptyPipe
    <3>2. /\ pipe'.readers = Cardinality(ReadEnds') + Cardinality(ClosingReaders')
          /\ pipe'.writers = Cardinality(WriteEnds') + Cardinality(ClosingWriters')
      BY SMTT(30), <3>1, <2>3, <2>5, <1>2
    <3>3. \A q \in Procs : fds'[q].read = 0 /\ fds'[q].write = 0
      <4>0. /\ ReadEnds' \in SUBSET Procs /\ ClosingReaders' \in SUBSET Procs
            /\ WriteEnds' \in SUBSET Procs /\ ClosingWriters' \in SUBSET Procs
        BY DEF ReadEnds, WriteEnds, ClosingReaders, ClosingWriters
      <4>1. PICK S \in SUBSET Procs, T \in SUBSET Procs : S = ReadEnds' /\ T = ClosingReaders'
        BY <4>0
      <4>2. PICK U \in SUBSET Procs, V \in SUBSET Procs : U = WriteEnds' /\ V = ClosingWriters'
        BY <4>0
      <4>3. Cardinality(S) + Cardinality(T) = 0 /\ Cardinality(U) + Cardinality(V) = 0
        BY <4>1, <4>2, <3>1, <3>2
      <4>4. S = {} /\ U = {}
        BY <4>3, NobodyCounted
      <4> QED BY <4>1, <4>2, <4>4 DEF ReadEnds, WriteEnds
    <3> QED BY <3>1, <3>2, <3>3, <2>5 DEF EndsCounted
  <2>6. CASE /\ pipe.readers # 0 \/ pipe.writers # 1
             /\ pipe'.writers = pipe.writers - 1 /\ pipe'.readers = pipe.readers
             /\ pipe'.epoch = pipe.epoch /\ SameRing
    <3>1. /\ pipe'.readers = Cardinality(ReadEnds') + Cardinality(ClosingReaders')
          /\ pipe'.writers = Cardinality(WriteEnds') + Cardinality(ClosingWriters')
          /\ pipe'.readers + pipe'.writers > 0
      BY <2>1, <2>3, <2>6, <1>2
    <3>2. pipe'.occupied = pipe.occupied
      BY <2>6 DEF SameRing
    <3> QED BY <3>1, <3>2, <2>1, <2>6, <1>2 DEF EndsCounted
  <2> QED BY <2>4, <2>5, <2>6
<1>9. CASE \/ \E n : StartWrite(p, n) \/ StartRead(p, n)
           \/ TryWrite(p) \/ WriteTake(p) \/ WriteCheck(p)
           \/ TryRead(p) \/ ReadTake(p) \/ ReadCheck(p)
           \/ WaitForEvent(p) \/ Woke(p) \/ \E q \in Procs : SignalEvent(p, q)
  BY <1>9, MovesKeepEnds
<1> QED BY Zenon, <1>1, <1>3, <1>4, <1>5, <1>6, <1>7, <1>8, <1>9 DEF Begin, Step

----------------------------------------------------------------------------
(* Every call stays on the pipe of its descriptor.                         *)
LEMMA CallKept ==
    ASSUME NEW r \in Procs, CallHeld(r), call'[r] = call[r], fds'[r] = fds[r],
           call[r].pc \in {"close_reader", "close_writer"} => pipe'.epoch = pipe.epoch
    PROVE  CallHeld(r)'
BY DEF CallHeld

(* A slot is freed by the last close.                                      *)
LEMMA FreedAlone ==
    ASSUME EndsCounted', pipe' = EmptyPipe
    PROVE  \A q \in Procs : /\ fds'[q].read = 0 /\ fds'[q].write = 0
                            /\ call'[q].pc \notin {"close_reader", "close_writer"}
<1>1. /\ ReadEnds' \in SUBSET Procs /\ ClosingReaders' \in SUBSET Procs
      /\ WriteEnds' \in SUBSET Procs /\ ClosingWriters' \in SUBSET Procs
  BY DEF ReadEnds, WriteEnds, ClosingReaders, ClosingWriters
<1>2. PICK S \in SUBSET Procs, T \in SUBSET Procs : S = ReadEnds' /\ T = ClosingReaders'
  BY <1>1
<1>3. PICK U \in SUBSET Procs, V \in SUBSET Procs : U = WriteEnds' /\ V = ClosingWriters'
  BY <1>1
<1>4. Cardinality(S) + Cardinality(T) = 0 /\ Cardinality(U) + Cardinality(V) = 0
  BY <1>2, <1>3 DEF EndsCounted, EmptyPipe
<1>5. S = {} /\ T = {} /\ U = {} /\ V = {}
  BY <1>4, NobodyCounted
<1> QED BY <1>2, <1>3, <1>5 DEF ReadEnds, WriteEnds, ClosingReaders, ClosingWriters, At

(* Every step keeps calls on pipes that are held.                          *)
LEMMA CallsStep ==
    ASSUME PipeTyped, Held, CallsHeld, EndsCounted, EndsCounted', PipeNext
    PROVE  CallsHeld'
<1>1. PICK p \in Procs : Begin(p) \/ Step(p)
  BY DEF PipeNext
<1>2. \A r \in Procs : CallHeld(r)
  BY DEF CallsHeld
<1>3. pipe \in PipeRecord
  BY DEF PipeTyped
<1>4. ASSUME Others(p), \A r \in Procs \ {p} : fds'[r] = fds[r], pipe'.epoch = pipe.epoch,
             CallHeld(p)'
      PROVE  CallsHeld'
  <2> SUFFICES ASSUME NEW r \in Procs PROVE CallHeld(r)'
    BY DEF CallsHeld
  <2>1. CASE r = p
    BY <2>1, <1>4
  <2>2. CASE r # p
    BY Zenon, <2>2, <1>2, <1>4, CallKept DEF Others
  <2> QED BY <2>1, <2>2
<1>5. CASE Create(p)
  <2>1. /\ call' = call /\ \A q \in Procs \ {p} : fds'[q] = fds[q]
        /\ At(p, "idle")
        /\ \A q \in Procs : ~At(q, "close_reader") /\ ~At(q, "close_writer")
    BY <1>5, CreateDoes
  <2> SUFFICES ASSUME NEW r \in Procs PROVE CallHeld(r)'
    BY DEF CallsHeld
  <2>2. CASE r = p
    BY <2>1, <2>2, <1>2 DEF CallHeld, At, Reading, Writing
  <2>3. CASE r # p
    BY <2>1, <2>3, <1>2, CallKept DEF At
  <2> QED BY <2>2, <2>3
<1>6. CASE StartClose(p)
  <2>1. /\ At(p, "idle") /\ Others(p) /\ pipe' = pipe
        /\ call'[p].left = call[p].left /\ call'[p].wake = call[p].wake
        /\ \A q \in Procs \ {p} : fds'[q] = fds[q]
        /\ \/ /\ fds[p].read # 0
              /\ call'[p].pc = "close_reader" /\ call'[p].id = fds[p].read
           \/ /\ fds[p].write # 0
              /\ call'[p].pc = "close_writer" /\ call'[p].id = fds[p].write
    BY <1>6, StartCloseDoes
  <2>2. call'[p].id = pipe.epoch
    BY <2>1 DEF EndsCounted
  <2>3. call[p].left = 0 /\ call[p].wake = {}
    BY Zenon, <2>1, <1>2 DEF CallHeld, At
  <2>4. CallHeld(p)'
    BY <2>1, <2>2, <2>3 DEF CallHeld, Reading, Writing
  <2> QED BY Zenon, <2>1, <2>4, <1>4
<1>7. ASSUME NEW q \in Procs, CloneReader(p, q) PROVE CallsHeld'
  <2>1. /\ At(q, "idle") /\ \A r \in Procs \ {q} : fds'[r] = fds[r]
        /\ pipe'.epoch = pipe.epoch /\ call' = call
    BY <1>7, CloneReaderDoes
  <2> SUFFICES ASSUME NEW r \in Procs PROVE CallHeld(r)'
    BY DEF CallsHeld
  <2>2. CASE r = q
    BY <2>1, <2>2, <1>2 DEF CallHeld, At, Reading, Writing
  <2>3. CASE r # q
    BY Zenon, <2>1, <2>3, <1>2, CallKept
  <2> QED BY Zenon, <2>2, <2>3
<1>8. ASSUME NEW q \in Procs, CloneWriter(p, q) PROVE CallsHeld'
  <2>1. /\ At(q, "idle") /\ \A r \in Procs \ {q} : fds'[r] = fds[r]
        /\ pipe'.epoch = pipe.epoch /\ call' = call
    BY Zenon, <1>8, CloneWriterDoes
  <2> SUFFICES ASSUME NEW r \in Procs PROVE CallHeld(r)'
    BY DEF CallsHeld
  <2>2. CASE r = q
    BY <2>1, <2>2, <1>2 DEF CallHeld, At, Reading, Writing
  <2>3. CASE r # q
    BY <2>1, <2>3, <1>2, CallKept
  <2> QED BY <2>2, <2>3
<1>9. ASSUME CloseReader(p) \/ CloseWriter(p) PROVE CallsHeld'
  <2>1. /\ At(p, "close_reader") \/ At(p, "close_writer")
        /\ Others(p) /\ call'[p].pc = "wake" /\ call'[p].left = call[p].left /\ fds' = fds
        /\ pipe' = EmptyPipe \/ pipe'.epoch = pipe.epoch
    BY Zenon, <1>3, <1>9, CloseReaderDoes, CloseWriterDoes, ClosedParts DEF Wakes
  <2>2. call[p].left = 0
    BY <2>1, <1>2 DEF CallHeld, At
  <2>3. CallHeld(p)'
    BY <2>1, <2>2 DEF CallHeld, Reading, Writing
  <2>4. CASE pipe'.epoch = pipe.epoch
    BY Zenon, <2>1, <2>3, <2>4, <1>4
  <2>5. CASE pipe' = EmptyPipe
    <3>1. \A r \in Procs : call'[r].pc \notin {"close_reader", "close_writer"}
      BY <2>5, FreedAlone
    <3> SUFFICES ASSUME NEW r \in Procs PROVE CallHeld(r)'
      BY DEF CallsHeld
    <3>2. CASE r = p
      BY <3>2, <2>3
    <3>3. CASE r # p
      <4>1. call'[r] = call[r]
        BY <3>3, <2>1 DEF Others
      <4> QED BY <4>1, <3>1, <2>1, <1>2, CallKept
    <3> QED BY <3>2, <3>3
  <2> QED BY <2>1, <2>4, <2>5
<1>10. SUFFICES ASSUME \/ \E n : StartWrite(p, n) \/ StartRead(p, n)
                       \/ TryWrite(p) \/ WriteTake(p) \/ WriteCheck(p)
                       \/ TryRead(p) \/ ReadTake(p) \/ ReadCheck(p)
                       \/ WaitForEvent(p) \/ Woke(p) \/ \E q \in Procs : SignalEvent(p, q)
                PROVE  CallsHeld'
  BY Zenon, <1>1, <1>5, <1>6, <1>7, <1>8, <1>9 DEF Begin, Step
<1>11. fds' = fds /\ pipe'.epoch = pipe.epoch
  BY <1>10, MovesKeepEnds DEF SameEnds
<1>12. ASSUME Others(p), CallHeld(p)' PROVE CallsHeld'
  BY <1>4, <1>11, <1>12
<1>13. CallHeld(p)
  BY <1>2
<1>14. ASSUME Ends(p) PROVE CallsHeld'
  <2>1. CallHeld(p)'
    BY <1>14 DEF Ends, NoCall, CallHeld, Reading, Writing
  <2> QED BY <2>1, <1>12, <1>14 DEF Ends
<1>15. ASSUME NEW n, StartWrite(p, n) PROVE CallsHeld'
  <2>1. fds[p].write # 0 /\ Starts(p, "write", fds[p].write)
    BY <1>15, StartWriteDoes
  <2>2. CallHeld(p)'
    BY <2>1, <1>11 DEF Starts, CallHeld, Reading, Writing
  <2> QED BY <2>1, <2>2, <1>12 DEF Starts
<1>16. ASSUME NEW n, StartRead(p, n) PROVE CallsHeld'
  <2>1. fds[p].read # 0 /\ Starts(p, "read", fds[p].read)
    BY <1>16, StartReadDoes
  <2>2. CallHeld(p)'
    BY <2>1, <1>11 DEF Starts, CallHeld, Reading, Writing
  <2> QED BY <2>1, <2>2, <1>12 DEF Starts
<1>17. CASE TryWrite(p)
  <2>1. /\ At(p, "write") /\ Others(p)
        /\ \/ Ends(p)
           \/ /\ call'[p].pc \in {"write_take", "write_check"} /\ call'[p].id = call[p].id
              /\ call'[p].wake = call[p].wake
    BY Zenon, <1>17, TryWriteDoes DEF Onward
  <2>2. ASSUME call'[p].pc \in {"write_take", "write_check"}, call'[p].id = call[p].id,
               call'[p].wake = call[p].wake
        PROVE  CallHeld(p)'
    BY Zenon, <2>1, <2>2, <1>11, <1>13 DEF CallHeld, Reading, Writing, At
  <2> QED BY <2>1, <2>2, <1>12, <1>14
<1>18. CASE WriteTake(p)
  <2>1. /\ At(p, "write_take") /\ Others(p) /\ call'[p].pc = "wake" /\ call'[p].id = call[p].id
    BY <1>18, WriteTakeDoes DEF Wakes
  <2>2. CallHeld(p)'
    BY <2>1, <1>11, <1>13 DEF CallHeld, Reading, Writing, At
  <2> QED BY <2>1, <2>2, <1>12
<1>19. CASE WriteCheck(p)
  <2>1. /\ At(p, "write_check") /\ Others(p) /\ call'[p].pc \in {"write_wait", "write"}
        /\ call'[p].id = call[p].id /\ call'[p].wake = call[p].wake
    BY Zenon, <1>19, WriteCheckDoes DEF Onward
  <2>2. CallHeld(p)'
    BY Zenon, <2>1, <1>11, <1>13 DEF CallHeld, Reading, Writing, At
  <2> QED BY Zenon, <2>1, <2>2, <1>12
<1>20. CASE TryRead(p)
  <2>1. /\ At(p, "read") /\ Others(p)
        /\ \/ Ends(p)
           \/ /\ (call'[p].pc = "read_take" /\ call'[p].left = 0) \/ call'[p].pc = "read_check"
              /\ call'[p].id = call[p].id
              /\ call'[p].wake = call[p].wake
    BY Zenon, <1>20, TryReadDoes DEF Onward
  <2>2. ASSUME (call'[p].pc = "read_take" /\ call'[p].left = 0) \/ call'[p].pc = "read_check",
               call'[p].id = call[p].id, call'[p].wake = call[p].wake
        PROVE  CallHeld(p)'
    BY Zenon, <2>1, <2>2, <1>11, <1>13 DEF CallHeld, Reading, Writing, At
  <2> QED BY <2>1, <2>2, <1>12, <1>14
<1>21. CASE ReadTake(p)
  <2>1. /\ At(p, "read_take") /\ Others(p) /\ call'[p].pc = "wake" /\ call'[p].left = call[p].left
    BY Zenon, <1>21, ReadTakeDoes DEF Wakes
  <2>2. CallHeld(p)'
    BY <2>1, <1>11, <1>13 DEF CallHeld, Reading, Writing, At
  <2> QED BY <2>1, <2>2, <1>12
<1>22. CASE ReadCheck(p)
  <2>1. /\ At(p, "read_check") /\ Others(p) /\ call'[p].pc \in {"read_wait", "read"}
        /\ call'[p].id = call[p].id /\ call'[p].wake = call[p].wake
    BY <1>22, ReadCheckDoes DEF Onward
  <2>2. CallHeld(p)'
    BY <2>1, <1>11, <1>13 DEF CallHeld, Reading, Writing, At
  <2> QED BY <2>1, <2>2, <1>12
<1>23. CASE WaitForEvent(p)
  <2>1. /\ \/ At(p, "read_wait") /\ call'[p].pc \in {"read", "read_blocked"}
           \/ At(p, "write_wait") /\ call'[p].pc \in {"write", "write_blocked"}
        /\ Others(p) /\ call'[p].id = call[p].id /\ call'[p].wake = call[p].wake
    BY Zenon, <1>23, WaitForEventDoes DEF Onward
  <2>2. CallHeld(p)'
    BY <2>1, <1>11, <1>13 DEF CallHeld, Reading, Writing, At
  <2> QED BY Zenon, <2>1, <2>2, <1>12
<1>24. CASE Woke(p)
  <2>1. At(p, "wake") /\ call[p].wake = {} /\ ((call[p].left > 0 /\ Onward(p, "write")) \/ Ends(p))
    BY Zenon, <1>24, WokeDoes
  <2>2. ASSUME call[p].left > 0, Onward(p, "write") PROVE CallHeld(p)' /\ Others(p)
    BY Zenon, <2>1, <2>2, <1>11, <1>13 DEF CallHeld, Reading, Writing, At, Onward
  <2> QED BY Zenon, <2>1, <2>2, <1>12, <1>14
<1>25. ASSUME NEW q \in Procs, SignalEvent(p, q) PROVE CallsHeld'
  <2>1. Signals(p, q)
    BY <1>25, SignalEventDoes
  <2> SUFFICES ASSUME NEW r \in Procs PROVE CallHeld(r)'
    BY DEF CallsHeld
  <2>2. /\ call'[r].id = call[r].id /\ call'[r].left = call[r].left
        /\ call'[r].wake = IF r = p THEN call[p].wake \ {q} ELSE call[r].wake
        /\ r # q => call'[r].pc = call[r].pc
        /\ At(p, "wake")
        /\ \/ Blocked(q) /\ call'[q].pc = IF At(q, "write_blocked") THEN "write" ELSE "read"
           \/ call'[q].pc = call[q].pc
    BY <2>1 DEF Signals
  <2>3. call[r].wake = {} => call'[r].wake = {}
    BY <2>2
  <2>4. CallHeld(r)
    BY Zenon, <1>2
  <2>5. CASE call'[r].pc = call[r].pc
    BY Zenon, <2>2, <2>3, <2>4, <2>5, <1>11 DEF CallHeld
  <2>6. CASE r = q /\ Blocked(q) /\ call'[q].pc = IF At(q, "write_blocked") THEN "write" ELSE "read"
    <3>1. \/ call[r].pc = "write_blocked" /\ call'[r].pc = "write"
          \/ call[r].pc = "read_blocked" /\ call'[r].pc = "read"
      BY <2>6 DEF Blocked, At
    <3> QED BY Zenon, <3>1, <2>2, <2>3, <2>4, <1>11 DEF CallHeld, Reading, Writing
  <2> QED BY <2>2, <2>5, <2>6
<1> QED BY SMTT(30), <1>10, <1>15, <1>16, <1>17, <1>18, <1>19, <1>20, <1>21, <1>22, <1>23, <1>24, <1>25

----------------------------------------------------------------------------
(* The ring, step by step.                                                 *)
LEMMA RingNumbers ==
    ASSUME PipeTyped
    PROVE  /\ PIPE_BUFFER \in Nat /\ PIPE_BUFFER > 0
           /\ pipe.head \in Nat /\ pipe.head < PIPE_BUFFER
           /\ pipe.tail \in Nat /\ pipe.tail < PIPE_BUFFER
           /\ pipe.len \in Nat /\ pipe.len <= PIPE_BUFFER
           /\ pipe.data \in [Position -> Nat] /\ sent \in Nat /\ received \in Nat
BY PipeNumbers DEF PipeTyped, PipeRecord, Position

(* try_write puts its k bytes after the ones that are there.               *)
LEMMA FilledSound ==
    ASSUME PipeTyped, RingSound, pipe.occupied, NEW k \in Nat, k <= PIPE_BUFFER - pipe.len,
           pipe' = Filled(k), sent' = sent + k, received' = received
    PROVE  RingSound'
<1>1. /\ PIPE_BUFFER \in Nat /\ PIPE_BUFFER > 0
      /\ pipe.head \in Nat /\ pipe.head < PIPE_BUFFER
      /\ pipe.tail \in Nat /\ pipe.tail < PIPE_BUFFER
      /\ pipe.len \in Nat /\ pipe.len <= PIPE_BUFFER
      /\ pipe.data \in [Position -> Nat] /\ sent \in Nat /\ received \in Nat
  BY RingNumbers
<1>2. /\ pipe'.head = pipe.head /\ pipe'.tail = (pipe.tail + k) % PIPE_BUFFER
      /\ pipe'.len = pipe.len + k
  BY PipeParts DEF PipeTyped
<1>3. /\ pipe.tail = Wrap(pipe.head + pipe.len) /\ sent = received + pipe.len
      /\ \A i \in 0 .. pipe.len - 1 : pipe.data[Wrap(pipe.head + i)] = received + i + 1
  BY DEF RingSound
<1>4. pipe'.tail = Wrap(pipe.tail + k)
  <2>1. pipe.tail + k \in Nat /\ pipe.tail + k < 2 * PIPE_BUFFER
    BY <1>1
  <2> QED BY <2>1, <1>2, ModWrap
<1>5. Wrap(pipe.tail + k) = Wrap(pipe.head + (pipe.len + k))
  BY <1>1, <1>3 DEF Wrap
<1>6. ASSUME NEW i \in Position
      PROVE  pipe'.data[i] = LET d == (i + PIPE_BUFFER - pipe.tail) % PIPE_BUFFER
                             IN IF d < k THEN sent + d + 1 ELSE pipe.data[i]
  BY DEF Filled, PipeTyped, PipeRecord
<1>7. ASSUME NEW j \in 0 .. (pipe.len + k) - 1
      PROVE  pipe'.data[Wrap(pipe.head + j)] = received + j + 1
  <2>1. j \in Nat /\ j < pipe.len + k
    BY <1>1
  <2>2. PICK i \in Position : i = Wrap(pipe.head + j)
    <3>1. pipe.head + j \in Nat /\ pipe.head + j < 2 * PIPE_BUFFER
      BY <2>1, <1>1
    <3> QED BY <3>1, ModWrap
  <2>3. PICK d \in Nat : d = (i + PIPE_BUFFER - pipe.tail) % PIPE_BUFFER
                         /\ d = Wrap(i + PIPE_BUFFER - pipe.tail)
    <3>1. /\ i + PIPE_BUFFER - pipe.tail \in Nat
          /\ i + PIPE_BUFFER - pipe.tail < 2 * PIPE_BUFFER
      <4>1. i \in Nat /\ i < PIPE_BUFFER /\ PIPE_BUFFER \in Nat
        BY PipeNumbers DEF Position
      <4>2. pipe.tail \in Nat /\ pipe.tail < PIPE_BUFFER
        BY <1>1
      <4> HIDE DEF Position
      <4> QED BY <4>1, <4>2
    <3>2. /\ (i + PIPE_BUFFER - pipe.tail) % PIPE_BUFFER = Wrap(i + PIPE_BUFFER - pipe.tail)
          /\ Wrap(i + PIPE_BUFFER - pipe.tail) \in Position
      BY <3>1, ModWrap
    <3> QED BY <3>2, <1>1 DEF Position
  <2>4. pipe'.data[i] = IF d < k THEN sent + d + 1 ELSE pipe.data[i]
    BY <2>3, <1>6
  <2>5. CASE j < pipe.len
    <3>1. ~(d < k)
      BY <2>1, <2>2, <2>3, <2>5, <1>1, <1>3 DEF Wrap
    <3>2. pipe.data[i] = received + j + 1
      BY <2>1, <2>2, <2>5, <1>1, <1>3
    <3> QED BY Zenon, <3>1, <3>2, <2>2, <2>4
  <2>6. CASE ~(j < pipe.len)
    <3>1. d = j - pipe.len
      BY <2>1, <2>2, <2>3, <2>6, <1>1, <1>3 DEF Wrap
    <3>2. d < k /\ sent + d + 1 = received + j + 1
      BY <3>1, <2>1, <2>6, <1>1, <1>3
    <3> QED BY Zenon, <3>2, <2>2, <2>4
  <2> QED BY <2>5, <2>6
<1>8. sent' = received' + pipe'.len
  BY <1>1, <1>2, <1>3
<1>9. pipe'.tail = Wrap(pipe'.head + pipe'.len)
  BY <1>2, <1>4, <1>5 DEF Wrap
<1>10. \A j \in 0 .. pipe'.len - 1 : pipe'.data[Wrap(pipe'.head + j)] = received' + j + 1
  BY <1>2, <1>7 DEF Wrap
<1> QED BY <1>8, <1>9, <1>10 DEF RingSound, Wrap

(* try_read takes the k bytes at the head.                                 *)
LEMMA EmptiedSound ==
    ASSUME PipeTyped, RingSound, pipe.occupied, NEW k \in Nat, k <= pipe.len,
           pipe' = Emptied(k), received' = received + k, sent' = sent
    PROVE  RingSound'
<1>1. /\ PIPE_BUFFER \in Nat /\ PIPE_BUFFER > 0
      /\ pipe.head \in Nat /\ pipe.head < PIPE_BUFFER
      /\ pipe.tail \in Nat /\ pipe.tail < PIPE_BUFFER
      /\ pipe.len \in Nat /\ pipe.len <= PIPE_BUFFER
      /\ pipe.data \in [Position -> Nat] /\ sent \in Nat /\ received \in Nat
  BY RingNumbers
<1>2. /\ pipe'.head = (pipe.head + k) % PIPE_BUFFER /\ pipe'.tail = pipe.tail
      /\ pipe'.len = pipe.len - k /\ pipe'.data = pipe.data
  BY PipeParts DEF PipeTyped
<1>3. /\ pipe.tail = Wrap(pipe.head + pipe.len) /\ sent = received + pipe.len
      /\ \A i \in 0 .. pipe.len - 1 : pipe.data[Wrap(pipe.head + i)] = received + i + 1
  BY DEF RingSound
<1>4. pipe'.head = Wrap(pipe.head + k)
  <2>1. pipe.head + k \in Nat /\ pipe.head + k < 2 * PIPE_BUFFER
    BY <1>1
  <2> QED BY <2>1, <1>2, ModWrap
<1>5. PICK h \in Nat : h = pipe'.head /\ h = Wrap(pipe.head + k)
  BY <1>1, <1>4 DEF Wrap
<1>6. pipe.tail = Wrap(h + (pipe.len - k))
  BY <1>1, <1>3, <1>5 DEF Wrap
<1>7. ASSUME NEW j \in 0 .. (pipe.len - k) - 1
      PROVE  pipe.data[Wrap(h + j)] = (received + k) + j + 1
  <2>1. j + k \in 0 .. pipe.len - 1
    BY <1>1
  <2>2. pipe.data[Wrap(pipe.head + (j + k))] = received + (j + k) + 1
    BY <2>1, <1>3
  <2>3. Wrap(pipe.head + (j + k)) = Wrap(h + j)
    BY <2>1, <1>1, <1>5 DEF Wrap
  <2>4. received + (j + k) + 1 = (received + k) + j + 1
    BY <1>1
  <2> QED BY <2>2, <2>3, <2>4
<1>8. sent' = received' + pipe'.len
  BY <1>1, <1>2, <1>3
<1>9. pipe'.tail = Wrap(pipe'.head + pipe'.len)
  BY <1>2, <1>5, <1>6 DEF Wrap
<1>10. \A j \in 0 .. pipe'.len - 1 : pipe'.data[Wrap(pipe'.head + j)] = received' + j + 1
  BY <1>2, <1>5, <1>7 DEF Wrap
<1> QED BY <1>8, <1>9, <1>10 DEF RingSound, Wrap

(* The ring stays right where its fields do not change.                    *)
LEMMA RingKept ==
    ASSUME RingSound, SameRing, sent' = sent, received' = received
    PROVE  RingSound'
BY DEF RingSound, SameRing, Wrap

(* Every step keeps the ring a queue.                                      *)
LEMMA RingStep ==
    ASSUME PipeTyped, Held, CallsHeld, EndsCounted, RingSound, PipeNext
    PROVE  RingSound'
<1>1. PICK p \in Procs : Begin(p) \/ Step(p)
  BY DEF PipeNext
<1>2. pipe \in PipeRecord
  BY DEF PipeTyped
<1>3. pipe' = pipe => SameRing
  BY DEF SameRing
<1>4. CASE Create(p)
  <2>1. sent' = 0 /\ received' = 0 /\ pipe'.len = 0 /\ pipe'.head = 0 /\ pipe'.tail = 0
    BY <1>4, CreateDoes
  <2> QED BY <2>1, PipeNumbers DEF RingSound, Wrap
<1>5. ASSUME \/ StartClose(p) \/ WriteCheck(p) \/ ReadCheck(p) \/ WaitForEvent(p) \/ Woke(p)
             \/ \E n : StartWrite(p, n) \/ StartRead(p, n)
             \/ \E q \in Procs : SignalEvent(p, q)
      PROVE  RingSound'
  <2>1. pipe' = pipe /\ sent' = sent /\ received' = received
    <3>1. ASSUME NEW n, StartWrite(p, n) \/ StartRead(p, n)
          PROVE  pipe' = pipe /\ sent' = sent /\ received' = received
      BY <3>1 DEF StartWrite, StartRead
    <3>2. ASSUME NEW q \in Procs, SignalEvent(p, q)
          PROVE  pipe' = pipe /\ sent' = sent /\ received' = received
      BY <3>2 DEF SignalEvent
    <3>3. ASSUME StartClose(p) \/ WriteCheck(p) \/ ReadCheck(p) \/ WaitForEvent(p) \/ Woke(p)
          PROVE  pipe' = pipe /\ sent' = sent /\ received' = received
      BY <3>3 DEF StartClose, WriteCheck, ReadCheck, WaitForEvent, Woke
    <3> QED BY <3>1, <3>2, <3>3, <1>5
  <2> QED BY <2>1, <1>3, RingKept
<1>6. ASSUME NEW q \in Procs, CloneReader(p, q) \/ CloneWriter(p, q) PROVE RingSound'
  <2>1. SameRing /\ sent' = sent /\ received' = received
    BY <1>6, CloneReaderDoes, CloneWriterDoes
  <2> QED BY <2>1, RingKept
<1>7. ASSUME CloseReader(p) \/ CloseWriter(p) PROVE RingSound'
  <2>1. sent' = sent /\ received' = received /\ (pipe' = EmptyPipe \/ SameRing)
    BY <1>2, <1>7, CloseReaderDoes, CloseWriterDoes, ClosedParts
  <2>2. CASE SameRing
    BY Zenon, <2>1, <2>2, RingKept
  <2>3. CASE pipe' = EmptyPipe
    BY <2>3 DEF RingSound, EmptyPipe
  <2> QED BY <2>1, <2>2, <2>3
<1>8. ASSUME WriteTake(p) \/ ReadTake(p) PROVE RingSound'
  <2>1. /\ sent' = sent /\ received' = received
        /\ \/ pipe' = [pipe EXCEPT !.read_waiters = {}]
           \/ pipe' = [pipe EXCEPT !.write_waiters = {}]
    BY <1>8, WriteTakeDoes, ReadTakeDoes
  <2>2. SameRing
    BY <2>1, <1>2, PipeParts
  <2> QED BY <2>1, <2>2, RingKept
<1>9. CASE TryWrite(p)
  <2>1. /\ pipe.occupied /\ received' = received
        /\ \/ pipe' = pipe /\ sent' = sent
           \/ pipe' = Filled(Room(p)) /\ sent' = sent + Room(p)
           \/ pipe' = [pipe EXCEPT !.write_waiters = pipe.write_waiters \cup {p}] /\ sent' = sent
    BY <1>9, TryWriteDoes
  <2>2. Room(p) \in Nat /\ Room(p) <= PIPE_BUFFER - pipe.len
    BY TransferBounds
  <2>3. CASE pipe' = Filled(Room(p)) /\ sent' = sent + Room(p)
    <3>1. PICK k \in Nat : k = Room(p)
      BY <2>2
    <3>2. k <= PIPE_BUFFER - pipe.len /\ pipe' = Filled(k) /\ sent' = sent + k
      BY <3>1, <2>2, <2>3
    <3> QED BY <3>2, <2>1, FilledSound
  <2>4. CASE pipe' = pipe /\ sent' = sent
    BY <2>1, <2>4, <1>3, RingKept
  <2>5. CASE /\ pipe' = [pipe EXCEPT !.write_waiters = pipe.write_waiters \cup {p}]
             /\ sent' = sent
    <3>1. SameRing
      BY <2>5, <1>2, PipeParts
    <3> QED BY <3>1, <2>1, <2>5, RingKept
  <2> QED BY <2>1, <2>3, <2>4, <2>5
<1>10. CASE TryRead(p)
  <2>1. /\ pipe.occupied /\ sent' = sent
        /\ \/ pipe' = pipe /\ received' = received
           \/ pipe' = Emptied(Available(p)) /\ received' = received + Available(p)
           \/ /\ pipe' = [pipe EXCEPT !.read_waiters = pipe.read_waiters \cup {p}]
              /\ received' = received
    BY <1>10, TryReadDoes
  <2>2. Available(p) \in Nat /\ Available(p) <= pipe.len
    BY TransferBounds
  <2>3. CASE pipe' = Emptied(Available(p)) /\ received' = received + Available(p)
    <3>1. PICK k \in Nat : k = Available(p)
      BY <2>2
    <3>2. k <= pipe.len /\ pipe' = Emptied(k) /\ received' = received + k
      BY <3>1, <2>2, <2>3
    <3> QED BY <3>2, <2>1, EmptiedSound
  <2>4. CASE pipe' = pipe /\ received' = received
    BY <2>1, <2>4, <1>3, RingKept
  <2>5. CASE /\ pipe' = [pipe EXCEPT !.read_waiters = pipe.read_waiters \cup {p}]
             /\ received' = received
    <3>1. SameRing
      BY <2>5, <1>2, PipeParts
    <3> QED BY <3>1, <2>1, <2>5, RingKept
  <2> QED BY <2>1, <2>3, <2>4, <2>5
<1> QED BY Zenon, <1>1, <1>4, <1>5, <1>6, <1>7, <1>8, <1>9, <1>10 DEF Begin, Step

----------------------------------------------------------------------------
(***************************************************************************)
(* Waiting.  A step of p tells the waiting readers when it takes them all  *)
(* to wake, when it goes on to take them, or when it changes nothing that  *)
(* they wait for; and likewise the writers.                                *)
(***************************************************************************)
ReadersTold(p) ==
    \/ pipe.read_waiters \subseteq call'[p].wake
    \/ /\ pipe.read_waiters \subseteq pipe'.read_waiters
       /\ call[p].pc # "write_take"
       /\ \/ call'[p].pc = "write_take"
          \/ pipe.len = 0 /\ pipe.writers > 0 => pipe'.len = 0 /\ pipe'.writers > 0

WritersTold(p) ==
    \/ pipe.write_waiters \subseteq call'[p].wake
    \/ /\ pipe.write_waiters \subseteq pipe'.write_waiters
       /\ call[p].pc # "read_take"
       /\ \/ call'[p].pc = "read_take"
          \/ pipe.len = PIPE_BUFFER /\ pipe.readers > 0 =>
               pipe'.len = PIPE_BUFFER /\ pipe'.readers > 0

(* A step of another process that tells the readers what it changed.       *)
LEMMA ReaderKept ==
    ASSUME NEW p \in Procs, NEW r \in Procs, r # p, Others(p), call[p].wake = {},
           latch'[r] = latch[r], ReaderSound(r), ReadersTold(p)
    PROVE  ReaderSound(r)'
<1>1. call'[r] = call[r]
  BY DEF Others
<1>2. ToBeSignalled(r) => ToBeSignalled(r)'
  <2> SUFFICES ASSUME NEW q \in Procs, r \in call[q].wake PROVE ToBeSignalled(r)'
    BY DEF ToBeSignalled
  <2>1. q # p
    OBVIOUS
  <2>2. call'[q] = call[q]
    BY <2>1 DEF Others
  <2> QED BY <2>2 DEF ToBeSignalled
<1>3. CASE pipe.read_waiters \subseteq call'[p].wake
  <2>1. r \in pipe.read_waiters => ToBeSignalled(r)'
    BY Zenon, <1>3 DEF ToBeSignalled
  <2> QED BY <2>1, <1>1, <1>2 DEF ReaderSound, At
<1>4. CASE /\ pipe.read_waiters \subseteq pipe'.read_waiters
           /\ call[p].pc # "write_take"
           /\ \/ call'[p].pc = "write_take"
              \/ pipe.len = 0 /\ pipe.writers > 0 => pipe'.len = 0 /\ pipe'.writers > 0
  <2>1. r \in pipe.read_waiters => r \in pipe'.read_waiters
    BY <1>4
  <2>2. ASSUME NEW q \in Procs, At(q, "write_take") PROVE \E t \in Procs : At(t, "write_take")'
    <3>1. q # p
      BY <2>2, <1>4 DEF At
    <3>2. call'[q] = call[q]
      BY <3>1 DEF Others
    <3> QED BY <3>2, <2>2 DEF At
  <2>3. call'[p].pc = "write_take" => \E t \in Procs : At(t, "write_take")'
    BY DEF At
  <2>4. (pipe.len = 0 /\ pipe.writers > 0) \/ (\E q \in Procs : At(q, "write_take"))
        => (pipe'.len = 0 /\ pipe'.writers > 0) \/ (\E t \in Procs : At(t, "write_take")')
    BY <2>2, <2>3, <1>4
  <2> QED BY <2>1, <2>4, <1>1, <1>2 DEF ReaderSound, At
<1> QED BY <1>3, <1>4 DEF ReadersTold

(* A step of another process that tells the writers what it changed.       *)
LEMMA WriterKept ==
    ASSUME NEW p \in Procs, NEW r \in Procs, r # p, Others(p), call[p].wake = {},
           latch'[r] = latch[r], WriterSound(r), WritersTold(p)
    PROVE  WriterSound(r)'
<1>1. call'[r] = call[r]
  BY DEF Others
<1>2. ToBeSignalled(r) => ToBeSignalled(r)'
  <2> SUFFICES ASSUME NEW q \in Procs, r \in call[q].wake PROVE ToBeSignalled(r)'
    BY DEF ToBeSignalled
  <2>1. q # p
    OBVIOUS
  <2>2. call'[q] = call[q]
    BY <2>1 DEF Others
  <2> QED BY <2>2 DEF ToBeSignalled
<1>3. CASE pipe.write_waiters \subseteq call'[p].wake
  <2>1. r \in pipe.write_waiters => ToBeSignalled(r)'
    BY <1>3 DEF ToBeSignalled
  <2> QED BY Zenon, <2>1, <1>1, <1>2 DEF WriterSound, At
<1>4. CASE /\ pipe.write_waiters \subseteq pipe'.write_waiters
           /\ call[p].pc # "read_take"
           /\ \/ call'[p].pc = "read_take"
              \/ pipe.len = PIPE_BUFFER /\ pipe.readers > 0 =>
                   pipe'.len = PIPE_BUFFER /\ pipe'.readers > 0
  <2>1. r \in pipe.write_waiters => r \in pipe'.write_waiters
    BY <1>4
  <2>2. ASSUME NEW q \in Procs, At(q, "read_take") PROVE \E t \in Procs : At(t, "read_take")'
    <3>1. q # p
      BY <2>2, <1>4 DEF At
    <3>2. call'[q] = call[q]
      BY <3>1 DEF Others
    <3> QED BY <3>2, <2>2 DEF At
  <2>3. call'[p].pc = "read_take" => \E t \in Procs : At(t, "read_take")'
    BY DEF At
  <2>4. (pipe.len = PIPE_BUFFER /\ pipe.readers > 0) \/ (\E q \in Procs : At(q, "read_take"))
        => \/ pipe'.len = PIPE_BUFFER /\ pipe'.readers > 0
           \/ \E t \in Procs : At(t, "read_take")'
    BY Zenon, <2>2, <2>3, <1>4
  <2> QED BY <2>1, <2>4, <1>1, <1>2 DEF WriterSound, At
<1> QED BY Zenon, <1>3, <1>4 DEF WritersTold

(* Nobody is, or goes, to sleep for what has happened already.             *)
Waits == \A p \in Procs : ReaderSound(p) /\ WriterSound(p)

(* A step of p that tells everybody, after which p itself is sound.        *)
LEMMA WaitsKept ==
    ASSUME NEW p \in Procs, Waits, Others(p), call[p].wake = {},
           \A r \in Procs \ {p} : latch'[r] = latch[r],
           ReadersTold(p), WritersTold(p), ReaderSound(p)', WriterSound(p)'
    PROVE  Waits'
<1> SUFFICES ASSUME NEW r \in Procs PROVE ReaderSound(r)' /\ WriterSound(r)'
  BY DEF Waits
<1>1. CASE r = p
  BY <1>1
<1>2. CASE r # p
  <2>1. latch'[r] = latch[r] /\ ReaderSound(r) /\ WriterSound(r)
    BY <1>2 DEF Waits
  <2>2. ReaderSound(r)'
    BY Zenon, <2>1, <1>2, ReaderKept
  <2>3. WriterSound(r)'
    BY Zenon, <2>1, <1>2, WriterKept
  <2> QED BY <2>2, <2>3
<1> QED BY <1>1, <1>2

(* A process that is not about to wait has nothing to be told.             *)
Waiting == {"read_check", "read_wait", "read_blocked",
            "write_check", "write_wait", "write_blocked"}

(* A task that is not in a wait loop waits for nothing.                    *)
LEMMA NotWaiting ==
    ASSUME NEW p \in Procs, call'[p].pc \notin Waiting
    PROVE  ReaderSound(p)' /\ WriterSound(p)'
BY DEF ReaderSound, WriterSound, At, Waiting

(* A writer does not wait for bytes.                                       *)
LEMMA NotReading ==
    ASSUME NEW p \in Procs, call'[p].pc \in Writing
    PROVE  ReaderSound(p)'
BY DEF ReaderSound, At, Writing

(* A reader does not wait for room.                                        *)
LEMMA NotWriting ==
    ASSUME NEW p \in Procs, call'[p].pc \in Reading
    PROVE  WriterSound(p)'
BY DEF WriterSound, At, Reading

(* Steps that leave the pipe alone, by a process that takes no waiters.    *)
LEMMA QuietTells ==
    ASSUME NEW p \in Procs, pipe' = pipe, call[p].pc \notin {"read_take", "write_take"}
    PROVE  ReadersTold(p) /\ WritersTold(p)
BY DEF ReadersTold, WritersTold

(* The beginning of a call leaves no sleeper untold.                       *)
LEMMA BeginKeepsWaits ==
    ASSUME PipeTyped, Held, CallsHeld, EndsCounted, Waits, NEW p \in Procs, Begin(p)
    PROVE  Waits'
<1>1. At(p, "idle")
  BY Zenon DEF Begin, Create, StartClose, CloneReader, CloneWriter, StartWrite, StartRead
<1>2. call[p].wake = {} /\ call[p].pc \notin {"read_take", "write_take"}
  BY Zenon, <1>1 DEF CallsHeld, CallHeld, At
<1>3. ASSUME Others(p), latch' = latch, ReadersTold(p), WritersTold(p),
             call'[p].pc \notin Waiting
      PROVE  Waits'
  BY <1>2, <1>3, WaitsKept, NotWaiting
<1>4. CASE Create(p)
  <2>1. call' = call /\ latch' = latch /\ pipe = EmptyPipe
    BY Zenon, <1>4, CreateDoes
  <2>2. ReadersTold(p) /\ WritersTold(p)
    BY <2>1 DEF ReadersTold, WritersTold, EmptyPipe
  <2>3. Others(p) /\ call'[p].pc \notin Waiting
    BY <2>1, <1>1 DEF Others, At, Waiting
  <2> QED BY Zenon, <2>1, <2>2, <2>3, <1>3
<1>5. CASE StartClose(p)
  <2>1. /\ Others(p) /\ latch' = latch /\ pipe' = pipe
        /\ call'[p].pc \in {"close_reader", "close_writer"}
    BY Zenon, <1>5, StartCloseDoes
  <2>2. call'[p].pc \notin Waiting
    BY <2>1 DEF Waiting
  <2> QED BY Zenon, <2>1, <2>2, <1>2, <1>3, QuietTells
<1>6. ASSUME NEW q \in Procs, CloneReader(p, q) PROVE Waits'
  <2>1. /\ pipe'.readers = pipe.readers + 1 /\ pipe'.writers = pipe.writers /\ SameRing
        /\ pipe'.read_waiters = pipe.read_waiters /\ pipe'.write_waiters = pipe.write_waiters
        /\ call' = call /\ latch' = latch
    BY <1>6, CloneReaderDoes
  <2>2. pipe.readers \in Nat
    BY DEF PipeTyped, PipeRecord
  <2>3. ReadersTold(p) /\ WritersTold(p)
    BY <2>1, <2>2, <1>2 DEF ReadersTold, WritersTold, SameRing
  <2>4. Others(p) /\ call'[p].pc \notin Waiting
    BY <2>1, <1>1 DEF Others, At, Waiting
  <2> QED BY Zenon, <2>1, <2>3, <2>4, <1>3
<1>7. ASSUME NEW q \in Procs, CloneWriter(p, q) PROVE Waits'
  <2>1. /\ pipe'.writers = pipe.writers + 1 /\ pipe'.readers = pipe.readers /\ SameRing
        /\ pipe'.read_waiters = pipe.read_waiters /\ pipe'.write_waiters = pipe.write_waiters
        /\ call' = call /\ latch' = latch
    BY <1>7, CloneWriterDoes
  <2>2. pipe.writers \in Nat
    BY DEF PipeTyped, PipeRecord
  <2>3. ReadersTold(p) /\ WritersTold(p)
    BY <2>1, <2>2, <1>2 DEF ReadersTold, WritersTold, SameRing
  <2>4. Others(p) /\ call'[p].pc \notin Waiting
    BY <2>1, <1>1 DEF Others, At, Waiting
  <2> QED BY Zenon, <2>1, <2>3, <2>4, <1>3
<1>8. ASSUME NEW n, StartWrite(p, n) PROVE Waits'
  <2>1. Starts(p, "write", fds[p].write) /\ pipe' = pipe /\ latch' = latch
    BY <1>8, StartWriteDoes
  <2>2. Others(p) /\ call'[p].pc \notin Waiting
    BY <2>1 DEF Starts, Waiting
  <2> QED BY Zenon, <2>1, <2>2, <1>2, <1>3, QuietTells
<1>9. ASSUME NEW n, StartRead(p, n) PROVE Waits'
  <2>1. Starts(p, "read", fds[p].read) /\ pipe' = pipe /\ latch' = latch
    BY <1>9, StartReadDoes
  <2>2. Others(p) /\ call'[p].pc \notin Waiting
    BY <2>1 DEF Starts, Waiting
  <2> QED BY Zenon, <2>1, <2>2, <1>2, <1>3, QuietTells
<1> QED BY Zenon, <1>4, <1>5, <1>6, <1>7, <1>8, <1>9 DEF Begin

(* A freed slot has no process in a call on it.                            *)
LEMMA FreedWaits ==
    ASSUME CallsHeld, EndsCounted', NEW p \in Procs, Others(p), fds' = fds,
           pipe' = EmptyPipe, call'[p].pc = "wake"
    PROVE  Waits'
<1> SUFFICES ASSUME NEW r \in Procs PROVE call'[r].pc \notin Waiting
  BY NotWaiting DEF Waits
<1>1. fds[r].read = 0 /\ fds[r].write = 0
  BY FreedAlone
<1>2. call[r].pc \notin Waiting
  BY <1>1 DEF CallsHeld, CallHeld, Reading, Writing, Waiting
<1> QED BY <1>2 DEF Others, Waiting

(* A critical section of a call leaves no sleeper untold.                  *)
LEMMA StepKeepsWaits ==
    ASSUME PipeTyped, Held, CallsHeld, EndsCounted, EndsCounted', Waits,
           NEW p \in Procs, Step(p)
    PROVE  Waits'
<1>1. call[p].pc # "wake" => call[p].wake = {}
  BY DEF CallsHeld, CallHeld
<1>2. pipe \in PipeRecord /\ pipe.len \in 0 .. PIPE_BUFFER /\ PIPE_BUFFER \in Nat
  BY Zenon, PipeNumbers DEF PipeTyped, PipeRecord
<1>3. ASSUME Others(p), latch' = latch, call[p].wake = {}, ReadersTold(p), WritersTold(p),
             call'[p].pc \notin Waiting
      PROVE  Waits'
  BY Zenon, <1>3, WaitsKept, NotWaiting
<1>4. CASE CloseReader(p)
  <2>1. /\ At(p, "close_reader") /\ Wakes(p, pipe.write_waiters) /\ fds' = fds /\ latch' = latch
        /\ pipe' = Freed([pipe EXCEPT !.readers = pipe.readers - 1, !.write_waiters = {}])
    BY <1>4, CloseReaderDoes
  <2>2. /\ Others(p) /\ call'[p].pc = "wake" /\ call'[p].wake = pipe.write_waiters
        /\ call[p].pc = "close_reader" /\ call[p].wake = {}
    BY <2>1, <1>1 DEF Wakes, At
  <2>3. \/ pipe' = EmptyPipe
        \/ /\ pipe'.writers = pipe.writers /\ SameRing /\ pipe'.read_waiters = pipe.read_waiters
    BY <2>1, <1>2, ClosedParts
  <2>4. CASE pipe' = EmptyPipe
    BY <2>1, <2>2, <2>4, FreedWaits
  <2>5. CASE pipe'.writers = pipe.writers /\ SameRing /\ pipe'.read_waiters = pipe.read_waiters
    <3>1. ReadersTold(p) /\ WritersTold(p)
      BY Zenon, <2>2, <2>5 DEF ReadersTold, WritersTold, SameRing
    <3> QED BY Zenon, <3>1, <2>1, <2>2, <1>3 DEF Waiting
  <2> QED BY <2>3, <2>4, <2>5
<1>5. CASE CloseWriter(p)
  <2>1. /\ At(p, "close_writer") /\ Wakes(p, pipe.read_waiters) /\ fds' = fds /\ latch' = latch
        /\ pipe' = Freed([pipe EXCEPT !.writers = pipe.writers - 1, !.read_waiters = {}])
    BY <1>5, CloseWriterDoes
  <2>2. /\ Others(p) /\ call'[p].pc = "wake" /\ call'[p].wake = pipe.read_waiters
        /\ call[p].pc = "close_writer" /\ call[p].wake = {}
    BY <2>1, <1>1 DEF Wakes, At
  <2>3. \/ pipe' = EmptyPipe
        \/ /\ pipe'.readers = pipe.readers /\ SameRing /\ pipe'.write_waiters = pipe.write_waiters
    BY <2>1, <1>2, ClosedParts
  <2>4. CASE pipe' = EmptyPipe
    BY <2>1, <2>2, <2>4, FreedWaits
  <2>5. CASE pipe'.readers = pipe.readers /\ SameRing /\ pipe'.write_waiters = pipe.write_waiters
    <3>1. ReadersTold(p) /\ WritersTold(p)
      BY <2>2, <2>5 DEF ReadersTold, WritersTold, SameRing
    <3> QED BY Zenon, <3>1, <2>1, <2>2, <1>3 DEF Waiting
  <2> QED BY <2>3, <2>4, <2>5
<1>6. CASE TryWrite(p)
  <2>1. /\ At(p, "write") /\ Others(p) /\ latch' = latch
        /\ \/ Ends(p) /\ UNCHANGED <<pipe, sent>>
           \/ pipe' = Filled(Room(p)) /\ call'[p].pc = "write_take"
           \/ /\ pipe' = [pipe EXCEPT !.write_waiters = pipe.write_waiters \cup {p}]
              /\ Onward(p, "write_check")
    BY <1>6, TryWriteDoes
  <2>2. call[p].pc = "write" /\ call[p].wake = {}
    BY <2>1, <1>1 DEF At
  <2>3. CASE Ends(p) /\ UNCHANGED <<pipe, sent>>
    <3>1. call'[p].pc \notin Waiting
      BY <2>3 DEF Ends, NoCall, Waiting
    <3>2. ReadersTold(p) /\ WritersTold(p)
      BY <2>2, <2>3, QuietTells
    <3> QED BY Zenon, <3>1, <3>2, <2>1, <2>2, <1>3
  <2>4. CASE pipe' = Filled(Room(p)) /\ call'[p].pc = "write_take"
    <3>1. Room(p) \in Nat /\ Room(p) <= PIPE_BUFFER - pipe.len
      BY TransferBounds
    <3>2. PICK k \in Nat : k = Room(p)
      BY <3>1
    <3>3. /\ pipe'.len = pipe.len + k /\ SameEnds
          /\ pipe'.read_waiters = pipe.read_waiters /\ pipe'.write_waiters = pipe.write_waiters
      BY Zenon, <3>2, <2>4, <1>2, PipeParts
    <3>4. pipe.len = PIPE_BUFFER => pipe'.len = PIPE_BUFFER
      BY SMTT(30), <3>1, <3>2, <3>3, <1>2
    <3>5. ReadersTold(p) /\ WritersTold(p)
      BY <3>3, <3>4, <2>2, <2>4 DEF ReadersTold, WritersTold, SameEnds
    <3> QED BY Zenon, <3>5, <2>1, <2>2, <2>4, <1>3 DEF Waiting
  <2>5. CASE /\ pipe' = [pipe EXCEPT !.write_waiters = pipe.write_waiters \cup {p}]
             /\ Onward(p, "write_check")
    <3>1. /\ pipe'.write_waiters = pipe.write_waiters \cup {p} /\ SameEnds /\ SameRing
          /\ pipe'.read_waiters = pipe.read_waiters
      BY Zenon, <2>5, <1>2, PipeParts
    <3>2. ReadersTold(p) /\ WritersTold(p)
      BY <3>1, <2>2 DEF ReadersTold, WritersTold, SameEnds, SameRing
    <3>3. call'[p].pc = "write_check" /\ p \in pipe'.write_waiters
      BY <3>1, <2>5 DEF Onward
    <3>4. ReaderSound(p)' /\ WriterSound(p)'
      BY <3>3 DEF ReaderSound, WriterSound, At
    <3> QED BY Zenon, <3>2, <3>4, <2>1, <2>2, WaitsKept
  <2> QED BY <2>1, <2>3, <2>4, <2>5
<1>7. CASE TryRead(p)
  <2>1. /\ At(p, "read") /\ Others(p) /\ latch' = latch
        /\ \/ Ends(p) /\ UNCHANGED <<pipe, received>>
           \/ pipe' = Emptied(Available(p)) /\ call'[p].pc = "read_take"
           \/ /\ pipe' = [pipe EXCEPT !.read_waiters = pipe.read_waiters \cup {p}]
              /\ Onward(p, "read_check")
    BY <1>7, TryReadDoes
  <2>2. call[p].pc = "read" /\ call[p].wake = {}
    BY <2>1, <1>1 DEF At
  <2>3. CASE Ends(p) /\ UNCHANGED <<pipe, received>>
    <3>1. call'[p].pc \notin Waiting
      BY <2>3 DEF Ends, NoCall, Waiting
    <3>2. ReadersTold(p) /\ WritersTold(p)
      BY <2>2, <2>3, QuietTells
    <3> QED BY Zenon, <3>1, <3>2, <2>1, <2>2, <1>3
  <2>4. CASE pipe' = Emptied(Available(p)) /\ call'[p].pc = "read_take"
    <3>1. Available(p) \in Nat /\ Available(p) <= pipe.len
      BY TransferBounds
    <3>2. PICK k \in Nat : k = Available(p)
      BY <3>1
    <3>3. /\ pipe'.len = pipe.len - k /\ SameEnds
          /\ pipe'.read_waiters = pipe.read_waiters /\ pipe'.write_waiters = pipe.write_waiters
      BY <3>2, <2>4, <1>2, PipeParts
    <3>4. pipe.len = 0 => pipe'.len = 0
      BY <3>1, <3>2, <3>3, <1>2
    <3>5. ReadersTold(p) /\ WritersTold(p)
      BY <3>3, <3>4, <2>2, <2>4 DEF ReadersTold, WritersTold, SameEnds
    <3> QED BY Zenon, <3>5, <2>1, <2>2, <2>4, <1>3 DEF Waiting
  <2>5. CASE /\ pipe' = [pipe EXCEPT !.read_waiters = pipe.read_waiters \cup {p}]
             /\ Onward(p, "read_check")
    <3>1. /\ pipe'.read_waiters = pipe.read_waiters \cup {p} /\ SameEnds /\ SameRing
          /\ pipe'.write_waiters = pipe.write_waiters
      BY <2>5, <1>2, PipeParts
    <3>2. ReadersTold(p) /\ WritersTold(p)
      BY <3>1, <2>2 DEF ReadersTold, WritersTold, SameEnds, SameRing
    <3>3. call'[p].pc = "read_check" /\ p \in pipe'.read_waiters
      BY <3>1, <2>5 DEF Onward
    <3>4. ReaderSound(p)' /\ WriterSound(p)'
      BY <3>3 DEF ReaderSound, WriterSound, At
    <3> QED BY Zenon, <3>2, <3>4, <2>1, <2>2, WaitsKept
  <2> QED BY <2>1, <2>3, <2>4, <2>5
<1>8. CASE WriteTake(p)
  <2>1. /\ At(p, "write_take") /\ Wakes(p, pipe.read_waiters) /\ latch' = latch
        /\ pipe' = [pipe EXCEPT !.read_waiters = {}]
    BY <1>8, WriteTakeDoes
  <2>2. /\ call[p].pc = "write_take" /\ call[p].wake = {} /\ Others(p)
        /\ call'[p].pc = "wake" /\ call'[p].wake = pipe.read_waiters
    BY <2>1, <1>1 DEF At, Wakes
  <2>3. SameEnds /\ SameRing /\ pipe'.write_waiters = pipe.write_waiters
    BY Zenon, <2>1, <1>2, PipeParts
  <2>4. ReadersTold(p) /\ WritersTold(p)
    BY <2>2, <2>3 DEF ReadersTold, WritersTold, SameEnds, SameRing
  <2> QED BY <2>1, <2>2, <2>4, <1>3 DEF Waiting
<1>9. CASE ReadTake(p)
  <2>1. /\ At(p, "read_take") /\ Wakes(p, pipe.write_waiters) /\ latch' = latch
        /\ pipe' = [pipe EXCEPT !.write_waiters = {}]
    BY <1>9, ReadTakeDoes
  <2>2. /\ call[p].pc = "read_take" /\ call[p].wake = {} /\ Others(p)
        /\ call'[p].pc = "wake" /\ call'[p].wake = pipe.write_waiters
    BY <2>1, <1>1 DEF At, Wakes
  <2>3. SameEnds /\ SameRing /\ pipe'.read_waiters = pipe.read_waiters
    BY Zenon, <2>1, <1>2, PipeParts
  <2>4. ReadersTold(p) /\ WritersTold(p)
    BY <2>2, <2>3 DEF ReadersTold, WritersTold, SameEnds, SameRing
  <2> QED BY <2>1, <2>2, <2>4, <1>3 DEF Waiting
<1>10. ASSUME pipe' = pipe, latch' = latch, Others(p), call'[p].wake = call[p].wake
       PROVE  \A r \in Procs : ToBeSignalled(r) => ToBeSignalled(r)'
  BY <1>10 DEF ToBeSignalled, Others
<1>11. CASE WriteCheck(p)
  <2>1. /\ At(p, "write_check") /\ pipe' = pipe /\ latch' = latch
        /\ \/ Onward(p, "write_wait") /\ pipe.readers > 0 /\ pipe.len = PIPE_BUFFER
           \/ Onward(p, "write")
    BY Zenon, <1>11, WriteCheckDoes
  <2>2. /\ call[p].pc = "write_check" /\ call[p].wake = {} /\ Others(p)
        /\ call'[p].wake = call[p].wake
    BY <2>1, <1>1 DEF At, Onward
  <2>3. ReadersTold(p) /\ WritersTold(p)
    BY <2>1, <2>2, QuietTells
  <2>4. CASE Onward(p, "write")
    BY Zenon, <2>1, <2>2, <2>3, <2>4, <1>3 DEF Onward, Waiting
  <2>5. CASE Onward(p, "write_wait") /\ pipe.readers > 0 /\ pipe.len = PIPE_BUFFER
    <3>1. call'[p].pc = "write_wait"
      BY Zenon, <2>5 DEF Onward
    <3>2. p \in pipe.write_waiters \/ ToBeSignalled(p) \/ latch[p]
      BY <2>1 DEF Waits, WriterSound
    <3>3. p \in pipe'.write_waiters \/ ToBeSignalled(p)' \/ latch'[p]
      BY Zenon, <3>2, <2>1, <2>2, <1>10
    <3>4. ReaderSound(p)' /\ WriterSound(p)'
      BY Zenon, <3>1, <3>3, <2>1, <2>5 DEF ReaderSound, WriterSound, At
    <3> QED BY Zenon, <3>4, <2>1, <2>2, <2>3, WaitsKept
  <2> QED BY <2>1, <2>4, <2>5
<1>12. CASE ReadCheck(p)
  <2>1. /\ At(p, "read_check") /\ pipe' = pipe /\ latch' = latch
        /\ \/ Onward(p, "read_wait") /\ pipe.writers > 0 /\ pipe.len = 0
           \/ Onward(p, "read")
    BY Zenon, <1>12, ReadCheckDoes
  <2>2. /\ call[p].pc = "read_check" /\ call[p].wake = {} /\ Others(p)
        /\ call'[p].wake = call[p].wake
    BY <2>1, <1>1 DEF At, Onward
  <2>3. ReadersTold(p) /\ WritersTold(p)
    BY Zenon, <2>1, <2>2, QuietTells
  <2>4. CASE Onward(p, "read")
    BY Zenon, <2>1, <2>2, <2>3, <2>4, <1>3 DEF Onward, Waiting
  <2>5. CASE Onward(p, "read_wait") /\ pipe.writers > 0 /\ pipe.len = 0
    <3>1. call'[p].pc = "read_wait"
      BY Zenon, <2>5 DEF Onward
    <3>2. p \in pipe.read_waiters \/ ToBeSignalled(p) \/ latch[p]
      BY <2>1 DEF Waits, ReaderSound
    <3>3. p \in pipe'.read_waiters \/ ToBeSignalled(p)' \/ latch'[p]
      BY Zenon, <3>2, <2>1, <2>2, <1>10
    <3>4. ReaderSound(p)' /\ WriterSound(p)'
      BY Zenon, <3>1, <3>3, <2>1, <2>5 DEF ReaderSound, WriterSound, At
    <3> QED BY Zenon, <3>4, <2>1, <2>2, <2>3, WaitsKept
  <2> QED BY <2>1, <2>4, <2>5
<1>13. CASE WaitForEvent(p)
  <2>1. /\ \/ At(p, "write_wait") /\ latch[p] /\ Onward(p, "write")
           \/ At(p, "read_wait") /\ latch[p] /\ Onward(p, "read")
           \/ At(p, "write_wait") /\ ~latch[p] /\ Onward(p, "write_blocked") /\ latch' = latch
           \/ At(p, "read_wait") /\ ~latch[p] /\ Onward(p, "read_blocked") /\ latch' = latch
        /\ \A q \in Procs \ {p} : latch'[q] = latch[q]
        /\ pipe' = pipe
    BY Zenon, <1>13, WaitForEventDoes
  <2>2. /\ call[p].pc \in {"write_wait", "read_wait"} /\ call[p].wake = {} /\ Others(p)
        /\ call'[p].wake = call[p].wake
    BY Zenon, <2>1, <1>1 DEF At, Onward
  <2>3. ReadersTold(p) /\ WritersTold(p)
    BY Zenon, <2>1, <2>2, QuietTells
  <2>4. ASSUME Onward(p, "write") \/ Onward(p, "read") PROVE ReaderSound(p)' /\ WriterSound(p)'
    BY <2>4, NotWaiting DEF Onward, Waiting
  <2>5. ASSUME NEW q \in Procs, call[q].pc \in {"write_take", "read_take"}
        PROVE  call'[q].pc = call[q].pc
    BY Zenon, <2>2, <2>5 DEF Others
  <2>6. ASSUME At(p, "write_wait"), ~latch[p], Onward(p, "write_blocked"), latch' = latch
        PROVE  ReaderSound(p)' /\ WriterSound(p)'
    <3>1. call'[p].pc = "write_blocked"
      BY <2>6 DEF Onward
    <3>2. \/ ToBeSignalled(p)
          \/ /\ p \in pipe.write_waiters
             /\ \/ pipe.len = PIPE_BUFFER /\ pipe.readers > 0
                \/ \E q \in Procs : At(q, "read_take")
      BY <2>6 DEF Waits, WriterSound
    <3>3. \/ ToBeSignalled(p)'
          \/ /\ p \in pipe'.write_waiters
             /\ \/ pipe'.len = PIPE_BUFFER /\ pipe'.readers > 0
                \/ \E q \in Procs : At(q, "read_take")'
      BY Zenon, <3>2, <2>1, <2>2, <2>5, <2>6, <1>10 DEF At
    <3> QED BY <3>1, <3>3 DEF ReaderSound, WriterSound, At
  <2>7. ASSUME At(p, "read_wait"), ~latch[p], Onward(p, "read_blocked"), latch' = latch
        PROVE  ReaderSound(p)' /\ WriterSound(p)'
    <3>1. call'[p].pc = "read_blocked"
      BY <2>7 DEF Onward
    <3>2. \/ ToBeSignalled(p)
          \/ /\ p \in pipe.read_waiters
             /\ \/ pipe.len = 0 /\ pipe.writers > 0
                \/ \E q \in Procs : At(q, "write_take")
      BY Zenon, <2>7 DEF Waits, ReaderSound
    <3>3. \/ ToBeSignalled(p)'
          \/ /\ p \in pipe'.read_waiters
             /\ \/ pipe'.len = 0 /\ pipe'.writers > 0
                \/ \E q \in Procs : At(q, "write_take")'
      BY Zenon, <3>2, <2>1, <2>2, <2>5, <2>7, <1>10 DEF At
    <3> QED BY <3>1, <3>3 DEF ReaderSound, WriterSound, At
  <2>8. ReaderSound(p)' /\ WriterSound(p)'
    BY Zenon, <2>1, <2>4, <2>6, <2>7
  <2> QED BY Zenon, <2>1, <2>2, <2>3, <2>8, WaitsKept
<1>14. CASE Woke(p)
  <2>1. /\ At(p, "wake") /\ call[p].wake = {} /\ pipe' = pipe /\ latch' = latch
        /\ (call[p].left > 0 /\ Onward(p, "write")) \/ Ends(p)
    BY Zenon, <1>14, WokeDoes
  <2>2. call[p].pc = "wake" /\ Others(p) /\ call'[p].pc \notin Waiting
    BY <2>1 DEF At, Onward, Ends, NoCall, Waiting
  <2> QED BY Zenon, <2>1, <2>2, <1>3, QuietTells
<1>15. ASSUME NEW q \in Procs, SignalEvent(p, q) PROVE Waits'
  <2>1. Signals(p, q)
    BY <1>15, SignalEventDoes
  <2>2. /\ pipe' = pipe
        /\ \A r \in Procs :
             /\ call'[r].wake = IF r = p THEN call[p].wake \ {q} ELSE call[r].wake
             /\ r # q => call'[r].pc = call[r].pc /\ latch'[r] = latch[r]
        /\ \/ Blocked(q) /\ call'[q].pc = IF At(q, "write_blocked") THEN "write" ELSE "read"
           \/ ~Blocked(q) /\ latch'[q] /\ call'[q].pc = call[q].pc
    BY <2>1, Zenon DEF Signals
  <2>3. ASSUME NEW t \in Procs, NEW w \in {"write_take", "read_take"}, At(t, w) PROVE At(t, w)'
    <3>1. CASE t = q
      BY Zenon, <3>1, <2>2, <2>3 DEF Blocked, At
    <3>2. CASE t # q
      BY <3>2, <2>2, <2>3 DEF At
    <3> QED BY <3>1, <3>2
  <2> SUFFICES ASSUME NEW r \in Procs PROVE ReaderSound(r)' /\ WriterSound(r)'
    BY Zenon DEF Waits
  <2>4. CASE r = q
    <3>1. CASE Blocked(q) /\ call'[q].pc = IF At(q, "write_blocked") THEN "write" ELSE "read"
      <4>1. call'[r].pc \notin Waiting
        BY Zenon, <3>1, <2>4 DEF Waiting
      <4> QED BY <4>1, NotWaiting
    <3>2. CASE ~Blocked(q) /\ latch'[q] /\ call'[q].pc = call[q].pc
      <4>1. latch'[r] /\ call'[r].pc \notin {"write_blocked", "read_blocked"}
        BY <3>2, <2>4 DEF Blocked
      <4> QED BY <4>1 DEF ReaderSound, WriterSound, At
    <3> QED BY <3>1, <3>2, <2>2
  <2>5. CASE r # q
    <3>1. call'[r].pc = call[r].pc /\ latch'[r] = latch[r]
      BY Zenon, <2>2, <2>5
    <3>2. ToBeSignalled(r) => ToBeSignalled(r)'
      BY <2>2, <2>5 DEF ToBeSignalled
    <3>3. ReaderSound(r) /\ WriterSound(r)
      BY DEF Waits
    <3>4. /\ (\E t \in Procs : At(t, "write_take")) => \E t \in Procs : At(t, "write_take")'
          /\ (\E t \in Procs : At(t, "read_take")) => \E t \in Procs : At(t, "read_take")'
      BY Zenon, <2>3
    <3>5. /\ (pipe.len = 0 /\ pipe.writers > 0) \/ (\E t \in Procs : At(t, "write_take"))
             => (pipe'.len = 0 /\ pipe'.writers > 0) \/ (\E t \in Procs : At(t, "write_take")')
          /\ (pipe.len = PIPE_BUFFER /\ pipe.readers > 0) \/ (\E t \in Procs : At(t, "read_take"))
             => \/ pipe'.len = PIPE_BUFFER /\ pipe'.readers > 0
                \/ \E t \in Procs : At(t, "read_take")'
      BY Zenon, <3>4, <2>2
    <3>6. pipe'.read_waiters = pipe.read_waiters /\ pipe'.write_waiters = pipe.write_waiters
      BY <2>2
    <3>7. ReaderSound(r)'
      BY Zenon, <3>1, <3>2, <3>3, <3>5, <3>6 DEF ReaderSound, At
    <3>8. WriterSound(r)'
      BY Zenon, <3>1, <3>2, <3>3, <3>5, <3>6 DEF WriterSound, At
    <3> QED BY Zenon, <3>7, <3>8
  <2> QED BY <2>4, <2>5
<1> QED BY SMTT(30), <1>4, <1>5, <1>6, <1>7, <1>8, <1>9, <1>11, <1>12, <1>13, <1>14, <1>15 DEF Step

----------------------------------------------------------------------------
(* Every step keeps the invariant.                                         *)
LEMMA PipeStepKeeps == PipeInv /\ [PipeNext]_pipeVars => PipeInv'
<1> SUFFICES ASSUME PipeInv, [PipeNext]_pipeVars PROVE PipeInv'
  OBVIOUS
<1>1. PipeTyped /\ CallsHeld /\ EndsCounted /\ RingSound /\ Waits
  BY DEF PipeInv, Waits
<1>2. CASE PipeNext
  <2>1. Held
    BY <1>1, CallsAreHeld
  <2>2. PipeTyped'
    BY <2>1, <1>1, <1>2, PipeTypedStep
  <2>3. EndsCounted'
    BY <2>1, <2>2, <1>1, <1>2, EndsStep
  <2>4. CallsHeld'
    BY Zenon, <2>1, <2>3, <1>1, <1>2, CallsStep
  <2>5. RingSound'
    BY <2>1, <1>1, <1>2, RingStep
  <2>6. PICK p \in Procs : Begin(p) \/ Step(p)
    BY <1>2 DEF PipeNext
  <2>7. Waits'
    BY Zenon, <2>1, <2>3, <2>6, <1>1, BeginKeepsWaits, StepKeepsWaits
  <2> QED BY Zenon, <2>2, <2>3, <2>4, <2>5, <2>7 DEF PipeInv, Waits
<1>3. CASE UNCHANGED pipeVars
  <2>1. PipeTyped' /\ CallsHeld'
    BY <1>1, <1>3 DEF pipeVars, PipeTyped, CallsHeld, CallHeld
  <2>2. EndsCounted' /\ RingSound'
    BY Zenon, <1>1, <1>3 DEF pipeVars, EndsCounted, RingSound, ReadEnds, WriteEnds, ClosingReaders,
                      ClosingWriters, At
  <2>3. Waits'
    BY <1>1, <1>3 DEF pipeVars, Waits, ReaderSound, WriterSound, ToBeSignalled, At
  <2> QED BY Zenon, <2>1, <2>2, <2>3 DEF PipeInv, Waits
<1> QED BY <1>2, <1>3

(* The invariant implies the property.                                     *)
LEMMA PipeInvExact == PipeInv => PipeExact
<1> SUFFICES ASSUME PipeInv PROVE PipeExact
  OBVIOUS
<1>1. PipeTyped /\ EndsCounted /\ RingSound /\ Waits
  BY DEF PipeInv, Waits
<1>2. RingFifo
  <2> SUFFICES ASSUME pipe.occupied
               PROVE  /\ sent = received + pipe.len
                      /\ \A i \in 0 .. pipe.len - 1 :
                           pipe.data[(pipe.head + i) % PIPE_BUFFER] = received + i + 1
    BY DEF RingFifo
  <2>1. /\ sent = received + pipe.len
        /\ \A i \in 0 .. pipe.len - 1 : pipe.data[Wrap(pipe.head + i)] = received + i + 1
    BY <1>1 DEF RingSound
  <2>2. ASSUME NEW i \in 0 .. pipe.len - 1
        PROVE  (pipe.head + i) % PIPE_BUFFER = Wrap(pipe.head + i)
    <3>1. pipe.head + i \in Nat /\ pipe.head + i < 2 * PIPE_BUFFER
      BY <1>1, RingNumbers
    <3> QED BY <3>1, ModWrap
  <2> QED BY <2>1, <2>2
<1>3. RefsExact
  BY <1>1 DEF EndsCounted, RefsExact, ReadEnds, WriteEnds, ClosingReaders, ClosingWriters
<1>4. NoLostPipeWakeup
  <2>1. pipe.len \in 0 .. PIPE_BUFFER /\ PIPE_BUFFER \in Nat /\ pipe.readers \in Nat /\ pipe.writers \in Nat
    BY <1>1, PipeNumbers DEF PipeTyped, PipeRecord
  <2>2. ASSUME NEW p \in Procs, At(p, "read_blocked"), pipe.len > 0 \/ pipe.writers = 0
        PROVE  \/ \E q \in Procs : p \in call[q].wake
               \/ p \in pipe.read_waiters /\ \E q \in Procs : At(q, "write_take")
    <3>1. ~At(p, "read_wait") /\ ~(pipe.len = 0 /\ pipe.writers > 0)
      BY <2>1, <2>2 DEF At
    <3>2. ReaderSound(p)
      BY <1>1 DEF Waits
    <3> QED BY <3>1, <3>2, <2>2 DEF ReaderSound, ToBeSignalled
  <2>3. ASSUME NEW p \in Procs, At(p, "write_blocked"), pipe.len < PIPE_BUFFER \/ pipe.readers = 0
        PROVE  \/ \E q \in Procs : p \in call[q].wake
               \/ p \in pipe.write_waiters /\ \E q \in Procs : At(q, "read_take")
    <3>1. ~At(p, "write_wait") /\ ~(pipe.len = PIPE_BUFFER /\ pipe.readers > 0)
      BY <2>1, <2>3 DEF At
    <3>2. WriterSound(p)
      BY <1>1 DEF Waits
    <3> QED BY <3>1, <3>2, <2>3 DEF WriterSound, ToBeSignalled
  <2> QED BY <2>2, <2>3 DEF NoLostPipeWakeup
<1> QED BY <1>2, <1>3, <1>4 DEF PipeExact

(***************************************************************************)
(* Pipes are exact for any number of processes and any size of the ring:   *)
(* through every interleaving of the critical sections of pipe, fork,      *)
(* close, read and write, the ring of try_write and try_read is a queue,   *)
(* the slot's ends are counted exactly, and no task asleep in a read or    *)
(* write that could proceed goes unsignalled.                              *)
(***************************************************************************)
THEOREM PipesAlwaysExact == PipeSpec => []PipeExact
<1>1. PipeInit => PipeInv
  BY PipeInitKeeps
<1>2. PipeInv /\ [PipeNext]_pipeVars => PipeInv'
  BY PipeStepKeeps
<1>3. PipeInv => PipeExact
  BY PipeInvExact
<1> QED BY <1>1, <1>2, <1>3, PTL DEF PipeSpec
=============================================================================

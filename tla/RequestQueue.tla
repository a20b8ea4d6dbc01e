---------------------------- MODULE RequestQueue ----------------------------
(***************************************************************************)
(* The request queues between the asynchronous system calls and the        *)
(* kernel's I/O workers: block_io.rs, async_file.rs and async_network.rs,  *)
(* with what their requests pin: an open-file description (vfs.rs) or a    *)
(* user socket (network.rs).  Kind selects the queue; the three differ in  *)
(* a few operators, the rest is common to them.  A step is one critical    *)
(* section of QUEUE, RUNTIME, OPEN_FILES or the operation table, or one    *)
(* attempt of the worker on a device.  The operation table is kept to what *)
(* a queue sees of it (AsyncRuntime has all of it): a handle is never      *)
(* reused.  Ids are u64 and do not wrap here.                              *)
(***************************************************************************)
EXTENDS Naturals, FiniteSets

CONSTANTS Kind,           \* "block", "file" or "network"
          Tasks,          \* processes, one task each
          Slots,          \* queue slots, scanned in ascending order
          Objects,        \* socket or open-file slots, scanned in ascending order
          Sockets,        \* socket kinds that are opened, among "Tcp" and "Udp"
          Operations,     \* of a network request: "Connect", "Send", "Recv"
          MaxOps,         \* bound on the handles allocated
          MaxGeneration,  \* u32::MAX of next_socket_generation, u64::MAX of an epoch
          Kills,          \* whether processes are killed, or only exit
          None

VARIABLES entries,     \* QUEUE.entries
          nextId,      \* QUEUE.next_id
          ops,         \* the operation table, by handle
          objects,     \* RUNTIME.user or OPEN_FILES.entries
          generation,  \* next_socket_generation, or the epochs handed out
          worker,      \* the worker: where it is and the request it copied
          event,       \* event_pending latch of the worker
          call,        \* where each task is in its system call
          poller,      \* network::poll: where it is
          served,      \* history: how often each operation took effect
          dropped      \* history: bytes thrown away before the grace expired

vars == <<entries, nextId, ops, objects, generation, worker, event, call, poller,
          served, dropped>>

Handles == 1..MaxOps
Least(S, x) == x \in S /\ \A y \in S : x <= y
Pins == Kind # "block"

Transport == {"idle", "opening", "established", "closing"}
Object == [owner : Tasks, kind : {"Tcp", "Udp", "File"}, generation : 1..MaxGeneration,
           refs : Nat, closing : BOOLEAN, started : {"no", "yes", "expired"},
           transport : Transport, peer : BOOLEAN, queued : BOOLEAN]
Token == [slot : Objects, generation : 1..MaxGeneration, owner : Tasks]
Request == [id : Nat, owner : Tasks, operation : Operations, token : Token \cup {None},
            state : {"Pending", "InProgress", "Complete"},
            completion : Handles \cup {None},
            answer : Handles \cup {None}]  \* the operation whose result it carries
Idle == [at |-> "user", op |-> None, token |-> None, id |-> 0]
Asleep == [at |-> "asleep", cursor |-> 0, slot |-> None, request |-> None, outcome |-> None]
Scanning(cursor) == [Asleep EXCEPT !.at = "scan", !.cursor = cursor]

Init ==
    /\ entries = [s \in Slots |-> None] /\ nextId = 1
    /\ ops = [h \in Handles |-> [owner |-> None, state |-> "new"]]
    /\ objects = [i \in Objects |-> None] /\ generation = 1
    /\ worker = Scanning(1) /\ event = FALSE
    /\ call = [t \in Tasks |-> Idle]
    /\ poller = "idle"
    /\ served = [h \in Handles |-> 0] /\ dropped = FALSE

-----------------------------------------------------------------------------
(* Sockets and open files.                                                 *)

\* tcp::Socket::close: an unfinished handshake ends, a connection drains.
Shutdown(o) ==
    [o EXCEPT !.transport = CASE @ = "established" -> "closing"
                              [] @ = "opening" -> "idle"
                              [] OTHER -> @]

NeverAbortMutant(o) ==
    IF o = None THEN None
    ELSE IF o.kind = "File" THEN IF o.refs = 0 THEN None ELSE o
    ELSE IF ~o.closing \/ o.refs # 0 THEN o
    ELSE LET c == IF o.started = "no" THEN [Shutdown(o) EXCEPT !.started = "yes"] ELSE o
         IN  IF c.transport # "idle" THEN c ELSE None
UndrainedMutant(o) ==
    IF o = None THEN None
    ELSE IF o.kind = "File" THEN IF o.refs = 0 THEN None ELSE o
    ELSE IF ~o.closing \/ o.refs # 0 THEN o ELSE None
\* retire_closed_socket and drop_id: what becomes of an object.
Retire(o) ==
    IF o = None THEN None
    ELSE IF o.kind = "File" THEN IF o.refs = 0 THEN None ELSE o
    ELSE IF ~o.closing \/ o.refs # 0 THEN o
    ELSE LET c == IF o.kind = "Tcp" /\ o.started = "no"
                    THEN [Shutdown(o) EXCEPT !.started = "yes"] ELSE o
         IN  IF o.kind = "Tcp" /\ c.transport # "idle" /\ c.started # "expired"
               THEN c ELSE None

\* Bytes accepted from a completed send are thrown away before their time.
Abandons(before, after) ==
    \E i \in Objects : /\ before[i] # None /\ after[i] = None
                       /\ before[i].queued /\ before[i].started # "expired"

Matches(o, token) ==
    o # None /\ o.owner = token.owner /\ o.generation = token.generation

\* unpin_socket or close_open_file for every request of S, S a set of queue
\* slots.
Unpinned(S) ==
    [i \in Objects |->
        LET n == Cardinality({s \in S : /\ entries[s].token # None
                                        /\ entries[s].token.slot = i
                                        /\ Matches(objects[i], entries[s].token)})
        IN  IF n = 0 THEN objects[i]
            ELSE Retire([objects[i] EXCEPT !.refs = IF @ > n THEN @ - n ELSE 0])]
UnpinnedToken(token) ==
    IF token = None \/ ~Matches(objects[token.slot], token) THEN objects
    ELSE [objects EXCEPT ![token.slot] =
              Retire([@ EXCEPT !.refs = IF @ > 0 THEN @ - 1 ELSE 0])]

SetObjects(after) ==
    /\ objects' = after
    /\ dropped' = (dropped \/ Abandons(objects, after))

Runs(t, label) == call[t].at = label
Goto(t, label) == call' = [call EXCEPT ![t] = [@ EXCEPT !.at = label]]
Return(t) == call' = [call EXCEPT ![t] = Idle]

UnboundedEpochMutant(t, kind) ==
    /\ Runs(t, "user")
    /\ \E i \in Objects :
          /\ Least({j \in Objects : objects[j] = None}, i)
          /\ objects' = [objects EXCEPT ![i] =
                [owner |-> t, kind |-> kind, generation |-> generation,
                 refs |-> 1, closing |-> FALSE,
                 started |-> "no", transport |-> "idle", peer |-> FALSE, queued |-> FALSE]]
    /\ generation' = generation + 1
    /\ UNCHANGED <<entries, nextId, ops, worker, event, call, poller, served, dropped>>
\* socket_open and vfs::open.  A descriptor of a file counts as a reference.
\* A socket generation wraps around; a file epoch does not (the epochs of all
\* slots come from one counter here).
Open(t, kind) ==
    /\ Runs(t, "user")
    /\ \E i \in Objects :
          /\ Least({j \in Objects : objects[j] = None}, i)
          /\ objects' = [objects EXCEPT ![i] =
                [owner |-> t, kind |-> kind, generation |-> generation,
                 refs |-> IF kind = "File" THEN 1 ELSE 0, closing |-> FALSE,
                 started |-> "no", transport |-> "idle", peer |-> FALSE, queued |-> FALSE]]
    /\ IF kind = "File"
         THEN generation < MaxGeneration /\ generation' = generation + 1
         ELSE generation' = (generation % MaxGeneration) + 1
    /\ UNCHANGED <<entries, nextId, ops, worker, event, call, poller, served, dropped>>

Usable(t, i) == objects[i] # None /\ objects[i].owner = t /\ ~objects[i].closing

Closed(o) == Retire([o EXCEPT !.closing = TRUE,
                              !.refs = IF o.kind = "File" THEN @ - 1 ELSE @])

\* socket_close, close of a file descriptor.
Close(t, i) ==
    /\ Runs(t, "user")
    /\ Usable(t, i)
    /\ SetObjects([objects EXCEPT ![i] = Closed(@)])
    /\ UNCHANGED <<entries, nextId, ops, generation, worker, event, call, poller, served>>

\* socket_bind and socket_connect; a TCP socket listens or starts its handshake.
Prepare(t, i, peer) ==
    /\ Runs(t, "user")
    /\ Usable(t, i)
    /\ CASE objects[i].kind = "Tcp" ->
              /\ objects[i].transport = "idle"
              /\ objects' = [objects EXCEPT ![i] = [@ EXCEPT !.transport = "opening",
                                                             !.peer = @ \/ peer]]
         [] objects[i].kind = "Udp" ->
              objects' = [objects EXCEPT ![i] = [@ EXCEPT !.peer = @ \/ peer]]
         [] OTHER -> FALSE
    /\ UNCHANGED <<entries, nextId, ops, generation, worker, event, call, poller, served,
                   dropped>>

\* socket_send: bytes enter the TCP buffer of a connection.
SendNow(t, i) ==
    /\ Runs(t, "user")
    /\ Usable(t, i) /\ objects[i].transport = "established"
    /\ objects' = [objects EXCEPT ![i] = [@ EXCEPT !.queued = TRUE]]
    /\ UNCHANGED <<entries, nextId, ops, generation, worker, event, call, poller, served,
                   dropped>>

-----------------------------------------------------------------------------
(* Submission: pin, allocate, push, signal.                                *)

UnpinnedSubmitMutant(t, i) ==
    /\ Runs(t, "user")
    /\ Usable(t, i)
    /\ objects' = objects
    /\ call' = [call EXCEPT ![t] = [@ EXCEPT !.at = "pinned", !.token =
                   [slot |-> i, generation |-> objects[i].generation, owner |-> t]]]
    /\ UNCHANGED <<entries, nextId, ops, generation, worker, event, poller, served, dropped>>
\* pin_socket and pin_current_file_for_async.
Pin(t, i) ==
    /\ Runs(t, "user")
    /\ Usable(t, i)
    /\ objects' = [objects EXCEPT ![i] = [@ EXCEPT !.refs = @ + 1]]
    /\ call' = [call EXCEPT ![t] = [@ EXCEPT !.at = "pinned", !.token =
                   [slot |-> i, generation |-> objects[i].generation, owner |-> t]]]
    /\ UNCHANGED <<entries, nextId, ops, generation, worker, event, poller, served, dropped>>

\* allocate_current; a full operation table gives the pin back.
Allocate(t) ==
    /\ Runs(t, IF Pins THEN "pinned" ELSE "user")
    /\ \E h \in Handles :
          /\ Least({g \in Handles : ops[g].state = "new"}, h)
          /\ ops' = [ops EXCEPT ![h] = [owner |-> t, state |-> "Pending"]]
          /\ call' = [call EXCEPT ![t] = [@ EXCEPT !.at = "allocated", !.op = h]]
    /\ UNCHANGED <<entries, nextId, objects, generation, worker, event, poller, served, dropped>>

AllocateFull(t) ==
    /\ Runs(t, "pinned")
    /\ SetObjects(UnpinnedToken(call[t].token))
    /\ Return(t)
    /\ UNCHANGED <<entries, nextId, ops, generation, worker, event, poller, served>>

Free == {s \in Slots : entries[s] = None}

Push(t, operation) ==
    /\ Runs(t, "allocated")
    /\ \E s \in Slots :
          /\ Least(Free, s)
          /\ entries' = [entries EXCEPT ![s] =
                [id |-> nextId, owner |-> t, operation |-> operation, token |-> call[t].token,
                 state |-> "Pending", completion |-> call[t].op, answer |-> None]]
    /\ nextId' = nextId + 1
    /\ call' = [call EXCEPT ![t] = [@ EXCEPT !.at = "signal", !.id = nextId]]
    /\ UNCHANGED <<ops, objects, generation, worker, event, poller, served, dropped>>

\* The queue is full: the pin and then the handle are given back.
PushFull(t) ==
    /\ Runs(t, "allocated")
    /\ Free = {}
    /\ SetObjects(UnpinnedToken(call[t].token))
    /\ ops' = [ops EXCEPT ![call[t].op].state = "gone"]
    /\ Return(t)
    /\ UNCHANGED <<entries, nextId, generation, worker, event, poller, served>>

\* signal_event: a blocked worker becomes runnable, otherwise the latch is set.
Signal ==
    IF worker.at = "asleep" THEN worker' = Scanning(1) /\ UNCHANGED event
                            ELSE event' = TRUE /\ UNCHANGED worker

\* A system call returns with the handle; PrimaryAta's submit waits.
SignalWorker(t) ==
    /\ Runs(t, "signal")
    /\ Signal
    /\ \/ Return(t)
       \/ Kind = "block" /\ Goto(t, "waiting")
    /\ UNCHANGED <<entries, nextId, ops, objects, generation, poller, served, dropped>>

\* async_op::wait consumes the operation, take_result then finds the request
\* by its id.
WaitReturns(t) ==
    /\ Runs(t, "waiting")
    /\ ops[call[t].op].state = "Complete"
    /\ ops' = [ops EXCEPT ![call[t].op].state = "gone"]
    /\ Goto(t, "taking")
    /\ UNCHANGED <<entries, nextId, objects, generation, worker, event, poller, served, dropped>>

TakeResult(t) ==
    /\ Runs(t, "taking")
    /\ entries' = [s \in Slots |->
          IF entries[s] # None /\ entries[s].id = call[t].id /\ entries[s].state = "Complete"
            THEN None ELSE entries[s]]
    /\ Return(t)
    /\ UNCHANGED <<nextId, ops, objects, generation, worker, event, poller, served, dropped>>

-----------------------------------------------------------------------------
(* The worker.                                                             *)

At(label) == worker.at = label

UnmarkedMutant ==
    /\ At("scan")
    /\ \E s \in Slots :
          /\ Least({r \in Slots : entries[r] # None /\ entries[r].state = "Pending"}, s)
          /\ worker' = [worker EXCEPT !.at = "try", !.cursor = s + 1, !.slot = s,
                                      !.request = entries[s]]
    /\ UNCHANGED <<entries, nextId, ops, objects, generation, event, call, poller, served,
                   dropped>>
\* take_pending: the network worker visits each slot once a pass.
TakePending ==
    /\ At("scan")
    /\ LET pending == {s \in Slots : /\ entries[s] # None /\ entries[s].state = "Pending"
                                     /\ Kind = "network" => s >= worker.cursor}
       IN  IF pending = {}
             THEN worker' = [worker EXCEPT !.at = "idle"] /\ UNCHANGED entries
             ELSE \E s \in pending :
                    /\ Least(pending, s)
                    /\ entries' = [entries EXCEPT ![s].state = "InProgress"]
                    /\ worker' = [worker EXCEPT !.at = "try", !.cursor = s + 1, !.slot = s,
                                                !.request = entries[s]]
    /\ UNCHANGED <<nextId, ops, objects, generation, event, call, poller, served, dropped>>

\* socket_connect_pinned, socket_send_pinned and socket_recv_pinned: what a
\* socket may answer, and the socket afterwards.  Endpoints are not kept: a
\* Connect may name another peer than the socket's, which is an error, and
\* "opening" includes a listening socket, which is not connecting.
Attempt(o, operation) ==
    CASE operation = "Connect" ->
           CASE o.kind = "Udp" -> {<<"error", o>>}
             [] o.peer /\ o.transport = "established" -> {<<"ok", o>>, <<"error", o>>}
             [] o.peer /\ o.transport = "opening" -> {<<"blocked", o>>, <<"error", o>>}
             [] ~o.peer /\ o.transport = "idle" ->
                  {<<"blocked", [o EXCEPT !.peer = TRUE, !.transport = "opening"]>>,
                   <<"error", o>>}
             [] OTHER -> {<<"error", o>>}
      [] operation = "Send" ->
           CASE o.kind = "Udp" /\ o.peer -> {<<"ok", o>>, <<"blocked", o>>}
             [] o.kind = "Tcp" /\ o.transport = "established" ->
                  {<<"ok", [o EXCEPT !.queued = TRUE]>>, <<"blocked", o>>}
             [] OTHER -> {<<"error", o>>}
      [] OTHER ->
           CASE o.kind = "Udp" -> {<<"ok", [o EXCEPT !.peer = TRUE]>>, <<"blocked", o>>}
             [] o.transport = "established" -> {<<"ok", o>>, <<"blocked", o>>}
             [] OTHER -> {<<"ok", o>>}

\* The attempt on the copied request.  A token that no longer matches is an
\* error; a device or a file answers or fails.
Try ==
    /\ At("try")
    /\ LET token == worker.request.token
       IN  \E outcome \in {"ok", "error", "blocked"} :
             /\ worker' = [worker EXCEPT !.at = "finish", !.outcome = outcome]
             /\ IF Kind = "network" /\ Matches(objects[token.slot], token)
                  THEN \E a \in Attempt(objects[token.slot], worker.request.operation) :
                         /\ a[1] = outcome
                         /\ objects' = [objects EXCEPT ![token.slot] = a[2]]
                  ELSE /\ UNCHANGED objects
                       /\ outcome # "blocked"
                       /\ Pins /\ ~Matches(objects[token.slot], token) => outcome = "error"
             /\ served' = IF outcome = "ok"
                            THEN [served EXCEPT ![worker.request.completion] = @ + 1]
                            ELSE served
    /\ UNCHANGED <<entries, nextId, ops, generation, event, call, poller, dropped>>

\* The slot still holds the request that the worker copied.
UncheckedMutant ==
    entries[worker.slot] # None
SameRequest ==
    LET e == entries[worker.slot]
    IN  e # None /\ e.id = worker.request.id /\ e.state = "InProgress"

\* retry and finish.  A detached request is removed and unpinned.
Finish ==
    /\ At("finish")
    /\ LET s == worker.slot
           detached == Pins /\ entries[s].completion = None
       IN  IF ~SameRequest
             THEN worker' = Scanning(worker.cursor) /\ UNCHANGED <<entries, objects, dropped>>
           ELSE IF detached
             THEN /\ entries' = [entries EXCEPT ![s] = None]
                  /\ SetObjects(Unpinned({s}))
                  /\ worker' = Scanning(worker.cursor)
           ELSE IF worker.outcome = "blocked"
             THEN /\ entries' = [entries EXCEPT ![s].state = "Pending"]
                  /\ worker' = Scanning(worker.cursor)
                  /\ UNCHANGED <<objects, dropped>>
             ELSE /\ entries' = [entries EXCEPT ![s].state = "Complete",
                                               ![s].answer = worker.request.completion]
                  /\ worker' = [worker EXCEPT !.at = "complete",
                                              !.request.completion = entries[s].completion]
                  /\ UNCHANGED <<objects, dropped>>
    /\ UNCHANGED <<nextId, ops, generation, event, call, poller, served>>

\* async_op::complete: a released handle is rejected as stale.
Complete ==
    /\ At("complete")
    /\ ops' = [ops EXCEPT ![worker.request.completion].state =
                  IF @ = "Pending" THEN "Complete" ELSE @]
    /\ worker' = Scanning(worker.cursor)
    /\ UNCHANGED <<entries, nextId, objects, generation, event, call, poller, served, dropped>>

\* wait_for_event, wait_for_event_until: the latch is consumed or the worker
\* blocks.  The network worker also wakes at its deadline.
WaitForEvent ==
    /\ At("idle")
    /\ IF event THEN event' = FALSE /\ worker' = Scanning(1)
                ELSE worker' = Asleep /\ UNCHANGED event
    /\ UNCHANGED <<entries, nextId, ops, objects, generation, call, poller, served, dropped>>

Deadline ==
    /\ At("asleep") /\ Kind = "network"
    /\ worker' = Scanning(1)
    /\ UNCHANGED <<entries, nextId, ops, objects, generation, event, call, poller, served, dropped>>

-----------------------------------------------------------------------------
(* Collecting and cancelling.                                              *)

Owns(t, h) == ops[h].owner = t /\ ops[h].state \in {"Pending", "Complete"}

\* finish_async_*: the result is copied out between these two steps; a copy
\* fault returns and leaves everything in place.
Collect(t, h) ==
    /\ Runs(t, "user")
    /\ Owns(t, h) /\ ops[h].state = "Complete"
    /\ call' = [call EXCEPT ![t] = [@ EXCEPT !.at = "consume", !.op = h]]
    /\ UNCHANGED <<entries, nextId, ops, objects, generation, worker, event, poller, served,
                   dropped>>

Answers(h) == {s \in Slots : /\ entries[s] # None /\ entries[s].completion = h
                             /\ entries[s].state = "Complete"}

CopyFault(t) ==
    /\ Runs(t, "consume")
    /\ Return(t)
    /\ UNCHANGED <<entries, nextId, ops, objects, generation, worker, event, poller, served,
                   dropped>>

Consume(t) ==
    /\ Runs(t, "consume")
    /\ Answers(call[t].op) # {}
    /\ entries' = [s \in Slots |-> IF s \in Answers(call[t].op) THEN None ELSE entries[s]]
    /\ SetObjects(Unpinned(Answers(call[t].op)))
    /\ Goto(t, "release")
    /\ UNCHANGED <<nextId, ops, generation, worker, event, poller, served>>

\* release_current after a collection, cancel_current after a cancellation.
Release(t) ==
    /\ Runs(t, "release")
    /\ ops' = [ops EXCEPT ![call[t].op].state = "gone"]
    /\ Return(t)
    /\ UNCHANGED <<entries, nextId, objects, generation, worker, event, poller, served, dropped>>

KeepsHandleMutant(S) ==
    /\ entries' = [s \in Slots |-> IF s \in S /\ entries[s].state # "InProgress" THEN None
                                  ELSE entries[s]]
    /\ SetObjects(Unpinned({s \in S : entries[s].state # "InProgress"}))
\* Queue.cancel and Queue.release_owner: a request in progress is detached
\* from its handle, any other one removed.  The block queue removes all.
Removed(S) == {s \in S : Kind = "block" \/ entries[s].state # "InProgress"}
Withdraw(S) ==
    /\ entries' = [s \in Slots |-> IF s \in Removed(S) THEN None
                                  ELSE IF s \in S THEN [entries[s] EXCEPT !.completion = None]
                                  ELSE entries[s]]
    /\ SetObjects(Unpinned(Removed(S)))

Cancel(t, h) ==
    /\ Runs(t, "user")
    /\ Owns(t, h)
    /\ Withdraw({s \in Slots : entries[s] # None /\ entries[s].completion = h})
    /\ call' = [call EXCEPT ![t] = [@ EXCEPT !.at = "release", !.op = h]]
    /\ UNCHANGED <<nextId, ops, generation, worker, event, poller, served>>

-----------------------------------------------------------------------------
(* Teardown, and network::poll.                                            *)

Owned(t) == {i \in Objects : objects[i] # None /\ objects[i].owner = t}

\* exit_current_process closes the sockets first: close_process_sockets.
Exit(t) ==
    /\ Runs(t, "user")
    /\ SetObjects([i \in Objects |->
          IF Kind = "network" /\ i \in Owned(t) THEN Retire([objects[i] EXCEPT !.closing = TRUE])
          ELSE objects[i]])
    /\ Goto(t, "withdraw")
    /\ UNCHANGED <<entries, nextId, ops, generation, worker, event, poller, served>>

\* complete_process_termination starts with the queues.
Kill(t) ==
    /\ Kills /\ Runs(t, "user")
    /\ Goto(t, "withdraw")
    /\ UNCHANGED <<entries, nextId, ops, objects, generation, worker, event, poller, served,
                   dropped>>

WithdrawAll(t) ==
    /\ Runs(t, "withdraw")
    /\ Withdraw({s \in Slots : entries[s] # None /\ entries[s].owner = t})
    /\ Goto(t, "forget")
    /\ UNCHANGED <<nextId, ops, generation, worker, event, poller, served>>

\* async_op::release_owner.
ForgetOps(t) ==
    /\ Runs(t, "forget")
    /\ ops' = [h \in Handles |-> IF ops[h].owner = t THEN [ops[h] EXCEPT !.state = "gone"]
                                 ELSE ops[h]]
    /\ Goto(t, "files")
    /\ UNCHANGED <<entries, nextId, objects, generation, worker, event, poller, served, dropped>>

\* release_file_table.
CloseFiles(t) ==
    /\ Runs(t, "files")
    /\ SetObjects([i \in Objects |-> IF Kind = "file" /\ i \in Owned(t) /\ ~objects[i].closing
                                     THEN Closed(objects[i]) ELSE objects[i]])
    /\ Goto(t, "dead")
    /\ UNCHANGED <<entries, nextId, ops, generation, worker, event, poller, served>>

\* What an interface poll may do to a socket (external): a handshake ends,
\* queued bytes are acknowledged, the peer closes or resets.
Progress(o) ==
    IF o = None \/ o.transport = "idle" THEN {o}
    ELSE IF o.transport = "opening"
      THEN {o, [o EXCEPT !.transport = "established"], [o EXCEPT !.transport = "idle"]}
      ELSE {o, [o EXCEPT !.queued = FALSE], [o EXCEPT !.transport = "idle", !.queued = FALSE]}

\* network::poll: the interface, then every closed socket.
Poll ==
    /\ Kind = "network" /\ poller = "idle"
    /\ \E moved \in [Objects -> UNION {Progress(objects[i]) : i \in Objects}] :
          /\ \A i \in Objects : moved[i] \in Progress(objects[i])
          /\ objects' = [i \in Objects |-> Retire(moved[i])]
          /\ dropped' = (dropped \/ Abandons(moved, objects'))
    /\ poller' = "sample"
    /\ UNCHANGED <<entries, nextId, ops, generation, worker, event, call, served>>

\* network_progress: has_work in one section of QUEUE, then the signal.
Sample ==
    /\ poller = "sample"
    /\ poller' = IF \E s \in Slots : entries[s] # None /\ entries[s].state # "Complete"
                   THEN "signal" ELSE "idle"
    /\ UNCHANGED <<entries, nextId, ops, objects, generation, worker, event, call, served,
                   dropped>>

SignalProgress ==
    /\ poller = "signal"
    /\ Signal
    /\ poller' = "idle"
    /\ UNCHANGED <<entries, nextId, ops, objects, generation, call, served, dropped>>

\* TCP_CLOSE_GRACE_TICKS have passed since a close started.
Expire(i) ==
    /\ objects[i] # None /\ objects[i].started = "yes"
    /\ objects' = [objects EXCEPT ![i].started = "expired"]
    /\ UNCHANGED <<entries, nextId, ops, generation, worker, event, call, poller, served,
                   dropped>>

-----------------------------------------------------------------------------
Kinds == CASE Kind = "network" -> Sockets [] Kind = "file" -> {"File"} [] OTHER -> {}

Submit(t) == \/ \E i \in Objects : Pin(t, i)
             \/ Allocate(t) \/ AllocateFull(t)
             \/ \E operation \in Operations : Push(t, operation)
             \/ PushFull(t) \/ SignalWorker(t)
Descriptors(t) == \/ \E kind \in Kinds : Open(t, kind)
                  \/ \E i \in Objects : \/ Close(t, i) \/ SendNow(t, i)
                                         \/ \E peer \in BOOLEAN : Prepare(t, i, peer)
Results(t) == \/ \E h \in Handles : Collect(t, h) \/ Cancel(t, h)
              \/ CopyFault(t) \/ Consume(t) \/ Release(t) \/ WaitReturns(t) \/ TakeResult(t)
Teardown(t) == Exit(t) \/ Kill(t) \/ WithdrawAll(t) \/ ForgetOps(t) \/ CloseFiles(t)
Work == TakePending \/ Try \/ Finish \/ Complete \/ WaitForEvent \/ Deadline
PollStep == Poll \/ Sample \/ SignalProgress

Next == \/ \E t \in Tasks : Submit(t) \/ Descriptors(t) \/ Results(t) \/ Teardown(t)
        \/ Work
        \/ PollStep
        \/ \E i \in Objects : Expire(i)

Spec == Init /\ [][Next]_vars

\* The worker is scheduled, a started teardown runs to its end under the
\* scheduler's lock, the main loop polls the network and time passes.
TeardownStep(t) == WithdrawAll(t) \/ ForgetOps(t) \/ CloseFiles(t)
Fairness ==
    /\ WF_vars(Work) /\ WF_vars(PollStep)
    /\ \A i \in Objects : WF_vars(Expire(i))
    /\ \A t \in Tasks : WF_vars(TeardownStep(t))
FairSpec == Spec /\ Fairness

-----------------------------------------------------------------------------
(* The variables hold values of their types.                               *)
TypeOK ==
    /\ entries \in [Slots -> Request \cup {None}]
    /\ nextId \in Nat \ {0}
    /\ ops \in [Handles -> [owner : Tasks \cup {None},
                            state : {"new", "Pending", "Complete", "gone"}]]
    /\ objects \in [Objects -> Object \cup {None}]
    /\ generation \in 1..MaxGeneration
    /\ worker.at \in {"scan", "try", "finish", "complete", "idle", "asleep"}
    /\ event \in BOOLEAN
    /\ \A t \in Tasks : call[t].at \in {"user", "pinned", "allocated", "signal", "waiting", "taking",
                                        "consume", "release", "withdraw", "forget", "files", "dead"}
    /\ poller \in {"idle", "sample", "signal"}
    /\ served \in [Handles -> Nat]
    /\ dropped \in BOOLEAN

\* The requests and the submissions under way that hold object i.
Holders(i) == {s \in Slots : entries[s] # None /\ entries[s].token # None
                             /\ entries[s].token.slot = i}
Submitters(i) == {t \in Tasks : /\ call[t].at \in {"pinned", "allocated"}
                                /\ call[t].token # None /\ call[t].token.slot = i}

(* pin_socket, clone_open_file and their releases: an object is referenced *)
(* exactly once by every request in the queue and every submission under   *)
(* way, whoever cancels, collects, closes or dies meanwhile.  So a pinned  *)
(* object is never retired, and a token always reaches the object it was   *)
(* made for, even when socket generations have wrapped around.             *)
PinsExact ==
    \A i \in Objects :
       /\ objects[i] # None =>
             objects[i].refs = Cardinality(Holders(i)) + Cardinality(Submitters(i))
                               + IF objects[i].kind = "File" /\ ~objects[i].closing THEN 1 ELSE 0
       /\ \A s \in Holders(i) : Matches(objects[i], entries[s].token)
       /\ \A t \in Submitters(i) : Matches(objects[i], call[t].token)

(* Queue::finish: a completed request carries the result of its own        *)
(* operation, although the block queue frees and reuses the slot of a      *)
(* cancelled request while the worker still works on it.                   *)
AnswerMatches ==
    \A s \in Slots : entries[s] # None /\ entries[s].state = "Complete" =>
       entries[s].answer = entries[s].completion

(* process_one: the result is in the queue before the operation is         *)
(* completed, and stays there until its owner has taken it.  So the owner  *)
(* of a completed operation always finds a result to collect.              *)
ReadyHasResult ==
    \A t \in Tasks : \A h \in Handles :
       /\ ops[h].owner = t /\ ops[h].state = "Complete"
       /\ call[t].at \notin {"forget", "files", "dead"}
       /\ ~(call[t].at = "release" /\ call[t].op = h)
       => Answers(h) # {}

(* process_one and retry: an operation takes effect at most once, and one  *)
(* that took effect is never attempted again.                              *)
ServedOnce ==
    /\ \A h \in Handles : served[h] <= 1
    /\ \A s \in Slots : entries[s] # None /\ entries[s].state = "Pending" =>
          served[entries[s].completion] = 0

(* worker_task: no request slips in between the worker's last look at the  *)
(* queue and its sleep.  (The network worker also has its deadline.)       *)
NoLostWork ==
    Kind # "network" /\ At("asleep") /\ (\E s \in Slots : entries[s] # None /\ entries[s].state = "Pending")
      => \E t \in Tasks : Runs(t, "signal")

(* retire_closed_socket: bytes that a completed send put into a TCP        *)
(* connection are not thrown away by a close, before the peer's grace has  *)
(* expired.                                                                *)
Drained == ~dropped

(* Queue::release_owner: a dead process leaves no request behind but one   *)
(* the worker is about to finish, and no open file but that request's.     *)
RequestsReleased ==
    \A t \in Tasks : Runs(t, "dead") =>
       /\ \A s \in Slots : entries[s] # None /\ entries[s].owner = t =>
             worker.at \in {"try", "finish"} /\ worker.slot = s
       /\ \A i \in Owned(t) : objects[i].kind = "File" => Holders(i) # {}

(* "Automatic socket teardown when a process exits" (docs/STAGE5.md): the  *)
(* sockets of a dead process are gone or being closed.                     *)
SocketsTornDown ==
    \A t \in Tasks : Runs(t, "dead") => \A i \in Owned(t) : objects[i].kind = "File" \/ objects[i].closing

(* exit_current_process, the worker and network::poll: the requests and    *)
(* sockets of an exiting process are given back in the end, although its   *)
(* peers may never answer and the worker may be holding its requests.      *)
TeardownEnds ==
    \A t \in Tasks : Runs(t, "withdraw") ~>
       /\ Runs(t, "dead")
       /\ Owned(t) = {}
       /\ \A s \in Slots : entries[s] # None => entries[s].owner # t
=============================================================================

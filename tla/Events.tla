------------------------------- MODULE Events -------------------------------
(***************************************************************************)
(* Process-owned timers and manual-reset events (async_events.rs), their   *)
(* deadline arithmetic (deadline.rs), the worker that expires them and the *)
(* system calls that create, wait, set, cancel and close.  The OBJECTS     *)
(* lock is dropped before an operation is completed or the worker is       *)
(* signalled, so what a caller or the worker still has to do after the     *)
(* lock is state.  The operation table is that of AsyncRuntime, reduced to *)
(* what this code sees of it: a handle is never reused.                    *)
(***************************************************************************)
EXTENDS Naturals, FiniteSets, FiniteSetsExt

CONSTANTS Owners,         \* processes, one task each
          COUNT,          \* object slots
          QUOTA,          \* objects a process may own
          MaxGeneration,  \* u32::MAX of a slot's generation
          MAX,            \* u64::MAX of a tick
          Relatives, Periods,
          MaxOps,         \* bound on the operations allocated
          None

Slots == 0 .. COUNT - 1
Ops == 1 .. MaxOps
Ticks == 0 .. MAX - 1

VARIABLES object,     \* OBJECTS
          operation,  \* the operations these objects are waited on with
          call,       \* what a process is in the middle of
          worker,     \* where the worker is, its deadline and its completions
          latch,      \* event_pending of the worker
          now,        \* timer::ticks()
          taken       \* history: expirations taken from each slot's timer

eventVars == <<object, operation, call, worker, latch, now, taken>>

NoCall == [at |-> "user", raw |-> None, op |-> None, timer |-> FALSE]
Free == [generation |-> 0, owner |-> None, kind |-> "event", set |-> FALSE,
         next |-> None, period |-> 0, pending |-> 0, first |-> 0, seen |-> None,
         waiter |-> None]

EventsInit ==
    /\ object = [i \in Slots |-> Free]
    /\ operation = [o \in Ops |-> [owner |-> None, state |-> "free"]]
    /\ call = [p \in Owners |-> NoCall]
    /\ worker = [at |-> "pump", todo |-> {}, deadline |-> MAX]
    /\ latch = FALSE
    /\ now = 0
    /\ taken = [i \in Slots |-> 0]

-----------------------------------------------------------------------------
\* Timer: advance, take, exhausted.

\* Mutant: a periodic timer that was looked at late fires once.
NoCoalescingMutant(t, at) == 1

Expirations(t, at) == IF t.period = 0 THEN 1 ELSE ((at - t.next) \div t.period) + 1

\* The next deadline retires when it would reach u64::MAX.
Advance(t, at) ==
    IF t.next = None \/ at < t.next THEN [t EXCEPT !.seen = at]
    ELSE LET n == Expirations(t, at)
             next == t.next + t.period * n
         IN  [t EXCEPT !.pending = Min({MAX, @ + n}), !.seen = at,
                       !.next = IF t.period = 0 \/ next >= MAX THEN None ELSE next]

Advanced(t, at) == IF t.kind = "timer" THEN Advance(t, at) ELSE t

Ready(t) == IF t.kind = "timer" THEN t.pending ELSE IF t.set THEN 1 ELSE 0

Drained(t) == IF t.kind = "timer" THEN [t EXCEPT !.pending = 0] ELSE t

Exhausted(t) == t.kind = "timer" /\ t.next = None /\ t.pending = 0

-----------------------------------------------------------------------------
\* Handles and calls.

RawOf(i) == [slot |-> i, generation |-> object[i].generation]

Names(p, raw) == /\ raw # None /\ object[raw.slot].owner = p
                 /\ object[raw.slot].generation = raw.generation

InUser(p) == call[p] = NoCall
Goto(p, at) == call' = [call EXCEPT ![p].at = at]
Return(p) == call' = [call EXCEPT ![p] = NoCall]

Owned(p) == {i \in Slots : object[i].owner = p}
Creatable == {i \in Slots : object[i].owner = None /\ object[i].generation < MaxGeneration}

Create(p, t) ==
    /\ InUser(p)
    /\ Cardinality(Owned(p)) < QUOTA
    /\ Creatable # {}
    /\ LET i == Min(Creatable)
       IN  /\ object' = [object EXCEPT ![i] =
                            [t EXCEPT !.owner = p, !.generation = object[i].generation + 1]]
           /\ taken' = [taken EXCEPT ![i] = 0]
    /\ Goto(p, "notify")
    /\ UNCHANGED <<operation, worker, latch, now>>

CreateTimer(p) ==
    \E r \in Relatives, period \in Periods :
        /\ now + r < MAX
        /\ Create(p, [Free EXCEPT !.kind = "timer", !.next = now + r,
                                  !.first = now + r, !.period = period])

CreateEvent(p) == \E set \in BOOLEAN : Create(p, [Free EXCEPT !.set = set])

\* Mutant: the worker is left to find the object at its next deadline.
NoNotifyMutant == latch

Notified == TRUE

Notify(p) == /\ call[p].at = "notify"
             /\ latch' = Notified
             /\ Return(p)
             /\ UNCHANGED <<object, operation, worker, now, taken>>

\* wait_current allocates the operation before it looks the object up.
Wait(p, i, timer) ==
    /\ InUser(p)
    /\ object[i].generation > 0
    /\ \E o \in Ops :
          /\ operation[o].state = "free"
          /\ \A q \in 1 .. o - 1 : operation[q].state # "free"
          /\ operation' = [operation EXCEPT ![o] = [owner |-> p, state |-> "pending"]]
          /\ call' = [call EXCEPT ![p] = [at |-> "wait", raw |-> RawOf(i), op |-> o,
                                          timer |-> timer]]
    /\ UNCHANGED <<object, worker, latch, now, taken>>

WaitLookup(p) ==
    /\ call[p].at = "wait"
    /\ LET raw == call[p].raw
           i == raw.slot
           t == Advanced(object[i], now)
       IN  IF \/ ~Names(p, raw)
              \/ (object[i].kind = "timer") # call[p].timer
              \/ object[i].waiter # None
           THEN Goto(p, "release") /\ UNCHANGED <<object, taken>>
           ELSE IF Ready(t) # 0
           THEN /\ object' = [object EXCEPT ![i] = Drained(t)]
                /\ taken' = [taken EXCEPT ![i] = @ + t.pending]
                /\ Goto(p, "complete")
           ELSE IF Exhausted(t)
           THEN /\ object' = [object EXCEPT ![i] = t]
                /\ Goto(p, "release")
                /\ UNCHANGED taken
           ELSE /\ object' = [object EXCEPT ![i] = [t EXCEPT !.waiter = call[p].op]]
                /\ Goto(p, "notify")
                /\ UNCHANGED taken
    /\ UNCHANGED <<operation, worker, latch, now>>

Completed(o) == IF operation[o].state = "pending"
                THEN [operation EXCEPT ![o].state = "complete"] ELSE operation

\* Both wait_current and set_event complete after the lock is dropped.
CompleteCall(p) ==
    /\ call[p].at = "complete"
    /\ operation' = Completed(call[p].op)
    /\ Return(p)
    /\ UNCHANGED <<object, worker, latch, now, taken>>

ReleaseCall(p) ==
    /\ call[p].at = "release"
    /\ operation' = [operation EXCEPT ![call[p].op].state = "released"]
    /\ Return(p)
    /\ UNCHANGED <<object, worker, latch, now, taken>>

\* Mutant: setting an event leaves the waiter to the worker.
KeepWaiterMutant(i, set) == [object EXCEPT ![i].set = set]

Signalled(i, set) == [object EXCEPT ![i].set = set,
                                    ![i].waiter = IF set THEN None ELSE @]

SetEvent(p, i, set) ==
    /\ InUser(p) /\ object[i].owner = p /\ object[i].kind = "event"
    /\ object' = Signalled(i, set)
    /\ IF set /\ object[i].waiter # None
       THEN call' = [call EXCEPT ![p] = [NoCall EXCEPT !.at = "complete",
                                                       !.op = object[i].waiter]]
       ELSE UNCHANGED call
    /\ UNCHANGED <<operation, worker, latch, now, taken>>

Cleared(t) == [t EXCEPT !.owner = None, !.waiter = None]

\* close: the waiter is cancelled after the object is gone.
Close(p, i) ==
    /\ InUser(p) /\ object[i].owner = p
    /\ object' = [object EXCEPT ![i] = Cleared(@)]
    /\ call' = [call EXCEPT ![p] =
                   IF object[i].waiter = None THEN [NoCall EXCEPT !.at = "notify"]
                   ELSE [NoCall EXCEPT !.at = "cancel", !.op = object[i].waiter,
                                       !.timer = TRUE]]
    /\ UNCHANGED <<operation, worker, latch, now, taken>>

\* Mutant: cancelling forgets to detach the operation from its object.
KeepCancelledMutant(o) == object

Detached(o) == [i \in Slots |-> IF object[i].waiter = o
                                THEN [object[i] EXCEPT !.waiter = None] ELSE object[i]]

\* sys_async_cancel: detach, then cancel.
CancelWait(p, o) ==
    /\ InUser(p) /\ operation[o].owner = p
    /\ operation[o].state \in {"pending", "complete"}
    /\ object' = Detached(o)
    /\ call' = [call EXCEPT ![p] = [NoCall EXCEPT !.at = "cancel", !.op = o]]
    /\ UNCHANGED <<operation, worker, latch, now, taken>>

CancelCall(p) ==
    /\ call[p].at = "cancel"
    /\ operation' = IF operation[call[p].op].state \in {"pending", "complete"}
                    THEN [operation EXCEPT ![call[p].op].state = "released"]
                    ELSE operation
    /\ IF call[p].timer THEN Goto(p, "notify") ELSE Return(p)
    /\ UNCHANGED <<object, worker, latch, now, taken>>

\* The owner takes the completion.
Take(p, o) ==
    /\ InUser(p) /\ operation[o].owner = p /\ operation[o].state = "complete"
    /\ operation' = [operation EXCEPT ![o].state = "released"]
    /\ UNCHANGED <<object, call, worker, latch, now, taken>>

\* Teardown: objects first, then the operations.
Exit(p) ==
    /\ InUser(p)
    /\ object' = [i \in Slots |-> IF object[i].owner = p THEN Cleared(object[i])
                                  ELSE object[i]]
    /\ Goto(p, "exit")
    /\ UNCHANGED <<operation, worker, latch, now, taken>>

ExitOps(p) ==
    /\ call[p].at = "exit"
    /\ operation' = [o \in Ops |-> IF operation[o].owner = p
                                   THEN [operation[o] EXCEPT !.state = "released"]
                                   ELSE operation[o]]
    /\ Goto(p, "dead")
    /\ UNCHANGED <<object, worker, latch, now, taken>>

-----------------------------------------------------------------------------
\* The worker.

Claims == {i \in Slots : /\ object[i].owner # None /\ object[i].waiter # None
                         /\ Ready(Advanced(object[i], now)) # 0}

Deadlines == {Advanced(object[i], now).next : i \in {j \in Slots : object[j].owner # None}}

\* pump under the lock: everything that is due, and when to look again.
Pump ==
    /\ worker.at = "pump"
    /\ object' = [i \in Slots |->
                     IF object[i].owner = None THEN object[i]
                     ELSE IF i \in Claims
                     THEN [Drained(Advanced(object[i], now)) EXCEPT !.waiter = None]
                     ELSE Advanced(object[i], now)]
    /\ taken' = [i \in Slots |-> IF i \in Claims
                                 THEN taken[i] + Advanced(object[i], now).pending
                                 ELSE taken[i]]
    /\ worker' = [at |-> "complete", todo |-> {object[i].waiter : i \in Claims},
                  deadline |-> Min({MAX} \cup (Deadlines \ {None}))]
    /\ UNCHANGED <<operation, call, latch, now>>

PumpComplete(o) ==
    /\ worker.at = "complete" /\ o \in worker.todo
    /\ operation' = Completed(o)
    /\ worker' = [worker EXCEPT !.todo = @ \ {o}]
    /\ UNCHANGED <<object, call, latch, now, taken>>

Due == worker.deadline # MAX /\ now >= worker.deadline

\* wait_for_event_until.
WorkerWait ==
    /\ worker.at = "complete" /\ worker.todo = {}
    /\ worker' = [worker EXCEPT !.at = IF latch \/ Due THEN "pump" ELSE "asleep"]
    /\ latch' = FALSE
    /\ UNCHANGED <<object, operation, call, now, taken>>

WorkerWake ==
    /\ worker.at = "asleep" /\ (latch \/ Due)
    /\ worker' = [worker EXCEPT !.at = "pump"]
    /\ latch' = FALSE
    /\ UNCHANGED <<object, operation, call, now, taken>>

Tick == /\ now < MAX - 1
        /\ now' = now + 1
        /\ UNCHANGED <<object, operation, call, worker, latch, taken>>

-----------------------------------------------------------------------------
\* What a call still has to do once it is in the kernel.
CallStep(p) == \/ Notify(p) \/ WaitLookup(p) \/ CompleteCall(p) \/ ReleaseCall(p)
               \/ CancelCall(p) \/ ExitOps(p)

WorkerStep == Pump \/ WorkerWait \/ WorkerWake \/ \E o \in Ops : PumpComplete(o)

OwnerStep(p) ==
    \/ CreateTimer(p) \/ CreateEvent(p) \/ CallStep(p) \/ Exit(p)
    \/ \E i \in Slots, b \in BOOLEAN : Wait(p, i, b) \/ SetEvent(p, i, b)
    \/ \E i \in Slots : Close(p, i)
    \/ \E o \in Ops : CancelWait(p, o) \/ Take(p, o)

EventsNext ==
    \/ \E p \in Owners : OwnerStep(p)
    \/ WorkerStep \/ Tick

EventsSpec == EventsInit /\ [][EventsNext]_eventVars

-----------------------------------------------------------------------------
(* However timers are created, closed and waited on while the worker       *)
(* computes its deadline, it never sleeps past one: if it is asleep and no *)
(* notification is on its way, every live timer is due no earlier than the *)
(* deadline it sleeps until, and no object with a waiter is ready          *)
(* (notify_worker after the lock, wait_for_event_until's latch).           *)
NoDeadlineMissed ==
    (worker.at = "asleep" /\ ~latch /\ \A p \in Owners : call[p].at \notin {"notify", "cancel"}) =>
        \A i \in Slots : object[i].owner # None =>
            /\ object[i].next # None => object[i].next >= worker.deadline
            /\ object[i].waiter # None => Ready(object[i]) = 0

(* A pending timer or event operation is always held by something that     *)
(* will end it: an object's waiter field, the worker's list, or the call   *)
(* in progress that took it; and no object waits on behalf of an operation *)
(* that has ended (set_event, close, cancel and pump taking the waiter).   *)
NoStrandedWait ==
    \A o \in Ops :
        LET attached == \E i \in Slots : object[i].waiter = o
            moving == \E p \in Owners : call[p].op = o \/ call[p].at = "exit"
        IN  /\ operation[o].state = "pending" => attached \/ moving \/ o \in worker.todo
            /\ attached => operation[o].state = "pending" \/ moving

(* A wait on a timer that is due ends, without another call of the process *)
(* to wake the worker (worker, pump, notify_worker).                       *)
DueWaitEnds ==
    \A o \in Ops :
        (\E i \in Slots : object[i].waiter = o /\ object[i].next # None /\ object[i].next <= now)
            ~> operation[o].state # "pending"

(* A timer counts every deadline once: what has been taken and what is     *)
(* pending add up to the deadlines that had passed when the timer was last *)
(* looked at, however late and however often that was (Timer::advance).    *)
ExpirationsExact ==
    \A i \in Slots : (object[i].owner # None /\ object[i].kind = "timer") =>
        LET t == object[i]
            due == {k \in 0 .. MAX : /\ t.seen # None /\ t.first + k * t.period <= t.seen
                                     /\ t.period = 0 => k = 0}
        IN  taken[i] + t.pending = Cardinality(due)

=============================================================================

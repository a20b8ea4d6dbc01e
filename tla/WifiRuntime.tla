---------------------------- MODULE WifiRuntime ----------------------------
(***************************************************************************)
(* The deferred half of the Wi-Fi receive interrupt: hard-interrupt        *)
(* handlers publish into a one-word mailbox tagged by an epoch             *)
(* (irq_mailbox.rs), a worker task claims it, services the device under    *)
(* the STATE lock and signals the owner (wifi_runtime.rs), while owners    *)
(* attach, wait, fault and exit.  A critical section of STATE is one step; *)
(* the atomics outside it are steps of their own.                          *)
(***************************************************************************)
EXTENDS Naturals, FiniteSets

CONSTANTS IrqOwners,      \* tasks that may own the subscription
          Handlers,    \* processors on which the vector can be delivered
          RxCauses,    \* interrupt causes of INTEL_CSR_RX_INTERRUPT_MASK
          FatalCauses, \* hardware and firmware errors
          MaxEpochs,   \* bound on subscriptions
          Unbound

VARIABLES mailbox,   \* [epoch, pending] in one atomic word; epoch 0 is inactive
          binding,   \* Unbound, or the subscription
          nextEpoch,
          work,      \* WIFI_DEVICE_WORK
          handler,   \* [Handlers -> what each interrupt handler has left to do]
          worker,    \* where the worker is, and what it holds
          task       \* [IrqOwners \cup {"worker"} -> [asleep, permit]] in the scheduler

runtimeVars == <<mailbox, binding, nextEpoch, work, handler, worker, task>>

Tasks == IrqOwners \cup {"worker"}

RuntimeInit ==
    /\ mailbox = [epoch |-> 0, pending |-> FALSE]
    /\ binding = Unbound
    /\ nextEpoch = 1
    /\ work = FALSE
    /\ handler = [h \in Handlers |-> [pc |-> "idle", epoch |-> 0]]
    /\ worker = [pc |-> "claim", epoch |-> 0, owner |-> Unbound]
    /\ task = [t \in Tasks |-> [asleep |-> FALSE, permit |-> FALSE]]

-----------------------------------------------------------------------------
\* The scheduler's event latch.

\* Mutant: a signal to a task that is not yet asleep is dropped.
NoLatchMutant(t) == [task EXCEPT ![t].asleep = FALSE]

Signalled(t) == [task EXCEPT ![t] = IF @.asleep THEN [asleep |-> FALSE, permit |-> @.permit]
                                    ELSE [@ EXCEPT !.permit = TRUE]]

OwnerWaiting(t) == [task EXCEPT ![t] = IF @.permit THEN [asleep |-> FALSE, permit |-> FALSE]
                                  ELSE [@ EXCEPT !.asleep = TRUE]]

-----------------------------------------------------------------------------
\* The hard interrupt: flag the work and read the epoch, publish, then signal.

Interrupt(h) ==
    /\ handler[h].pc = "idle"
    /\ work' = TRUE
    /\ handler' = [handler EXCEPT ![h] = [pc |-> "publish", epoch |-> mailbox.epoch]]
    /\ UNCHANGED <<mailbox, binding, nextEpoch, worker, task>>

CanPublish(epoch) == epoch # 0 /\ mailbox.epoch = epoch

PublishInterrupt(h) ==
    /\ handler[h].pc = "publish"
    /\ IF CanPublish(handler[h].epoch)
       THEN /\ mailbox' = [mailbox EXCEPT !.pending = TRUE]
            /\ handler' = [handler EXCEPT ![h].pc = "signal"]
       ELSE /\ handler' = [handler EXCEPT ![h].pc = "idle"]
            /\ UNCHANGED mailbox
    /\ UNCHANGED <<binding, nextEpoch, work, worker, task>>

SignalWorker(h) ==
    /\ handler[h].pc = "signal"
    /\ handler' = [handler EXCEPT ![h].pc = "idle"]
    /\ task' = Signalled("worker")
    /\ UNCHANGED <<mailbox, binding, nextEpoch, work, worker>>

-----------------------------------------------------------------------------
\* The worker: claim, service under the lock, signal the owner, wait.

Claim ==
    /\ worker.pc = "claim" /\ ~task["worker"].asleep
    /\ IF mailbox.pending
       THEN /\ worker' = [worker EXCEPT !.pc = "service", !.epoch = mailbox.epoch]
            /\ mailbox' = [mailbox EXCEPT !.pending = FALSE]
       ELSE /\ worker' = [worker EXCEPT !.pc = "wait"]
            /\ UNCHANGED mailbox
    /\ UNCHANGED <<binding, nextEpoch, work, handler, task>>

Retired(epoch) == IF mailbox.epoch = epoch THEN [epoch |-> 0, pending |-> FALSE] ELSE mailbox

\* IntelRxInterruptController::service: an error leaves the causes alone and
\* the mask cleared; otherwise the receive causes are acknowledged.
Faulting == work /\ binding.cause \cap FatalCauses # {}

Serviced ==
    CASE ~work -> binding
      [] Faulting -> [binding EXCEPT !.faulted = TRUE, !.enabled = FALSE]
      [] OTHER -> [binding EXCEPT !.cause = @ \ RxCauses]

\* One coalescing completion: an error stays, successes join their causes.
Coalesced ==
    LET before == IF binding.completion = Unbound THEN [error |-> FALSE, causes |-> {}]
                  ELSE binding.completion
    IN [error |-> before.error \/ Faulting,
        causes |-> before.causes \cup (IF work THEN binding.cause \cap RxCauses ELSE {})]

Current == binding # Unbound /\ binding.epoch = worker.epoch /\ ~binding.faulted

Service ==
    /\ worker.pc = "service"
    /\ IF Current
       THEN /\ binding' = [Serviced EXCEPT !.completion = Coalesced]
            /\ mailbox' = IF Faulting THEN Retired(binding.epoch) ELSE mailbox
            /\ work' = FALSE
            /\ worker' = [worker EXCEPT !.pc = "signal", !.owner = binding.owner]
       ELSE /\ worker' = [worker EXCEPT !.pc = "wait"]
            /\ UNCHANGED <<binding, mailbox, work>>
    /\ UNCHANGED <<nextEpoch, handler, task>>

SignalOwner ==
    /\ worker.pc = "signal"
    /\ worker' = [worker EXCEPT !.pc = "wait", !.owner = Unbound]
    /\ task' = Signalled(worker.owner)
    /\ UNCHANGED <<mailbox, binding, nextEpoch, work, handler>>

Wait ==
    /\ worker.pc = "wait"
    /\ worker' = [worker EXCEPT !.pc = "claim"]
    /\ task' = OwnerWaiting("worker")
    /\ UNCHANGED <<mailbox, binding, nextEpoch, work, handler>>

-----------------------------------------------------------------------------
\* The owner.

Attach(o) ==
    /\ binding = Unbound /\ nextEpoch <= MaxEpochs /\ ~task[o].asleep
    /\ binding' = [owner |-> o, epoch |-> nextEpoch, cause |-> {}, enabled |-> TRUE,
                   completion |-> Unbound, faulted |-> FALSE]
    /\ nextEpoch' = nextEpoch + 1
    /\ mailbox' = [epoch |-> nextEpoch, pending |-> FALSE]
    /\ UNCHANGED <<work, handler, worker, task>>

Owned(o) == binding # Unbound /\ binding.owner = o /\ ~task[o].asleep

Seed(o, cause) ==
    /\ Owned(o) /\ ~binding.faulted
    /\ binding' = [binding EXCEPT !.cause = {cause}]
    /\ UNCHANGED <<mailbox, nextEpoch, work, handler, worker, task>>

TakeCompletion(o) ==
    /\ Owned(o) /\ binding.completion # Unbound
    /\ binding' = [binding EXCEPT !.completion = Unbound]
    /\ UNCHANGED <<mailbox, nextEpoch, work, handler, worker, task>>

AwaitCompletion(o) ==
    /\ Owned(o) /\ binding.completion = Unbound
    /\ task' = OwnerWaiting(o)
    /\ UNCHANGED <<mailbox, binding, nextEpoch, work, handler, worker>>

Deadline(o) ==
    /\ task[o].asleep
    /\ task' = [task EXCEPT ![o].asleep = FALSE]
    /\ UNCHANGED <<mailbox, binding, nextEpoch, work, handler, worker>>

\* Detach, exit and termination.
\* Mutant: detaching leaves the mailbox active.
KeepMailboxMutant(o) == /\ binding # Unbound /\ binding.owner = o
                        /\ binding' = Unbound
                        /\ UNCHANGED <<mailbox, nextEpoch, work, handler, worker, task>>

ReleaseOwner(o) ==
    /\ binding # Unbound /\ binding.owner = o
    /\ mailbox' = Retired(binding.epoch)
    /\ binding' = Unbound
    /\ UNCHANGED <<nextEpoch, work, handler, worker, task>>

-----------------------------------------------------------------------------
\* The worker task's loop: what the scheduler keeps running while it is awake.
WorkerStep == Claim \/ Service \/ SignalOwner \/ Wait

RuntimeNext ==
    \/ \E h \in Handlers : Interrupt(h) \/ PublishInterrupt(h) \/ SignalWorker(h)
    \/ WorkerStep
    \/ \E o \in IrqOwners : \/ Attach(o) \/ TakeCompletion(o) \/ AwaitCompletion(o)
                         \/ Deadline(o) \/ ReleaseOwner(o)
                         \/ \E c \in RxCauses \cup FatalCauses : Seed(o, c)

RuntimeSpec == RuntimeInit /\ [][RuntimeNext]_runtimeVars

-----------------------------------------------------------------------------
\* A published interrupt is never stranded: while the pending bit is set the
\* worker is about to claim it, has a permit that will not let it sleep, or is
\* about to be signalled by the handler that published it; and a completion
\* always finds its owner awake, with a permit, or about to be signalled
\* (notify_from_irq, worker, wait_for_event).
NoStrandedInterrupt ==
    /\ mailbox.pending => \/ ~task["worker"].asleep /\ worker.pc = "claim"
                          \/ task["worker"].permit
                          \/ \E h \in Handlers : handler[h].pc = "signal"
    /\ binding # Unbound /\ binding.completion # Unbound =>
          \/ ~task[binding.owner].asleep
          \/ worker.pc = "signal" /\ worker.owner = binding.owner

\* The mailbox carries an epoch exactly while a binding that has not faulted
\* does, and it is that binding's: a handler that read an older epoch cannot
\* publish into the new subscription, and the assertion of attach_synthetic
\* that the mailbox is free never fails.
MailboxOfBinding ==
    mailbox.epoch = IF binding = Unbound \/ binding.faulted THEN 0 ELSE binding.epoch

\* attach, notify_from_irq, worker and release: an interrupt reaches the
\* subscription it was published for, and nobody sleeps through it.
InterruptsKept == MailboxOfBinding /\ NoStrandedInterrupt

\* A published interrupt becomes a completion of the subscription it was
\* published for, unless the subscription ends first, and an owner that sleeps
\* on a completion wakes without the help of its deadline (worker,
\* notify_from_irq, wait_for_event).
InterruptServed ==
    /\ mailbox.pending ~> binding = Unbound \/ binding.faulted \/ binding.completion # Unbound
    /\ \A o \in IrqOwners :
          binding # Unbound /\ binding.owner = o /\ binding.completion # Unbound /\ task[o].asleep
              ~> ~task[o].asleep
=============================================================================

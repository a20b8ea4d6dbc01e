----------------------------- MODULE MCProgress -----------------------------
(***************************************************************************)
(* Progress of the kernel's waits, for TLC.  The components do not share   *)
(* state at this level, so a behaviour exercises one of them, its subject, *)
(* and the others stay in their initial state: the states of the run are   *)
(* the sum of the components' states and not their product.                *)
(***************************************************************************)
EXTENDS Naturals

CONSTANT Nil   \* a model value: no task, no handle

VARIABLES
    subject,                                                          \* see above
    slot, port, jobs, sched, pending, at, op, pt, batch, todo, acked, \* AsyncRuntime
    task, cur, out, last, phys, pc, exited,                           \* Scheduler
    fault, page, mapping, mapped, entries, completions, pager,        \* Pager
    pipe, epoch, fds, call, latch, sent, received,                    \* Pipe
    queue, nextId, ops, objects, generation, worker, event, io,       \* RequestQueue
    poller, served, dropped,
    mailbox, binding, nextEpoch, work, handler, irqWorker, sleeper,   \* WifiRuntime
    object, operation, timerCall, timerWorker, timerLatch, now, taken \* Events

asyncVars == <<slot, port, jobs, sched, pending, at, op, pt, batch, todo, acked>>
schedulerVars == <<task, cur, out, last, phys, pc, exited>>
pagerVars == <<fault, page, mapping, mapped, entries, completions, pager>>
pipeVars == <<pipe, epoch, fds, call, latch, sent, received>>
queueVars == <<queue, nextId, ops, objects, generation, worker, event, io, poller, served,
               dropped>>
interruptVars == <<mailbox, binding, nextEpoch, work, handler, irqWorker, sleeper>>
timerVars == <<object, operation, timerCall, timerWorker, timerLatch, now, taken>>
workVars == <<queueVars, interruptVars, timerVars>>
allVars == <<subject, asyncVars, schedulerVars, pagerVars, pipeVars, workVars>>

Async == INSTANCE AsyncRuntime WITH
    Tasks <- {"task"}, Workers <- {"worker"}, OpSlots <- {1}, Ports <- {1},
    MaxGeneration <- 2, PORT_CAPACITY <- 1, BATCH <- 1, PER_PROCESS <- 1, None <- Nil

(* Processes that compute and never block, on CPUs of two NUMA domains.    *)
Sched == INSTANCE Scheduler WITH
    MAX_CPUS <- 2, MAX_TASKS <- 4, Domain <- [c \in 0 .. 1 |-> c],
    Kinds <- {[user |-> TRUE, migratable |-> FALSE, blocks |-> FALSE]}

(* Three such processes that compete for one CPU.                          *)
RoundRobin == INSTANCE Scheduler WITH
    MAX_CPUS <- 1, MAX_TASKS <- 4, Domain <- [c \in {0} |-> 0],
    Kinds <- {[user |-> TRUE, migratable |-> FALSE, blocks |-> FALSE]}

(* Two processes of the pager's own CPU, undisturbed.                      *)
Faults == INSTANCE Pager WITH
    MAX_PAGER_REQUESTS <- 2, Procs <- {1, 2}, Pages <- {0, 1}, pc <- fault,
    Remote <- {}, Killable <- {}, Signalled <- {}, Pressure <- FALSE

Pipes == INSTANCE Pipe WITH
    Procs <- {1, 2}, PIPE_BUFFER <- 1, MAX_WAITERS <- 2,
    MaxEpoch <- 1, MaxCall <- 1, MaxSent <- 2

(* A process that exits with a request on a TCP socket.                    *)
Network == INSTANCE RequestQueue WITH
    Kind <- "network", Tasks <- {"t"}, Slots <- {1}, Objects <- {1},
    Sockets <- {"Tcp"}, Operations <- {"Send"}, MaxOps <- 1,
    MaxGeneration <- 1, Kills <- FALSE, None <- Nil, entries <- queue, call <- io

(* One owner of the Wi-Fi interrupt, the vector on one CPU.                *)
Interrupts == INSTANCE WifiRuntime WITH
    IrqOwners <- {"o"}, Handlers <- {"h"}, RxCauses <- {"rx"}, FatalCauses <- {"hw"},
    MaxEpochs <- 1, Unbound <- Nil, worker <- irqWorker, task <- sleeper

(* A process with one timer or event.                                      *)
Timers == INSTANCE Events WITH
    Owners <- {"p"}, COUNT <- 1, QUOTA <- 1, MaxGeneration <- 1, MAX <- 3,
    Relatives <- {1}, Periods <- {0, 1}, MaxOps <- 1, None <- Nil,
    call <- timerCall, worker <- timerWorker, latch <- timerLatch

Init ==
    /\ \/ subject \in {"async", "scheduler", "pager", "pipe", "network", "interrupts", "timers"}
          /\ Sched!Init
       \/ subject = "round robin" /\ RoundRobin!Init
    /\ Async!AsyncInit /\ Faults!Init /\ Pipes!PipeInit /\ Network!Init
    /\ Interrupts!RuntimeInit /\ Timers!EventsInit

(* The component named what takes a step.                                  *)
OfAsync(A) == /\ subject = "async" /\ A
              /\ UNCHANGED <<subject, schedulerVars, pagerVars, pipeVars, workVars>>
OfSched(A) == /\ subject = "scheduler" /\ A
              /\ UNCHANGED <<subject, asyncVars, pagerVars, pipeVars, workVars>>
OfRoundRobin(A) == /\ subject = "round robin" /\ A
                /\ UNCHANGED <<subject, asyncVars, pagerVars, pipeVars, workVars>>
OfPager(A) == /\ subject = "pager" /\ A
              /\ UNCHANGED <<subject, asyncVars, schedulerVars, pipeVars, workVars>>
OfPipe(A) == /\ subject = "pipe" /\ A
             /\ UNCHANGED <<subject, asyncVars, schedulerVars, pagerVars, workVars>>
OfNetwork(A) == /\ subject = "network" /\ A
                /\ UNCHANGED <<subject, asyncVars, schedulerVars, pagerVars, pipeVars,
                               interruptVars, timerVars>>
OfInterrupts(A) == /\ subject = "interrupts" /\ A
                   /\ UNCHANGED <<subject, asyncVars, schedulerVars, pagerVars, pipeVars,
                                  queueVars, timerVars>>
OfTimers(A) == /\ subject = "timers" /\ A
               /\ UNCHANGED <<subject, asyncVars, schedulerVars, pagerVars, pipeVars,
                              queueVars, interruptVars>>

Next ==
    \/ OfAsync(Async!AsyncNext) \/ OfSched(Sched!Next) \/ OfRoundRobin(RoundRobin!Next)
    \/ OfPager(Faults!Next) \/ OfPipe(Pipes!PipeNext) \/ OfNetwork(Network!Next)
    \/ OfInterrupts(Interrupts!RuntimeNext) \/ OfTimers(Timers!EventsNext)

(* The fairness each component states, of its steps in this composition.   *)
Fairness ==
    /\ WF_allVars(OfAsync(Async!CallStep("task")))
    /\ WF_allVars(OfAsync(Async!Dispatch("task")))
    /\ WF_allVars(OfAsync(Async!ReleasePorts("task")))
    /\ \A h \in Async!Handle : WF_allVars(OfAsync(Async!Produce("worker", h)))
    /\ \A actor \in Async!Actors, signal \in Async!Signal :
          WF_allVars(OfAsync(Async!Notify(actor, signal)))
    /\ \A c \in Sched!CPU : /\ WF_allVars(OfSched(Sched!SwitchStacks(c)))
                            /\ WF_allVars(OfSched(Sched!FinalizeSwitch(c)))
                            /\ WF_allVars(OfSched(Sched!PreemptFromInterrupt(c)))
    /\ WF_allVars(OfRoundRobin(RoundRobin!SwitchStacks(0)))
    /\ WF_allVars(OfRoundRobin(RoundRobin!FinalizeSwitch(0)))
    /\ WF_allVars(OfRoundRobin(RoundRobin!PreemptFromInterrupt(0)))
    /\ WF_allVars(OfPager(Faults!PagerStep))
    /\ \A p \in {1, 2} : /\ WF_allVars(OfPager(Faults!FaultBlock(p)))
                         /\ WF_allVars(OfPager(Faults!Resume(p)))
                         /\ WF_allVars(OfPipe(Pipes!Step(p)))
    /\ WF_allVars(OfNetwork(Network!Work))
    /\ WF_allVars(OfNetwork(Network!PollStep))
    /\ WF_allVars(OfNetwork(Network!Expire(1)))
    /\ WF_allVars(OfNetwork(Network!TeardownStep("t")))
    /\ WF_allVars(OfInterrupts(Interrupts!WorkerStep))
    /\ WF_allVars(OfInterrupts(Interrupts!PublishInterrupt("h")))
    /\ WF_allVars(OfInterrupts(Interrupts!SignalWorker("h")))
    /\ WF_allVars(OfTimers(Timers!WorkerStep))
    /\ WF_allVars(OfTimers(Timers!CallStep("p")))

Spec == Init /\ [][Next]_allVars /\ Fairness

----------------------------------------------------------------------------
(* async_wait and completion_port_read: a wait on an operation that a      *)
(* producer holds ends, and so does a wait on a port with a ready record.  *)
(* try_handle_file_fault and pager_task: a page fault ends, unless the     *)
(* pager answers other processes for ever.  pipe::read and pipe::write: a  *)
(* call that could proceed does not stay asleep.  wifi_runtime::worker: a  *)
(* published interrupt reaches its owner.  async_events::worker: a wait on *)
(* a timer that is due ends.  exit_current_process, the network worker and *)
(* network::poll: the requests and sockets of an exiting process are given *)
(* back in the end.                                                        *)
WaitsEnd ==
    /\ Async!WaitEnds /\ Async!PortWaitEnds
    /\ Faults!FaultEnds
    /\ Pipes!PipeWaitEnds
    /\ Interrupts!InterruptServed
    /\ Timers!DueWaitEnds
    /\ Network!TeardownEnds

(* request_termination: a computing process that was asked to terminate    *)
(* while it was executing is retired at a hand-off.                        *)
KillAcknowledged ==
    \A s \in Sched!Slot \ Sched!CPU :
        subject = "scheduler" /\ task[s].termination_signal
            ~> subject = "scheduler" /\ task[s].state \in {"Dead", "Empty"}

(* prepare_switch: a Ready process is not starved by processes of its      *)
(* priority that compute, yield, exit, are killed and spawned.             *)
ReadyRuns ==
    \A s \in RoundRobin!Slot \ RoundRobin!CPU :
        subject = "round robin" /\ task[s].state = "Ready"
            ~> subject = "round robin" /\ task[s].state # "Ready"
=============================================================================

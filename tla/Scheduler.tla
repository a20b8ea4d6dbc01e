----------------------------- MODULE Scheduler -----------------------------
(***************************************************************************)
(* The SMP scheduler of kernel/src/task.rs: the task table, the selection  *)
(* of the next task, the stack hand-off, the event latch, termination and  *)
(* the movement of tasks between CPUs.                                     *)
(*                                                                         *)
(* Every action is one critical section of the global SCHEDULER lock, or   *)
(* the physical stack switch, which runs outside the lock with interrupts  *)
(* masked.  The gap between the two is the point of the model:             *)
(* prepare_switch publishes what the table says (cur), and only later does *)
(* the assembly change the stack the CPU is really on (phys).              *)
(*                                                                         *)
(* Time is abstract: a deadline may expire at any tick.  The idle task of  *)
(* CPU c is the table slot c.                                              *)
(***************************************************************************)
EXTENDS Integers, FiniteSets, FiniteSetsExt

CONSTANTS
    MAX_CPUS,     \* CPUs 0 .. MAX_CPUS - 1, all online
    MAX_TASKS,    \* table slots 0 .. MAX_TASKS - 1
    Kinds,        \* the kinds of task the system spawns
    Domain        \* NUMA domain of each CPU

CPU == 0 .. MAX_CPUS - 1
Slot == 0 .. MAX_TASKS - 1
Nobody == MAX_TASKS

(***************************************************************************)
(* What tells one spawned task from another: user (no kernel entry point), *)
(* migratable, and whether its code calls the blocking primitives.         *)
(***************************************************************************)
Kind == [user : BOOLEAN, migratable : BOOLEAN, blocks : BOOLEAN]
IdleKind == [user |-> FALSE, migratable |-> FALSE, blocks |-> FALSE]

K(user, migratable, blocks) ==
    [user |-> user, migratable |-> migratable, blocks |-> blocks]
(* Pinned processes, and migratable jobs that yield but never block.       *)
SafeKinds == {K(TRUE, FALSE, TRUE), K(TRUE, TRUE, FALSE)}
(* The asynchronous I/O services: migratable kernel workers that block.    *)
ServiceKinds == {K(FALSE, TRUE, TRUE)}
(* Ordinary processes.                                                     *)
ProcessKinds == {K(TRUE, FALSE, TRUE)}

(* A machine of one NUMA domain.                                           *)
OneDomain == [c \in CPU |-> 0]

ASSUME SchedulerAssumption ==
    /\ MAX_CPUS \in Nat \ {0}
    /\ MAX_TASKS \in Nat /\ MAX_TASKS > MAX_CPUS
    /\ Kinds \subseteq Kind
    /\ Domain \in [CPU -> Nat]

VARIABLES
    task,     \* the task control blocks
    cur,      \* current_slot of each CPU
    out,      \* switching_out of each CPU
    last,     \* last_selected of each CPU and priority
    phys,     \* the slot whose stack each CPU is executing on
    pc,       \* where each CPU is in a context switch
    exited    \* slots whose process has been published as Exited

vars == <<task, cur, out, last, phys, pc, exited>>

State == {"Empty", "Ready", "Running", "Switching", "Blocked", "Sleeping", "Dead"}
\* TaskPriority: LOW for the idle tasks, NORMAL for every task that is spawned
\* or forked.  HIGH is only ever given to the boot CPU's kernel task (slot 0 of
\* the table), which is left out: it never exits, migrates or is reclaimed.
Priority == {0, 1}

Tcb == [state : State, kind : Kind, cpu : CPU, affinity : SUBSET CPU,
        event_pending : BOOLEAN, deadline : BOOLEAN,
        termination_signal : BOOLEAN, ever_dispatched : BOOLEAN]

Idle(s) == s \in CPU
PriorityOf(s) == IF Idle(s) THEN 0 ELSE 1

EmptyTcb ==
    [state |-> "Empty", kind |-> IdleKind, cpu |-> 0, affinity |-> {},
     event_pending |-> FALSE, deadline |-> FALSE,
     termination_signal |-> FALSE, ever_dispatched |-> FALSE]

NewTcb(kind, c, mask) ==
    [EmptyTcb EXCEPT !.state = "Ready", !.kind = kind, !.cpu = c, !.affinity = mask]

Init ==
    /\ task = [s \in Slot |->
                 IF Idle(s) THEN [NewTcb(IdleKind, s, {s}) EXCEPT !.state = "Running"]
                            ELSE EmptyTcb]
    /\ cur = [c \in CPU |-> c]
    /\ out = [c \in CPU |-> Nobody]
    /\ last = [c \in CPU |-> [p \in Priority |-> 0]]
    /\ phys = [c \in CPU |-> c]
    /\ pc = [c \in CPU |-> "run"]
    /\ exited = {}

----------------------------------------------------------------------------
(***************************************************************************)
(* prepare_switch.                                                         *)
(***************************************************************************)

(* reap_dead: this CPU recycles its own dead tasks, except the current.    *)
ReapForeignMutant(T, c) ==
    [s \in Slot |-> IF s # cur[c] /\ T[s].state = "Dead" THEN EmptyTcb ELSE T[s]]

Reaped(T, c) ==
    [s \in Slot |-> IF s # cur[c] /\ T[s].state = "Dead" /\ T[s].cpu = c
                    THEN EmptyTcb ELSE T[s]]

Runnable(T, c) ==
    {s \in Slot : T[s].state = "Ready" /\ T[s].cpu = c /\ c \in T[s].affinity}

Best(T, c) ==
    {s \in Runnable(T, c) : \A o \in Runnable(T, c) : PriorityOf(o) <= PriorityOf(s)}

(* Distance of a slot from the round-robin cursor, 1 .. MAX_TASKS.         *)
Offset(start, s) == ((s - start - 1) % MAX_TASKS) + 1

FirstBestMutant(T, c) ==
    CHOOSE s \in Best(T, c) : \A o \in Best(T, c) : s <= o

Selected(T, c) ==
    CHOOSE s \in Best(T, c) : \A o \in Best(T, c) :
        Offset(last[c][PriorityOf(s)], s) <= Offset(last[c][PriorityOf(s)], o)

(* The outgoing task is Switching, not Ready, until the CPU has left it.   *)
ReadyAtOnceMutant(R, c, next) ==
    [R EXCEPT ![cur[c]].state = IF @ = "Running" THEN "Ready" ELSE @,
              ![next].state = "Running",
              ![next].ever_dispatched = TRUE]

HandedOff(R, c, next) ==
    [R EXCEPT ![cur[c]].state = IF @ = "Running" THEN "Switching" ELSE @,
              ![next].state = "Running",
              ![next].ever_dispatched = TRUE]

CursorPastMutant(T, c) ==
    LET R == Reaped(T, c)
        next == Selected(R, c)
    IN /\ Best(R, c) # {}
       /\ task' = HandedOff(R, c, next)
       /\ out' = IF R[cur[c]].state = "Running" THEN [out EXCEPT ![c] = cur[c]] ELSE out
       /\ cur' = [cur EXCEPT ![c] = next]
       /\ last' = [last EXCEPT ![c][PriorityOf(next)] = next + 1]
       /\ pc' = [pc EXCEPT ![c] = "handoff"]
       /\ UNCHANGED phys

UntrackedSwitchMutant(T, c) ==
    LET R == Reaped(T, c)
        next == Selected(R, c)
    IN /\ Best(R, c) # {}
       /\ task' = HandedOff(R, c, next)
       /\ out' = out
       /\ cur' = [cur EXCEPT ![c] = next]
       /\ last' = [last EXCEPT ![c][PriorityOf(next)] = next]
       /\ pc' = [pc EXCEPT ![c] = "handoff"]
       /\ UNCHANGED phys

SwitchAway(T, c) ==
    LET R == Reaped(T, c)
        next == Selected(R, c)
    IN /\ Best(R, c) # {}
       /\ task' = HandedOff(R, c, next)
       /\ out' = IF R[cur[c]].state = "Running" THEN [out EXCEPT ![c] = cur[c]] ELSE out
       /\ cur' = [cur EXCEPT ![c] = next]
       /\ last' = [last EXCEPT ![c][PriorityOf(next)] = next]
       /\ pc' = [pc EXCEPT ![c] = "handoff"]
       /\ UNCHANGED phys

(* prepare_switch returns None: only the reaping remains.                  *)
StayOn(T, c) ==
    /\ Best(Reaped(T, c), c) = {}
    /\ task' = Reaped(T, c)
    /\ UNCHANGED <<cur, out, last, phys, pc>>

----------------------------------------------------------------------------
(***************************************************************************)
(* What the task current on a CPU does.                                    *)
(***************************************************************************)

Executing(c) == pc[c] = "run" /\ task[cur[c]].state = "Running"

YieldNow(c) ==
    /\ Executing(c)
    /\ SwitchAway(task, c) \/ StayOn(task, c)
    /\ UNCHANGED exited

(* wake_sleeping with the deadlines in S expired.                          *)
Expirable ==
    {s \in Slot : \/ task[s].state = "Sleeping"
                  \/ task[s].state = "Blocked" /\ task[s].deadline}

Woken(S) ==
    [s \in Slot |-> IF s \in S THEN [task[s] EXCEPT !.state = "Ready", !.deadline = FALSE]
                               ELSE task[s]]

Tick(c) ==
    /\ pc[c] = "run"
    /\ \E S \in (SUBSET Expirable) \ {{}} : task' = Woken(S)
    /\ UNCHANGED <<cur, out, last, phys, pc, exited>>

PreemptFromInterrupt(c) ==
    /\ Executing(c)
    /\ \E S \in SUBSET Expirable : SwitchAway(Woken(S), c) \/ StayOn(Woken(S), c)
    /\ UNCHANGED exited

Blocks(c) == Executing(c) /\ task[cur[c]].kind.blocks

(* A latched event is consumed; a deadline already past returns at once,   *)
(* which changes nothing; otherwise the task blocks.                       *)
WaitForEventUntil(c) ==
    /\ Blocks(c)
    /\ \/ /\ task[cur[c]].event_pending
          /\ task' = [task EXCEPT ![cur[c]].event_pending = FALSE]
          /\ UNCHANGED <<cur, out, last, phys, pc>>
       \/ /\ ~task[cur[c]].event_pending
          /\ \E timed \in BOOLEAN :
               SwitchAway([task EXCEPT ![cur[c]].state = "Blocked",
                                       ![cur[c]].deadline = timed], c)
    /\ UNCHANGED exited

(* block_current, the pager's own wait, and the page fault that blocks its *)
(* task and wakes the pager in the same critical section.  None of them    *)
(* looks at the event latch.                                               *)
Pagers ==
    {s \in Slot : task[s].state \in {"Blocked", "Sleeping"} /\ ~task[s].kind.user}

Faulted(c, S) ==
    [s \in Slot |-> IF s = cur[c] THEN [task[s] EXCEPT !.state = "Blocked"]
                    ELSE IF s \in S THEN [task[s] EXCEPT !.state = "Ready"]
                    ELSE task[s]]

BlockCurrent(c) ==
    /\ Blocks(c)
    /\ \E S \in {{}} \cup {{p} : p \in Pagers} : SwitchAway(Faulted(c, S), c)
    /\ UNCHANGED exited

SleepCurrent(c) ==
    /\ Blocks(c)
    /\ SwitchAway([task EXCEPT ![cur[c]].state = "Sleeping"], c)
    /\ UNCHANGED exited

(* exit_current_task and exit_current_process; the process is published as *)
(* Exited in the critical section that kills the task.                     *)
ExitCurrent(c) ==
    /\ Executing(c)
    /\ ~Idle(cur[c])
    /\ SwitchAway([task EXCEPT ![cur[c]].state = "Dead"], c)
    /\ exited' = IF task[cur[c]].kind.user THEN exited \cup {cur[c]} ELSE exited

(* honor_current_termination_request, at a syscall's return.               *)
HonorCurrentTermination(c) ==
    /\ Executing(c)
    /\ task[cur[c]].termination_signal
    /\ ExitCurrent(c)

----------------------------------------------------------------------------
(***************************************************************************)
(* The physical switch.                                                    *)
(***************************************************************************)

SwitchStacks(c) ==
    /\ pc[c] = "handoff"
    /\ phys' = [phys EXCEPT ![c] = cur[c]]
    /\ pc' = [pc EXCEPT ![c] = "landed"]
    /\ UNCHANGED <<task, cur, out, last, exited>>

Retired(T, s) ==
    [T EXCEPT ![s].state = "Dead", ![s].termination_signal = FALSE]

SignalIgnoredMutant(c) ==
    /\ pc[c] = "landed"
    /\ pc' = [pc EXCEPT ![c] = "run"]
    /\ out' = [out EXCEPT ![c] = Nobody]
    /\ task' = IF out[c] = Nobody THEN task
               ELSE [task EXCEPT ![out[c]].state = "Ready"]
    /\ UNCHANGED <<cur, last, phys, exited>>

FinalizeSwitch(c) ==
    /\ pc[c] = "landed"
    /\ pc' = [pc EXCEPT ![c] = "run"]
    /\ out' = [out EXCEPT ![c] = Nobody]
    /\ \/ out[c] = Nobody /\ UNCHANGED <<task, exited>>
       \/ /\ out[c] # Nobody
          /\ task[out[c]].termination_signal
          /\ task' = Retired(task, out[c])
          /\ exited' = IF task[out[c]].kind.user THEN exited \cup {out[c]} ELSE exited
       \/ /\ out[c] # Nobody
          /\ ~task[out[c]].termination_signal
          /\ task' = [task EXCEPT ![out[c]].state = "Ready"]
          /\ UNCHANGED exited
    /\ UNCHANGED <<cur, last, phys>>

----------------------------------------------------------------------------
(***************************************************************************)
(* What a running CPU does to another task.                                *)
(***************************************************************************)

SomeCpuRuns == \E c \in CPU : pc[c] = "run"

SignalEvent(s) ==
    /\ SomeCpuRuns
    /\ task[s].state # "Empty" /\ task[s].kind.blocks
    /\ task' = IF task[s].state = "Blocked"
               THEN [task EXCEPT ![s].state = "Ready", ![s].deadline = FALSE]
               ELSE [task EXCEPT ![s].event_pending = TRUE]
    /\ UNCHANGED <<cur, out, last, phys, pc, exited>>

WakeTask(s) ==
    /\ SomeCpuRuns
    /\ task[s].state \in {"Blocked", "Sleeping"}
    /\ task' = [task EXCEPT ![s].state = "Ready", ![s].deadline = FALSE]
    /\ UNCHANGED <<cur, out, last, phys, pc, exited>>

KillRunningMutant(s) ==
    /\ SomeCpuRuns
    /\ task[s].kind.user
    /\ task[s].state \notin {"Empty", "Dead"}
    /\ task' = Retired(task, s)
    /\ exited' = exited \cup {s}
    /\ UNCHANGED <<cur, out, last, phys, pc>>

(* kill_process and request_termination for one process.                   *)
RequestTermination(s) ==
    /\ SomeCpuRuns
    /\ task[s].kind.user
    /\ \/ /\ task[s].state \in {"Ready", "Blocked", "Sleeping"}
          /\ task' = Retired(task, s)
          /\ exited' = exited \cup {s}
       \/ /\ task[s].state \in {"Running", "Switching"}
          /\ task' = [task EXCEPT ![s].termination_signal = TRUE]
          /\ UNCHANGED exited
    /\ UNCHANGED <<cur, out, last, phys, pc>>

(* spawn_kernel_on and the process constructors: the first empty slot.     *)
Spawn(kind, c) ==
    LET empty == {s \in Slot : task[s].state = "Empty"}
        mask == IF kind.migratable THEN CPU ELSE {c}
    IN /\ SomeCpuRuns
       /\ empty # {}
       /\ task' = [task EXCEPT ![Min(empty)] = NewTcb(kind, c, mask)]
       /\ exited' = exited \ {Min(empty)}
       /\ UNCHANGED <<cur, out, last, phys, pc>>

----------------------------------------------------------------------------
(***************************************************************************)
(* Migration.                                                              *)
(***************************************************************************)

AnyStateMutant(s) == task[s].state # "Empty" /\ task[s].kind.migratable

Migratable(s) == task[s].state = "Ready" /\ task[s].kind.migratable

MigrateReadyTask(s, target) ==
    /\ SomeCpuRuns
    /\ Migratable(s)
    /\ target \in task[s].affinity
    /\ task' = [task EXCEPT ![s].cpu = target]
    /\ UNCHANGED <<cur, out, last, phys, pc, exited>>

SetReadyTaskAffinity(s, mask) ==
    /\ SomeCpuRuns
    /\ Migratable(s)
    /\ task' = [task EXCEPT ![s].affinity = mask,
                            ![s].cpu = IF @ \in mask THEN @ ELSE Min(mask)]
    /\ UNCHANGED <<cur, out, last, phys, pc, exited>>

(* run_loads(): runnable tasks of a CPU, a task in hand-off included.      *)
RunLoad(c) ==
    Cardinality({s \in Slot : /\ ~Idle(s)
                              /\ task[s].cpu = c
                              /\ task[s].state \in {"Ready", "Running", "Switching"}})

(* rebalance_one: the task/target pairs it considers and their preference. *)
Moves ==
    {m \in Slot \X CPU :
        /\ Migratable(m[1])
        /\ ~(task[m[1]].kind.user /\ task[m[1]].ever_dispatched)
        /\ m[2] # task[m[1]].cpu
        /\ m[2] \in task[m[1]].affinity
        /\ RunLoad(task[m[1]].cpu) > RunLoad(m[2]) + 1}

Gain(m) == RunLoad(task[m[1]].cpu) - RunLoad(m[2])
CrossDomain(m) == IF Domain[task[m[1]].cpu] = Domain[m[2]] THEN 0 ELSE 1

Preferred(m, n) ==
    \/ CrossDomain(m) < CrossDomain(n)
    \/ /\ CrossDomain(m) = CrossDomain(n)
       /\ \/ Gain(m) > Gain(n)
          \/ Gain(m) = Gain(n) /\ m[2] < n[2]
          \/ Gain(m) = Gain(n) /\ m[2] = n[2] /\ m[1] <= n[1]

Rebalance ==
    /\ SomeCpuRuns
    /\ \E m \in Moves :
         /\ \A n \in Moves : Preferred(m, n)
         /\ task' = [task EXCEPT ![m[1]].cpu = m[2]]
    /\ UNCHANGED <<cur, out, last, phys, pc, exited>>

----------------------------------------------------------------------------
OnCpu(c) ==
    \/ YieldNow(c) \/ Tick(c) \/ PreemptFromInterrupt(c)
    \/ WaitForEventUntil(c) \/ BlockCurrent(c) \/ SleepCurrent(c)
    \/ ExitCurrent(c) \/ HonorCurrentTermination(c)
    \/ SwitchStacks(c) \/ FinalizeSwitch(c)

OnTask(s) ==
    \/ SignalEvent(s) \/ WakeTask(s) \/ RequestTermination(s)
    \/ \E target \in CPU : MigrateReadyTask(s, target)
    \/ \E mask \in (SUBSET CPU) \ {{}} : SetReadyTaskAffinity(s, mask)

Next ==
    \/ \E c \in CPU : OnCpu(c)
    \/ \E s \in Slot : OnTask(s)
    \/ \E kind \in Kinds, c \in CPU : Spawn(kind, c)
    \/ Rebalance

Spec == Init /\ [][Next]_vars

(***************************************************************************)
(* Fairness.  The hand-off runs with interrupts masked and cannot stop     *)
(* half way; the timer of every CPU forces a switch at the end of each     *)
(* quantum.  Nothing is assumed of events, sleeps, kills or migrations.    *)
(***************************************************************************)
Fairness ==
    \A c \in CPU : /\ WF_vars(SwitchStacks(c))
                   /\ WF_vars(FinalizeSwitch(c))
                   /\ WF_vars(PreemptFromInterrupt(c))

FairSpec == Spec /\ Fairness

(* In addition, a process that keeps being run keeps returning from its    *)
(* system calls, where it honours a termination request.                   *)
ReturningSpec ==
    FairSpec /\ \A c \in CPU : SF_vars(HonorCurrentTermination(c))

----------------------------------------------------------------------------
(***************************************************************************)
(* Properties.                                                             *)
(***************************************************************************)

(* The variables hold values of their types.                               *)
TypeOK ==
    /\ task \in [Slot -> Tcb]
    /\ cur \in [CPU -> Slot]
    /\ out \in [CPU -> Slot \cup {Nobody}]
    /\ last \in [CPU -> [Priority -> Slot]]
    /\ phys \in [CPU -> Slot]
    /\ pc \in [CPU -> {"run", "handoff", "landed"}]
    /\ exited \subseteq Slot

(***************************************************************************)
(* The SAFETY comment of TaskStack (task.rs:266): a stack is used by one   *)
(* CPU at a time.  No CPU has selected, or is executing on, a stack that   *)
(* another CPU is still executing on.  It takes a wake, a migration and a  *)
(* dispatch by other CPUs inside one CPU's hand-off to break it.           *)
(***************************************************************************)
StackExclusive ==
    \A c, d \in CPU : c # d => cur[c] # phys[d] /\ phys[c] # phys[d]

(***************************************************************************)
(* The asserts of finalize_switch and prepare_switch ("outgoing task lost  *)
(* switching state", "outgoing scheduler slot is still current", "nested   *)
(* scheduler hand-off"): whatever other CPUs do to the table during a      *)
(* hand-off, a task is Switching exactly while one CPU is leaving it, and  *)
(* the stack that CPU still has to leave or has just left is its own.      *)
(***************************************************************************)
HandoffTracked ==
    /\ \A c \in CPU : out[c] # Nobody => /\ task[out[c]].state = "Switching"
                                         /\ out[c] # cur[c]
                                         /\ pc[c] # "run"
                                         /\ pc[c] = "handoff" => phys[c] = out[c]
    /\ \A c, d \in CPU : c # d /\ out[c] # Nobody => out[c] # out[d]
    /\ \A s \in Slot : task[s].state = "Switching" => \E c \in CPU : out[c] = s

(***************************************************************************)
(* A CPU that is not in a hand-off executes its current task, that task is *)
(* Running, and it is owned by this CPU and allowed on it: migration,      *)
(* affinity changes, wakes and kills by other CPUs never touch a task      *)
(* under its executor.                                                     *)
(***************************************************************************)
CurrentOwned ==
    \A c \in CPU :
        /\ task[cur[c]].state = "Running"
        /\ task[cur[c]].cpu = c /\ c \in task[cur[c]].affinity
        /\ pc[c] # "handoff" => phys[c] = cur[c]

(* validate_affinity_invariants (task.rs:855): the owner of every live     *)
(* task is inside its affinity mask, through migration, rebalancing and    *)
(* affinity changes; a pinned task's mask is its owner alone.              *)
AffinityHolds ==
    \A s \in Slot : task[s].state \notin {"Empty", "Dead"} =>
        /\ task[s].cpu \in task[s].affinity
        /\ ~task[s].kind.migratable => task[s].affinity = {task[s].cpu}

(* prepare_switch, migrate_ready_task and rebalance_one: the tables hold   *)
(* values of their types, the current task of a CPU is Running and its     *)
(* own, and every live task is on a CPU of its affinity mask.              *)
TasksPlaced == TypeOK /\ CurrentOwned /\ AffinityHolds

(***************************************************************************)
(* The `expect`s of block_current, sleep_current and wait_for_event_until: *)
(* a task that blocks always finds a replacement, because the CPU's idle   *)
(* task is Ready whenever something else is current - also right after a   *)
(* hand-off in which idle itself was the task switched out.                *)
(***************************************************************************)
ReplacementReady ==
    \A c \in CPU : pc[c] = "run" /\ ~Idle(cur[c]) => Runnable(task, c) # {}

(***************************************************************************)
(* A slot is recycled only after the CPU has left its stack: the stack a   *)
(* CPU executes on never belongs to an empty slot (which a spawn could     *)
(* take over), though tasks die while they are still executing.            *)
(***************************************************************************)
NoStackRecycled == \A c \in CPU : task[phys[c]].state # "Empty"

(***************************************************************************)
(* complete_process_termination (task.rs:4656): a process is published as  *)
(* Exited only with its task dead, so waitpid never reaps a process whose  *)
(* task can still be dispatched.                                           *)
(***************************************************************************)
ExitTruthful == \A s \in exited : task[s].state \in {"Dead", "Empty"}

(***************************************************************************)
(* The promise of request_termination (task.rs:988): a Running or Switching*)
(* task that carries a termination request is retired at a hand-off.       *)
(***************************************************************************)
KillAcknowledged ==
    \A s \in Slot : task[s].termination_signal ~> task[s].state \in {"Dead", "Empty"}

(***************************************************************************)
(* The round robin of prepare_switch: a Ready task is not starved by other *)
(* tasks of its priority, however they block, wake, exit and are spawned.  *)
(***************************************************************************)
ReadyRuns ==
    \A s \in Slot : task[s].state = "Ready" /\ ~Idle(s) ~> task[s].state # "Ready"

=============================================================================

----------------------------- MODULE CpuHotplug -----------------------------
(***************************************************************************)
(* Application processors of smp.rs: their start, their way out of the     *)
(* scheduler and back (request_cpu_offline, request_cpu_online and the two *)
(* checkpoints each AP runs on itself), and the TLB shootdowns that must   *)
(* reach exactly the CPUs that are online.  The part of the task table the *)
(* transitions move is that of task.rs, one critical section a step.       *)
(*                                                                         *)
(* OFFLINE_STATE keeps the code's numbers: 0 never parked, 1 offline       *)
(* requested, 2 leaving, 3 offline rejected, 5 parked, 6 online requested, *)
(* 7 back online, 8 joining, 9 online rejected.                            *)
(***************************************************************************)
EXTENDS Naturals, FiniteSets, FiniteSetsExt, FiniteSetTheorems, WellFoundedInduction, TLAPS

CONSTANTS MAX_CPUS,     \* CPUs 0 .. MAX_CPUS - 1; CPU 0 is the bootstrap one
          MAX_TASKS,    \* slots of the task table
          JobKinds      \* what is spawned: "pinned", "job" (migratable), "user"

ASSUME HotplugAssumption ==
    /\ MAX_CPUS \in Nat \ {0} /\ MAX_TASKS \in Nat \ {0}
    /\ JobKinds \subseteq {"pinned", "job", "user"}

CPU == 0 .. MAX_CPUS - 1
Slot == 0 .. MAX_TASKS - 1
NoSlot == MAX_TASKS

VARIABLES online,   \* ONLINE
          count,    \* COUNT
          state,    \* OFFLINE_STATE
          request,  \* HOTPLUG_REQUEST and what its holder is doing
          ap,       \* where each CPU is
          ipi,      \* a reschedule interrupt is pending at the CPU
          task,     \* the task table
          cur,      \* current_slot
          shoot,    \* SHOOT_LOCK's shootdown: initiator, mask, acknowledged
          stale,    \* the CPUs whose mapping change each CPU has not flushed
          missed    \* history: CPUs that rejoined with such a translation

hotplugVars ==
    <<online, count, state, request, ap, ipi, task, cur, shoot, stale, missed>>

NoTask == [name |-> "none", state |-> "Empty", cpu |-> 0, mask |-> {},
           ran |-> FALSE]
IdleTask(c) == [name |-> "idle", state |-> "Running", cpu |-> c, mask |-> {c},
                ran |-> TRUE]

NoShoot == [by |-> MAX_CPUS, mask |-> {}, acked |-> {}]
NoRequest == [held |-> FALSE, kind |-> "none", cpu |-> 0, phase |-> "none",
              saved |-> 0]

HotplugInit ==
    /\ online = {0}
    /\ count = 1
    /\ state = [c \in CPU |-> 0]
    /\ request = NoRequest
    /\ ap = [c \in CPU |-> IF c = 0 THEN "running" ELSE "reset"]
    /\ ipi = {}
    /\ task = [s \in Slot |-> IF s = 0 THEN IdleTask(0) ELSE NoTask]
    /\ cur = [c \in CPU |-> IF c = 0 THEN 0 ELSE NoSlot]
    /\ shoot = NoShoot
    /\ stale = [c \in CPU |-> {}]
    /\ missed = {}

-----------------------------------------------------------------------------
\* The masks and the task table.

cpu_is_schedulable(c) == c \in online /\ state[c] \notin {1, 2, 6, 8}

schedulable_mask == {c \in CPU : cpu_is_schedulable(c)}

Live(t) == t.state \notin {"Empty", "Dead"}

Migratable(t) == t.name \in {"job", "user"}

\* Ring-3 work moves only before its first dispatch.
Movable(t) == Migratable(t) /\ ~(t.name = "user" /\ t.ran)

FreeSlots == {s \in Slot : task[s].state = "Empty"}

\* evacuate_cpu: whether slot s may lose CPU c, and what it becomes.
Concerned(s, c) == /\ Live(task[s]) /\ task[s].name # "idle"
                   /\ task[s].cpu = c \/ c \in task[s].mask

CanLeave(s, c) ==
    LET t == task[s]
    IN  /\ t.mask \ {c} # {}
        /\ IF t.cpu = c
           THEN /\ t.state \in {"Running", "Switching"} => s = cur[c]
                /\ Movable(t)
                /\ (schedulable_mask \ {c}) \cap t.mask # {}
           ELSE Migratable(t)

Moved(s, c) ==
    LET t == task[s]
    IN  IF t.state = "Dead" /\ t.cpu = c
        THEN [t EXCEPT !.cpu = 0, !.mask = {0}]
        ELSE IF ~Concerned(s, c) \/ (t.cpu = c /\ s = cur[c]) THEN t
        ELSE [t EXCEPT !.mask = @ \ {c},
                       !.cpu = IF @ = c
                               THEN Min((schedulable_mask \ {c}) \cap t.mask)
                               ELSE @]

CanEvacuate(c) == \A s \in Slot : Concerned(s, c) => CanLeave(s, c)

Evacuated(c) == [s \in Slot |-> Moved(s, c)]

-----------------------------------------------------------------------------
\* Scheduling, on the CPUs that run tasks.

Runnable(c) == {s \in Slot : /\ task[s].state = "Ready"
                             /\ task[s].cpu = c /\ c \in task[s].mask}

\* The idle tasks have the lowest priority.
Best(c) == LET jobs == {s \in Runnable(c) : task[s].name # "idle"}
           IN  IF jobs # {} THEN jobs ELSE Runnable(c)

\* reap_dead, then the choice of prepare_switch.
Reaped(c) == [s \in Slot |->
                 IF s # cur[c] /\ task[s].state = "Dead" /\ task[s].cpu = c
                 THEN NoTask ELSE task[s]]

\* The current task leaves its CPU as `after`, and another is dispatched.
Dispatch(c, after) ==
    \E s \in Best(c) :
        /\ task' = [Reaped(c) EXCEPT ![cur[c]].state = after,
                                     ![s].state = "Running",
                                     ![s].ran = TRUE]
        /\ cur' = [cur EXCEPT ![c] = s]

Preempt(c) == /\ ap[c] = "running"
              /\ Dispatch(c, "Switching")
              /\ ap' = [ap EXCEPT ![c] = "switching"]
              /\ UNCHANGED <<online, count, state, request, ipi, shoot, stale, missed>>

\* finalize_switch, on the incoming stack.
FinishSwitch(c) ==
    /\ ap[c] = "switching"
    /\ task' = [s \in Slot |->
                   IF task[s].state = "Switching" /\ task[s].cpu = c
                   THEN [task[s] EXCEPT !.state = "Ready"] ELSE task[s]]
    /\ ap' = [ap EXCEPT ![c] = "running"]
    /\ UNCHANGED <<online, count, state, request, ipi, cur, shoot, stale, missed>>

Sleep(c) == /\ ap[c] = "running"
            /\ task[cur[c]].name # "idle"
            /\ \E after \in {"Blocked", "Dead"} : Dispatch(c, after)
            /\ UNCHANGED <<online, count, state, request, ap, ipi, shoot, stale, missed>>

Wake(s) == /\ task[s].state = "Blocked"
           /\ task' = [task EXCEPT ![s].state = "Ready"]
           /\ UNCHANGED <<online, count, state, request, ap, ipi, cur, shoot, stale, missed>>

\* spawn_on, spawn_migratable_on, spawn_parallel: the mask is the one read
\* before the scheduler lock, checked again under it.
Spawn(c, kind) ==
    /\ cpu_is_schedulable(c)
    /\ FreeSlots # {}
    /\ task' = [task EXCEPT ![Min(FreeSlots)] =
                   [name |-> kind, state |-> "Ready", cpu |-> c, ran |-> FALSE,
                    mask |-> IF kind = "pinned" THEN {c} ELSE schedulable_mask]]
    /\ ipi' = ipi \cup ({c} \ {0})
    /\ UNCHANGED <<online, count, state, request, ap, cur, shoot, stale, missed>>

\* migrate_ready_task, and the transfers of rebalance_one.
Migrate(s, c) ==
    /\ cpu_is_schedulable(c)
    /\ task[s].state = "Ready" /\ Migratable(task[s]) /\ c \in task[s].mask
    /\ task' = [task EXCEPT ![s].cpu = c]
    /\ UNCHANGED <<online, count, state, request, ap, ipi, cur, shoot, stale, missed>>

\* set_ready_task_affinity.
SetAffinity(s, mask) ==
    /\ mask # {} /\ mask \subseteq schedulable_mask
    /\ task[s].state = "Ready" /\ Migratable(task[s])
    /\ task' = [task EXCEPT ![s].mask = mask,
                            ![s].cpu = IF @ \in mask THEN @ ELSE Min(mask)]
    /\ UNCHANGED <<online, count, state, request, ap, ipi, cur, shoot, stale, missed>>

-----------------------------------------------------------------------------
\* Boot: start brings the APs up one after the other and publishes the count
\* once, at the end; until then CPU 0 does nothing else.

Booting == \E c \in CPU : ap[c] \in {"reset", "initialising"}

\* ap_main publishes the CPU before its idle task exists.
ApMain(c) == /\ ap[c] = "reset"
             /\ \A d \in 1 .. c - 1 : ap[d] # "reset"
             /\ online' = online \cup {c}
             /\ ap' = [ap EXCEPT ![c] = "initialising"]
             /\ UNCHANGED <<count, state, request, ipi, task, cur, shoot, stale, missed>>

InitAp(c) == /\ ap[c] = "initialising"
             /\ FreeSlots # {}
             /\ task' = [task EXCEPT ![Min(FreeSlots)] = IdleTask(c)]
             /\ cur' = [cur EXCEPT ![c] = Min(FreeSlots)]
             /\ ap' = [ap EXCEPT ![c] = "running"]
             /\ count' = IF c = MAX_CPUS - 1 THEN MAX_CPUS ELSE count
             /\ UNCHANGED <<online, state, request, ipi, shoot, stale, missed>>

-----------------------------------------------------------------------------
\* The requester.  HotplugRequestGuard admits one at a time.

\* request_cpu_offline up to prepare_cpu_offline.
RequestOffline(c) ==
    /\ ~request.held /\ ~Booting
    /\ c # 0 /\ c \in online
    /\ state[c] \in {0, 7}
    /\ CanEvacuate(c)
    /\ task' = Evacuated(c)
    /\ request' = [held |-> TRUE, kind |-> "offline", cpu |-> c,
                   phase |-> "prepared", saved |-> state[c]]
    /\ UNCHANGED <<online, count, state, ap, ipi, cur, shoot, stale, missed>>

PublishOffline ==
    /\ request.phase = "prepared"
    /\ state' = [state EXCEPT ![request.cpu] = 1]
    /\ ipi' = ipi \cup {request.cpu}
    /\ request' = [request EXCEPT !.phase = "waiting"]
    /\ UNCHANGED <<online, count, ap, task, cur, shoot, stale, missed>>

\* request_cpu_online; the wake-up follows the published request.
RequestOnline(c) ==
    /\ ~request.held
    /\ c # 0 /\ state[c] = 5
    /\ state' = [state EXCEPT ![c] = 6]
    /\ request' = [held |-> TRUE, kind |-> "online", cpu |-> c,
                   phase |-> "published", saved |-> 5]
    /\ UNCHANGED <<online, count, ap, ipi, task, cur, shoot, stale, missed>>

\* wake_offline_cpu: an interrupt, unless the AP has claimed or even ended it.
WakeAp ==
    /\ request.phase = "published"
    /\ ipi' = IF state[request.cpu] = 6 THEN ipi \cup {request.cpu} ELSE ipi
    /\ request' = [request EXCEPT !.phase = "waiting"]
    /\ UNCHANGED <<online, count, state, ap, task, cur, shoot, stale, missed>>

Requested == IF request.kind = "offline" THEN 1 ELSE 6
Done == IF request.kind = "offline" THEN 5 ELSE 7
Rejected == IF request.kind = "offline" THEN 3 ELSE 9

\* A terminal state releases the guard; a rejection is rearmed first.
Observe ==
    /\ request.phase = "waiting"
    /\ state[request.cpu] \in {Done, Rejected}
    /\ state' = IF state[request.cpu] = Rejected
                THEN [state EXCEPT ![request.cpu] = request.saved] ELSE state
    /\ request' = NoRequest
    /\ UNCHANGED <<online, count, ap, ipi, task, cur, shoot, stale, missed>>

\* Mutant: the timeout stores the old state whatever the AP has done since.
StoreOnTimeoutMutant == state[request.cpu] \notin {Done, Rejected}

\* cancel_unclaimed's compare-exchange.
Unclaimed == state[request.cpu] = Requested

\* HOTPLUG_TIMEOUT_CYCLES.
Timeout ==
    /\ request.phase = "waiting"
    /\ Unclaimed
    /\ state' = [state EXCEPT ![request.cpu] = request.saved]
    /\ request' = NoRequest
    /\ UNCHANGED <<online, count, ap, ipi, task, cur, shoot, stale, missed>>

\* HOTPLUG_CLAIMED_TIMEOUT_CYCLES: the guard is forgotten, not released.
Poison ==
    /\ request.phase = "waiting"
    /\ state[request.cpu] \notin {Requested, Done, Rejected}
    /\ request' = [request EXCEPT !.phase = "poisoned"]
    /\ UNCHANGED <<online, count, state, ap, ipi, task, cur, shoot, stale, missed>>

-----------------------------------------------------------------------------
\* The AP's own checkpoints, called between the tasks it runs.

AtIdle(c) == ap[c] = "running" /\ task[cur[c]].name = "idle"

\* offline_checkpoint masks interrupts and claims the request.
ClaimOffline(c) ==
    /\ AtIdle(c) /\ state[c] = 1
    /\ state' = [state EXCEPT ![c] = 2]
    /\ ap' = [ap EXCEPT ![c] = "leaving"]
    /\ UNCHANGED <<online, count, request, ipi, task, cur, shoot, stale, missed>>

\* Mutant: the plan made when the request was prepared is trusted.
StalePlanMutant(c) == task

\* offline_cpu_checkpoint evacuates again: work may have arrived since.
Revalidated(c) == Evacuated(c)

Leave(c) ==
    /\ ap[c] = "leaving"
    /\ IF CanEvacuate(c)
       THEN /\ task' = [Revalidated(c) EXCEPT
                           ![cur[c]] = [@ EXCEPT !.state = "Dead", !.cpu = 0,
                                            !.name = "offline-idle", !.mask = {0}]]
            /\ ap' = [ap EXCEPT ![c] = "withdrawing"]
            /\ UNCHANGED state
       ELSE /\ state' = [state EXCEPT ![c] = 3]
            /\ ap' = [ap EXCEPT ![c] = "running"]
            /\ UNCHANGED task
    /\ UNCHANGED <<online, count, request, ipi, cur, shoot, stale, missed>>

\* lock_shootdown: no shootdown is waiting for acknowledgements.
ShootUnlocked == shoot = NoShoot

Withdraw(c) ==
    /\ ap[c] \in {"withdrawing", "retracting"}
    /\ ShootUnlocked
    /\ online' = online \ {c}
    /\ count' = count - 1
    /\ ap' = [ap EXCEPT ![c] = IF @ = "withdrawing" THEN "out" ELSE "refused"]
    /\ UNCHANGED <<state, request, ipi, task, cur, shoot, stale, missed>>

\* State 5, then sti and hlt as one step: a pending interrupt ends the halt.
Park(c) ==
    /\ ap[c] = "out"
    /\ state' = [state EXCEPT ![c] = 5]
    /\ ap' = [ap EXCEPT ![c] = "parked"]
    /\ UNCHANGED <<online, count, request, ipi, task, cur, shoot, stale, missed>>

\* The handler finds nothing ready for a parked CPU and returns.
Interrupted(c) ==
    /\ ap[c] \in {"parked", "dozing"} /\ c \in ipi
    /\ ipi' = ipi \ {c}
    /\ ap' = [ap EXCEPT ![c] = IF @ = "parked" THEN "awake" ELSE @]
    /\ UNCHANGED <<online, count, state, request, task, cur, shoot, stale, missed>>

\* online_checkpoint: nothing to do, or the claim.  Interrupts are on between
\* the refusal and the next hlt.
CheckOnline(c) ==
    /\ ap[c] = "awake"
    /\ IF state[c] = 6
       THEN /\ state' = [state EXCEPT ![c] = 8]
            /\ ap' = [ap EXCEPT ![c] = "joining"]
       ELSE /\ ap' = [ap EXCEPT ![c] = "dozing"]
            /\ UNCHANGED state
    /\ UNCHANGED <<online, count, request, ipi, task, cur, shoot, stale, missed>>

Halt(c) ==
    /\ ap[c] = "dozing"
    /\ ap' = [ap EXCEPT ![c] = "parked"]
    /\ UNCHANGED <<online, count, state, request, ipi, task, cur, shoot, stale, missed>>

\* The CPU is published before its idle task; its TLB is not flushed.
Publish(c) ==
    /\ ap[c] = "joining"
    /\ ShootUnlocked
    /\ online' = online \cup {c}
    /\ count' = count + 1
    /\ ap' = [ap EXCEPT ![c] = "published"]
    /\ missed' = IF stale[c] # {} THEN missed \cup {c} ELSE missed
    /\ stale' = [stale EXCEPT ![c] = {}]
    /\ UNCHANGED <<state, request, ipi, task, cur, shoot>>

IdleSlots == {s \in Slot : \/ task[s].state = "Empty"
                           \/ task[s].state = "Dead" /\ task[s].name = "offline-idle"}

\* online_cpu_checkpoint; with no slot left the publication is taken back.
Join(c) ==
    /\ ap[c] = "published"
    /\ IF IdleSlots # {}
       THEN /\ task' = [task EXCEPT ![Min(IdleSlots)] = IdleTask(c)]
            /\ cur' = [cur EXCEPT ![c] = Min(IdleSlots)]
            /\ state' = [state EXCEPT ![c] = 7]
            /\ ap' = [ap EXCEPT ![c] = "running"]
       ELSE /\ ap' = [ap EXCEPT ![c] = "retracting"]
            /\ UNCHANGED <<task, cur, state>>
    /\ UNCHANGED <<online, count, request, ipi, shoot, stale, missed>>

Refuse(c) ==
    /\ ap[c] = "refused"
    /\ state' = [state EXCEPT ![c] = 9]
    /\ ap' = [ap EXCEPT ![c] = "dozing"]
    /\ UNCHANGED <<online, count, request, ipi, task, cur, shoot, stale, missed>>

\* A reschedule interrupt at a CPU that runs: Preempt is its effect.
TakeIpi(c) ==
    /\ ap[c] = "running" /\ c \in ipi
    /\ ipi' = ipi \ {c}
    /\ UNCHANGED <<online, count, state, request, ap, task, cur, shoot, stale, missed>>

-----------------------------------------------------------------------------
\* Shootdowns.  A CPU that changed a mapping has flushed its own copy.

ChangeMapping(c) ==
    /\ ap[c] = "running" /\ ~Booting
    /\ ap' = [ap EXCEPT ![c] = "changed"]
    /\ stale' = [d \in CPU |-> IF d = c THEN stale[d] ELSE stale[d] \cup {c}]
    /\ UNCHANGED <<online, count, state, request, ipi, task, cur, shoot, missed>>

\* Mutant: CPUs that are leaving or joining are not asked.
SchedulableOnlyMutant == schedulable_mask

online_mask == online

\* Under the lock: snapshot the mask, bump the generation, flush here, send
\* the interrupts; alone, return at once.
BeginShootdown(c) ==
    /\ ap[c] = "changed" /\ ShootUnlocked
    /\ IF Cardinality(online_mask) <= 1
       THEN /\ ap' = [ap EXCEPT ![c] = "running"]
            /\ UNCHANGED <<shoot, stale, missed>>
       ELSE /\ shoot' = [by |-> c, mask |-> online_mask, acked |-> {c}]
            /\ stale' = [stale EXCEPT ![c] = {}]
            /\ missed' = missed \ {c}
            /\ ap' = [ap EXCEPT ![c] = "shooting"]
    /\ UNCHANGED <<online, count, state, request, ipi, task, cur>>

\* acknowledge_tlb in the NMI handler, wherever the CPU is.
Acknowledge(c) ==
    /\ c \in shoot.mask \ shoot.acked
    /\ shoot' = [shoot EXCEPT !.acked = @ \cup {c}]
    /\ stale' = [stale EXCEPT ![c] = {}]
    /\ missed' = missed \ {c}
    /\ UNCHANGED <<online, count, state, request, ap, ipi, task, cur>>

EndShootdown(c) ==
    /\ ap[c] = "shooting"
    /\ shoot.mask \subseteq shoot.acked
    /\ shoot' = NoShoot
    /\ ap' = [ap EXCEPT ![c] = "running"]
    /\ UNCHANGED <<online, count, state, request, ipi, task, cur, stale, missed>>

-----------------------------------------------------------------------------
CpuStep(c) ==
    \/ Preempt(c) \/ FinishSwitch(c) \/ Sleep(c) \/ ApMain(c) \/ InitAp(c)
    \/ ClaimOffline(c) \/ Leave(c) \/ Withdraw(c) \/ Park(c) \/ Interrupted(c)
    \/ CheckOnline(c) \/ Halt(c) \/ Publish(c) \/ Join(c) \/ Refuse(c) \/ TakeIpi(c)
    \/ ChangeMapping(c) \/ BeginShootdown(c) \/ Acknowledge(c) \/ EndShootdown(c)

RequesterStep == PublishOffline \/ WakeAp \/ Observe \/ Timeout \/ Poison

HotplugNext ==
    \/ \E c \in CPU : CpuStep(c)
    \/ RequesterStep
    \/ \E c \in CPU : RequestOffline(c) \/ RequestOnline(c)
    \/ \E s \in Slot : Wake(s) \/ (\E c \in CPU : Migrate(s, c))
                               \/ (\E mask \in SUBSET CPU : SetAffinity(s, mask))
    \/ ~Booting /\ (\E c \in CPU, kind \in JobKinds : Spawn(c, kind))

HotplugSpec == HotplugInit /\ [][HotplugNext]_hotplugVars

-----------------------------------------------------------------------------
(* What Scheduler::validate_affinity_invariants asserts whenever a CPU     *)
(* schedules: a live task is owned by an online CPU inside its mask, and   *)
(* the mask names online CPUs only.                                        *)
LiveTasksOnline ==
    \A s \in Slot : Live(task[s]) =>
        /\ task[s].mask # {} /\ task[s].mask \subseteq online
        /\ task[s].cpu \in online \cap task[s].mask

(* When no request is outstanding, whichever of the AP's claim and the     *)
(* requester's timeout came first, every CPU is either parked, out of the  *)
(* online mask, or running with a current task of its own: a transition of *)
(* smp.rs never stays half done.  A poisoned request stays outstanding.    *)
HotplugSettled ==
    (~request.held /\ ~Booting) =>
        \A c \in CPU :
            IF state[c] = 5
            THEN c \notin online /\ ap[c] \in {"parked", "awake", "dozing"}
            ELSE /\ state[c] \in {0, 7} /\ c \in online
                 /\ task[cur[c]].cpu = c /\ Live(task[cur[c]])

(* shootdown_inner returns only when every online CPU has flushed the      *)
(* change it was called for, a CPU that is leaving or joining included.    *)
(* What a CPU kept cached while it was parked is the exception: nothing in *)
(* online_checkpoint flushes it (history variable missed).                 *)
TranslationsCurrent ==
    \A c \in online : \A a \in stale[c] : ap[a] \in {"changed", "shooting"}

(* offline_checkpoint, online_checkpoint and shootdown_inner: whichever    *)
(* CPUs come and go, live tasks are on online CPUs of their masks, no      *)
(* transition stays half done, and no shootdown returns too early.         *)
HotplugSafe == LiveTasksOnline /\ HotplugSettled /\ TranslationsCurrent

-----------------------------------------------------------------------------
(***************************************************************************)
(* Proofs, for any number of CPUs and of task slots and any kinds of jobs. *)
(*                                                                         *)
(* HotplugSafe is not inductive: it says nothing of a CPU in the middle of *)
(* its protocol.  Phases ties the state word of a CPU and its bit in the   *)
(* online mask to the place of the CPU in offline_checkpoint or            *)
(* online_checkpoint, and allows only the CPU that the outstanding request *)
(* names to be between two places.  TasksHeld says that a task's mask      *)
(* never names a CPU beyond the point where its tasks were evacuated, and  *)
(* that a CPU has one idle task of its own to run there.  Shootdowns says  *)
(* that a CPU with a stale translation is one that the shootdown under way *)
(* still waits for: none comes online or goes in the meantime.             *)
(***************************************************************************)
(* Where a CPU can be (variable ap), in the order it goes through.         *)
Starting == {"reset", "initialising"}
Working == {"running", "switching", "changed", "shooting"}
Leaving == {"leaving", "withdrawing", "out"}
Away == {"parked", "awake", "dozing"}
Joining == {"joining", "published", "retracting", "refused"}
Place == Starting \cup Working \cup Leaving \cup Away \cup Joining

(* The ones where it is in the online mask, and where it has a task.       *)
Attached == Working \cup {"leaving"}
OnlinePlace == Attached \cup {"initialising", "withdrawing", "published", "retracting"}

TaskRecord == [
    name : {"none", "idle", "offline-idle", "pinned", "job", "user"},
    state : {"Empty", "Ready", "Running", "Switching", "Blocked", "Dead"},
    cpu : CPU, mask : SUBSET CPU, ran : BOOLEAN]

RequestRecord == [
    held : BOOLEAN, kind : {"none", "offline", "online"}, cpu : CPU,
    phase : {"none", "prepared", "published", "waiting", "poisoned"},
    saved : {0, 5, 7}]

HotplugTyped ==
    /\ online \in SUBSET CPU
    /\ state \in [CPU -> 0..9]
    /\ request \in RequestRecord
    /\ ap \in [CPU -> Place]
    /\ task \in [Slot -> TaskRecord]
    /\ cur \in [CPU -> Slot \cup {NoSlot}]
    /\ shoot \in [by : CPU \cup {MAX_CPUS}, mask : SUBSET CPU, acked : SUBSET CPU]
    /\ stale \in [CPU -> SUBSET CPU]

(* OFFLINE_STATE and the online mask follow the place of the CPU.          *)
PhaseOf(c) ==
    /\ c \in online <=> ap[c] \in OnlinePlace
    /\ ap[c] \in Starting => state[c] = 0
    /\ ap[c] \in Working => state[c] \in {0, 1, 3, 7}
    /\ ap[c] \in Leaving => state[c] = 2
    /\ ap[c] \in Away => state[c] \in {5, 6, 9}
    /\ ap[c] \in Joining => state[c] = 8

(* What the states of the CPU that a request names can be.                 *)
RequestKept ==
    IF request.held
    THEN /\ request.cpu # 0
         /\ \/ /\ request.kind = "offline" /\ request.phase = "prepared"
               /\ request.saved \in {0, 7} /\ state[request.cpu] = request.saved
            \/ /\ request.kind = "offline" /\ request.phase \in {"waiting", "poisoned"}
               /\ request.saved \in {0, 7} /\ state[request.cpu] \in {1, 2, 3, 5}
            \/ /\ request.kind = "online"
               /\ request.phase \in {"published", "waiting", "poisoned"}
               /\ request.saved = 5 /\ state[request.cpu] \in {6, 7, 8, 9}
    ELSE request = NoRequest

Phases ==
    /\ \A c \in CPU : PhaseOf(c)
    /\ RequestKept
    /\ \A c \in CPU : (request.held /\ c = request.cpu) \/ state[c] \in {0, 5, 7}
    /\ Booting => ~request.held /\ \A c \in CPU : state[c] = 0

(* A live task's mask names CPUs that run tasks, its own among them.       *)
Idle(s) == Live(task[s]) /\ task[s].name = "idle"

PlacedWell(s) == Live(task[s]) =>
    /\ task[s].cpu \in task[s].mask
    /\ \A c \in task[s].mask : ap[c] \in Attached
    /\ task[s].name = "idle" => task[s].mask = {task[s].cpu}

IdleOnce(s, r) == s # r /\ Idle(s) /\ Idle(r) => task[s].cpu # task[r].cpu

Current(c) == ap[c] \in Attached =>
    /\ cur[c] \in Slot
    /\ task[cur[c]].state = "Running" /\ task[cur[c]].cpu = c
    /\ ap[c] = "leaving" => task[cur[c]].name = "idle"

TasksHeld ==
    /\ \A s \in Slot : PlacedWell(s)
    /\ \A s, r \in Slot : IdleOnce(s, r)
    /\ \A c \in CPU : Current(c)
    /\ Booting => \A s \in Slot : Live(task[s]) => task[s].name = "idle"

(* A shootdown reaches every CPU that was online when it began, and no CPU *)
(* comes or goes before it ends.                                           *)
Shootdowns ==
    /\ \A c \in CPU : c \notin stale[c]
    /\ \A c \in online : \A a \in stale[c] : ap[a] \in {"changed", "shooting"}
    /\ \A c \in CPU : ap[c] = "shooting" <=> shoot.by = c
    /\ shoot.by = MAX_CPUS => shoot = NoShoot
    /\ shoot # NoShoot => online \subseteq shoot.mask
    /\ \A c \in CPU : ap[c] = "shooting" => \A d \in shoot.acked : c \notin stale[d]
    /\ Booting => \A c \in CPU : stale[c] = {} /\ ap[c] \notin {"changed", "shooting"}

HotplugInv == HotplugTyped /\ Phases /\ TasksHeld /\ Shootdowns
----------------------------------------------------------------------------
(* Every non-empty set of naturals has a smallest element.                 *)
LEMMA SmallestIn ==
    ASSUME NEW S, S \subseteq Nat, S # {}
    PROVE  Min(S) \in S
<1>1. \E x \in S : \A y \in S : ~(<<y, x>> \in OpToRel(<, Nat))
  BY NatLessThanWellFounded, WFMin
<1>2. \A x, y \in Nat : y < x => <<y, x>> \in OpToRel(<, Nat)
  BY Zenon DEF OpToRel
<1>3. PICK x \in S : \A y \in S : ~(y < x)
  BY <1>1, <1>2, Zenon
<1>4. \A y \in S : x <= y
  BY <1>3
<1> QED BY Zenon, <1>4 DEF Min

(* The first slot of the table, or the lowest CPU, that a set names.       *)
LEMMA LowestSlot ==
    ASSUME NEW S, S \subseteq Slot, S # {}
    PROVE  Min(S) \in S
<1>1. Slot \subseteq Nat
  BY HotplugAssumption DEF Slot
<1> QED BY Zenon, <1>1, SmallestIn

(* The lowest-numbered CPU of a non-empty set is one of it.                *)
LEMMA LowestCpu ==
    ASSUME NEW S, S \subseteq CPU, S # {}
    PROVE  Min(S) \in S
<1>1. CPU \subseteq Nat
  BY HotplugAssumption DEF CPU
<1> QED BY Zenon, <1>1, SmallestIn

(* The bootstrap CPU and slot exist, and the values for none are none.     *)
LEMMA Numbers == /\ 0 \in CPU /\ 0 \in Slot /\ NoSlot \notin Slot /\ MAX_CPUS \notin CPU
                 /\ MAX_CPUS # 0
  BY HotplugAssumption DEF CPU, Slot, NoSlot

(* The initial values have their types.                                    *)
LEMMA Records ==
    /\ NoTask \in TaskRecord
    /\ \A c \in CPU : IdleTask(c) \in TaskRecord
    /\ NoRequest \in RequestRecord
    /\ NoShoot \in [by : CPU \cup {MAX_CPUS}, mask : SUBSET CPU, acked : SUBSET CPU]
  BY Numbers DEF NoTask, IdleTask, TaskRecord, NoRequest, RequestRecord, NoShoot

(* The invariant holds when the bootstrap CPU starts the others.           *)
LEMMA HotplugInitKeeps == HotplugInit => HotplugInv
<1> SUFFICES ASSUME HotplugInit PROVE HotplugInv
  OBVIOUS
<1>1. HotplugTyped
  BY Numbers, Records DEF HotplugInit, HotplugTyped, Place, Starting, Working, Leaving, Away, Joining
<1>2. Phases
  BY Numbers DEF HotplugInit, Phases, PhaseOf, RequestKept, NoRequest, Starting, Working, Leaving,
     Away, Joining, Attached, OnlinePlace
<1>3. TasksHeld
  <2>1. \A s \in Slot : Live(task[s]) => s = 0 /\ task[s] = IdleTask(0)
    BY DEF HotplugInit, Live, NoTask
  <2>2. \A c \in CPU : ap[c] \in Attached => c = 0
    BY DEF HotplugInit, Attached, Working
  <2>3. ap[0] = "running" /\ cur[0] = 0 /\ task[0] = IdleTask(0)
    BY Numbers DEF HotplugInit
  <2>4. \A s \in Slot : PlacedWell(s)
    BY <2>1, <2>3 DEF PlacedWell, IdleTask, Attached, Working
  <2>5. \A s, r \in Slot : IdleOnce(s, r)
    BY <2>1 DEF IdleOnce, Idle
  <2>6. \A c \in CPU : Current(c)
    BY <2>2, <2>3, Numbers DEF Current, IdleTask
  <2>7. \A s \in Slot : Live(task[s]) => task[s].name = "idle"
    BY <2>1 DEF IdleTask
  <2> QED BY <2>4, <2>5, <2>6, <2>7 DEF TasksHeld
<1>4. Shootdowns
  BY Numbers DEF HotplugInit, Shootdowns, NoShoot
<1> QED BY <1>1, <1>2, <1>3, <1>4 DEF HotplugInv

(* A request, and a shootdown, as the operations write them.               *)
LEMMA RequestFields ==
    ASSUME request \in RequestRecord
    PROVE  /\ request.held \in BOOLEAN /\ request.cpu \in CPU /\ request.saved \in {0, 5, 7}
           /\ \A p \in {"waiting", "poisoned"} : [request EXCEPT !.phase = p] \in RequestRecord
  BY DEF RequestRecord

(* evacuate_cpu moves a task within its mask.                              *)
LEMMA MovedFields ==
    ASSUME HotplugTyped, NEW c \in CPU, CanEvacuate(c), NEW s \in Slot
    PROVE  /\ Moved(s, c) \in TaskRecord
           /\ Moved(s, c).state = task[s].state /\ Moved(s, c).name = task[s].name
           /\ Live(task[s]) /\ (~Concerned(s, c) \/ (task[s].cpu = c /\ s = cur[c]))
                => Moved(s, c) = task[s]
           /\ Live(task[s]) /\ Concerned(s, c) /\ ~(task[s].cpu = c /\ s = cur[c])
                => /\ Moved(s, c).mask = task[s].mask \ {c}
                   /\ task[s].cpu # c => Moved(s, c).cpu = task[s].cpu
                   /\ task[s].cpu = c => Moved(s, c).cpu \in task[s].mask \ {c}
<1> DEFINE t == task[s]
           m == (schedulable_mask \ {c}) \cap t.mask
<1>1. t \in TaskRecord /\ t.mask \subseteq CPU /\ t.cpu \in CPU /\ 0 \in CPU
  BY Numbers DEF HotplugTyped, TaskRecord
<1>2. CASE t.state = "Dead" /\ t.cpu = c
  BY Zenon, <1>1, <1>2 DEF Moved, Live, TaskRecord
<1>3. CASE ~(t.state = "Dead" /\ t.cpu = c) /\ (~Concerned(s, c) \/ (t.cpu = c /\ s = cur[c]))
  BY <1>1, <1>3 DEF Moved
<1>4. CASE Concerned(s, c) /\ ~(t.cpu = c /\ s = cur[c])
  <2>1. Live(t)
    BY <1>4 DEF Concerned
  <2>2. t.cpu = c => Min(m) \in t.mask \ {c} /\ Min(m) \in CPU
    <3> SUFFICES ASSUME t.cpu = c PROVE Min(m) \in t.mask \ {c} /\ Min(m) \in CPU
      OBVIOUS
    <3>1. m # {} /\ m \subseteq CPU
      BY <1>1, <1>4 DEF CanEvacuate, CanLeave
    <3>2. Min(m) \in m
      BY <3>1, LowestCpu
    <3> QED BY <3>1, <3>2
  <2>3. Moved(s, c) = [t EXCEPT !.mask = t.mask \ {c}, !.cpu = IF t.cpu = c THEN Min(m) ELSE t.cpu]
    BY <1>4, <2>1 DEF Moved, Live
  <2> HIDE DEF m
  <2>4. Moved(s, c) \in TaskRecord
    BY Zenon, <1>1, <2>2, <2>3 DEF TaskRecord
  <2>5. /\ Moved(s, c).state = t.state /\ Moved(s, c).name = t.name
        /\ Moved(s, c).mask = t.mask \ {c}
        /\ Moved(s, c).cpu = IF t.cpu = c THEN Min(m) ELSE t.cpu
    BY <1>1, <2>3 DEF TaskRecord
  <2> QED BY <1>4, <2>1, <2>2, <2>4, <2>5
<1> QED BY <1>2, <1>3, <1>4 DEF Concerned

----------------------------------------------------------------------------
(* What a CPU that switches to another task leaves behind.                 *)
Switched(c) ==
    /\ task' \in [Slot -> TaskRecord]
    /\ \E s \in Slot, after \in {"Switching", "Blocked", "Dead"} :
         /\ s # cur[c] /\ task[s].state = "Ready" /\ task[s].cpu = c
         /\ cur' = [cur EXCEPT ![c] = s]
         /\ task'[s] = [task[s] EXCEPT !.state = "Running", !.ran = TRUE]
         /\ task'[cur[c]] = [task[cur[c]] EXCEPT !.state = after]
         /\ \A r \in Slot \ {s, cur[c]} :
               task'[r] = task[r] \/ (task[r].state = "Dead" /\ task'[r] = NoTask)

(* The table after a dispatch and after an interrupt.                      *)
LEMMA DispatchTyped ==
    ASSUME HotplugTyped, NEW c \in CPU, Current(c), ap[c] = "running",
           NEW after \in {"Switching", "Blocked", "Dead"}, Dispatch(c, after)
    PROVE  Switched(c)
<1> DEFINE old == cur[c]
<1>1. old \in Slot /\ task[old].state = "Running"
  BY DEF Current, Attached, Working
<1>2. PICK s \in Best(c) :
        /\ task' = [Reaped(c) EXCEPT ![old].state = after, ![s].state = "Running", ![s].ran = TRUE]
        /\ cur' = [cur EXCEPT ![c] = s]
  BY Zenon DEF Dispatch
<1>3. s \in Slot /\ task[s].state = "Ready" /\ task[s].cpu = c
  BY DEF Best, Runnable
<1>4. s # old
  BY <1>1, <1>3
<1>5. /\ \A r \in Slot : task[r] \in TaskRecord
      /\ Reaped(c) = [r \in Slot |-> IF r # old /\ task[r].state = "Dead" /\ task[r].cpu = c
                                     THEN NoTask ELSE task[r]]
  BY DEF HotplugTyped, Reaped
<1>6. Reaped(c)[old] = task[old] /\ Reaped(c)[s] = task[s]
  BY <1>1, <1>3, <1>5
<1>7. /\ task'[s] = [task[s] EXCEPT !.state = "Running", !.ran = TRUE]
      /\ task'[old] = [task[old] EXCEPT !.state = after]
      /\ \A r \in Slot \ {s, old} : task'[r] = Reaped(c)[r]
      /\ DOMAIN task' = Slot
  BY Zenon, <1>1, <1>2, <1>3, <1>4, <1>5, <1>6 DEF TaskRecord
<1>8. task'[s] \in TaskRecord /\ task'[old] \in TaskRecord
  BY Zenon, <1>1, <1>3, <1>5, <1>7 DEF TaskRecord
<1>9. \A r \in Slot \ {s, old} : task'[r] \in TaskRecord
  BY <1>5, <1>7, Records
<1>10. task' = [r \in Slot |-> task'[r]]
  <2>1. task' = [r \in DOMAIN task' |-> task'[r]]
    BY Zenon, <1>2, <1>5
  <2> QED BY <2>1, <1>7
<1>11. task' \in [Slot -> TaskRecord]
  BY <1>8, <1>9, <1>10
<1>12. \A r \in Slot \ {s, old} : task'[r] = task[r] \/ (task[r].state = "Dead" /\ task'[r] = NoTask)
  BY <1>5, <1>7
<1>13. cur' = [cur EXCEPT ![c] = s]
  BY <1>2
<1> HIDE DEF old
<1> QED BY Zenon, <1>3, <1>4, <1>7, <1>11, <1>12, <1>13 DEF Switched, old

(* A dispatch of a CPU switches it to the task that is chosen.             *)
LEMMA Switches ==
    ASSUME HotplugTyped, TasksHeld, NEW c \in CPU, Preempt(c) \/ Sleep(c)
    PROVE  Switched(c)
<1>1. Current(c) /\ ap[c] = "running"
  BY DEF TasksHeld, Preempt, Sleep
<1>2. ASSUME NEW after \in {"Switching", "Blocked", "Dead"}, Dispatch(c, after) PROVE Switched(c)
  BY <1>1, <1>2, DispatchTyped
<1>3. \E after \in {"Switching", "Blocked", "Dead"} : Dispatch(c, after)
  BY DEF Preempt, Sleep
<1> QED BY <1>2, <1>3

(* The updates of one field of a task.                                     *)
LEMMA TaskUpdates ==
    ASSUME HotplugTyped, NEW s \in Slot, NEW c \in CPU
    PROVE  /\ \A st \in {"Ready", "Dead"} : [task[s] EXCEPT !.state = st] \in TaskRecord
           /\ [task[s] EXCEPT !.cpu = c] \in TaskRecord
           /\ \A m \in SUBSET CPU : [task[s] EXCEPT !.mask = m, !.cpu = c] \in TaskRecord
           /\ [task[s] EXCEPT !.state = "Dead", !.cpu = 0, !.name = "offline-idle", !.mask = {0}]
                \in TaskRecord
<1>1. PICK t \in TaskRecord : t = task[s]
  BY DEF HotplugTyped
<1>2. 0 \in CPU
  BY Numbers
<1>3. /\ \A st \in {"Ready", "Dead"} : [t EXCEPT !.state = st] \in TaskRecord
      /\ [t EXCEPT !.cpu = c] \in TaskRecord
  BY DEF TaskRecord
<1>4. \A m \in SUBSET CPU : [t EXCEPT !.mask = m, !.cpu = c] \in TaskRecord
  BY Zenon DEF TaskRecord
<1>5. [t EXCEPT !.state = "Dead", !.cpu = 0, !.name = "offline-idle", !.mask = {0}] \in TaskRecord
  BY Zenon, <1>2 DEF TaskRecord
<1> QED BY Zenon, <1>1, <1>3, <1>4, <1>5

(* The slot that a new task takes is an empty one.                         *)
LEMMA FreeSlot ==
    /\ FreeSlots # {} => Min(FreeSlots) \in Slot /\ task[Min(FreeSlots)].state = "Empty"
    /\ IdleSlots # {} => /\ Min(IdleSlots) \in Slot
                         /\ ~Live(task[Min(IdleSlots)])
<1>1. FreeSlots \subseteq Slot /\ IdleSlots \subseteq Slot
  BY DEF FreeSlots, IdleSlots
<1>2. FreeSlots # {} => Min(FreeSlots) \in FreeSlots
  BY <1>1, LowestSlot
<1>3. IdleSlots # {} => Min(IdleSlots) \in IdleSlots
  BY <1>1, LowestSlot
<1>4. \A s \in FreeSlots : s \in Slot /\ task[s].state = "Empty"
  BY DEF FreeSlots
<1>5. \A s \in IdleSlots : s \in Slot /\ ~Live(task[s])
  BY DEF IdleSlots, Live
<1> QED BY <1>2, <1>3, <1>4, <1>5

(* What a CPU's new idle task is.                                          *)
LEMMA SpawnedTask ==
    ASSUME HotplugTyped, NEW c \in CPU, NEW kind \in JobKinds
    PROVE  [name |-> kind, state |-> "Ready", cpu |-> c, ran |-> FALSE,
            mask |-> IF kind = "pinned" THEN {c} ELSE schedulable_mask] \in TaskRecord
<1>1. schedulable_mask \subseteq CPU
  BY Zenon DEF schedulable_mask
<1> QED BY <1>1, HotplugAssumption DEF TaskRecord

----------------------------------------------------------------------------
(* Every step keeps the types.                                             *)
LEMMA TypedStep ==
    ASSUME HotplugInv, HotplugNext
    PROVE  HotplugTyped'
<1>0. \A c \in CPU : Preempt(c) \/ Sleep(c) => Switched(c)
  BY Switches DEF HotplugInv
<1> USE DEF HotplugTyped
<1>1. HotplugTyped /\ 0 \in CPU /\ Phases /\ TasksHeld
  BY Numbers DEF HotplugInv
<1>2. ASSUME NEW c \in CPU, Preempt(c) PROVE HotplugTyped'
  <2>1. task' \in [Slot -> TaskRecord] /\ \E s \in Slot : cur' = [cur EXCEPT ![c] = s]
    <3>1. Switched(c)
      BY <1>0, <1>2
    <3> QED BY Zenon, <3>1 DEF Switched
  <2> QED BY <1>1, <1>2, <2>1 DEF Preempt, Place, Starting, Working, Leaving, Away, Joining
<1>3. ASSUME NEW c \in CPU, FinishSwitch(c) PROVE HotplugTyped'
  <2>1. task' \in [Slot -> TaskRecord]
    BY Zenon, <1>1, <1>3, TaskUpdates DEF FinishSwitch
  <2> QED BY <1>1, <1>3, <2>1 DEF FinishSwitch, Place, Starting, Working, Leaving, Away, Joining
<1>4. ASSUME NEW c \in CPU, Sleep(c) PROVE HotplugTyped'
  <2>1. task' \in [Slot -> TaskRecord] /\ \E s \in Slot : cur' = [cur EXCEPT ![c] = s]
    <3>1. Switched(c)
      BY <1>0, <1>4
    <3> QED BY Zenon, <3>1 DEF Switched
  <2> QED BY <1>1, <1>4, <2>1 DEF Sleep
<1>5. ASSUME NEW s \in Slot, Wake(s) PROVE HotplugTyped'
  BY Zenon, <1>1, <1>5, TaskUpdates DEF Wake
<1>6. ASSUME NEW c \in CPU, NEW kind \in JobKinds, Spawn(c, kind) PROVE HotplugTyped'
  BY <1>1, <1>6, SpawnedTask, FreeSlot DEF Spawn
<1>7. ASSUME NEW s \in Slot, NEW c \in CPU, Migrate(s, c) PROVE HotplugTyped'
  BY Zenon, <1>1, <1>7, TaskUpdates DEF Migrate
<1>8. ASSUME NEW s \in Slot, NEW mask \in SUBSET CPU, SetAffinity(s, mask) PROVE HotplugTyped'
  <2> DEFINE to == IF task[s].cpu \in mask THEN task[s].cpu ELSE Min(mask)
  <2>1. Min(mask) \in mask
    BY <1>8, LowestCpu DEF SetAffinity
  <2>2. to \in CPU
    BY <1>1, <2>1
  <2>3. task' = [task EXCEPT ![s] = [task[s] EXCEPT !.mask = mask, !.cpu = to]]
    BY Zenon, <1>1, <1>8 DEF SetAffinity, TaskRecord
  <2> HIDE DEF to
  <2>4. [task[s] EXCEPT !.mask = mask, !.cpu = to] \in TaskRecord
    BY Zenon, <1>1, <2>2, TaskUpdates
  <2> QED BY ZenonT(30), <1>1, <1>8, <2>3, <2>4 DEF SetAffinity
<1>9. ASSUME NEW c \in CPU, ApMain(c) \/ Park(c) \/ Interrupted(c) \/ CheckOnline(c) \/ Halt(c)
                            \/ Refuse(c) \/ TakeIpi(c) \/ ClaimOffline(c) \/ Withdraw(c)
      PROVE HotplugTyped'
  BY <1>1, <1>9 DEF ApMain, Park, Interrupted, CheckOnline, Halt, Refuse, TakeIpi, ClaimOffline, Withdraw,
     Place, Starting, Working, Leaving, Away, Joining
<1>10. ASSUME NEW c \in CPU, InitAp(c) PROVE HotplugTyped'
  BY <1>1, <1>10, FreeSlot, Records DEF InitAp, Place, Starting, Working, Leaving, Away, Joining
<1>11. ASSUME NEW c \in CPU, RequestOffline(c) PROVE HotplugTyped'
  <2>1. task' \in [Slot -> TaskRecord]
    BY <1>1, <1>11, MovedFields DEF RequestOffline, Evacuated
  <2>2. request' \in RequestRecord
    BY <1>11 DEF RequestOffline, RequestRecord
  <2> QED BY <1>1, <1>11, <2>1, <2>2 DEF RequestOffline
<1>12. ASSUME NEW c \in CPU, RequestOnline(c) PROVE HotplugTyped'
  <2>1. request' \in RequestRecord
    BY <1>12 DEF RequestOnline, RequestRecord
  <2> QED BY <1>1, <1>12, <2>1 DEF RequestOnline
<1>13. ASSUME PublishOffline \/ WakeAp \/ Poison PROVE HotplugTyped'
  BY <1>1, <1>13, RequestFields DEF PublishOffline, WakeAp, Poison
<1>14. ASSUME Observe \/ Timeout PROVE HotplugTyped'
  BY <1>1, <1>14, RequestFields, Records DEF Observe, Timeout
<1>15. ASSUME NEW c \in CPU, Leave(c) PROVE HotplugTyped'
  <2>1. ap' \in [CPU -> Place] /\ state' \in [CPU -> 0..9]
    BY <1>1, <1>15 DEF Leave, Place, Starting, Working, Leaving, Away, Joining
  <2>2. task' \in [Slot -> TaskRecord]
    <3>1. CASE CanEvacuate(c)
      <4>1. cur[c] \in Slot
        BY <1>1, <1>15 DEF Leave, TasksHeld, Current, Attached
      <4> DEFINE t == Moved(cur[c], c)
      <4>2. t \in TaskRecord /\ Evacuated(c) \in [Slot -> TaskRecord]
        BY <1>1, <3>1, <4>1, MovedFields DEF Evacuated
      <4>3. task' = [Evacuated(c) EXCEPT ![cur[c]] = [t EXCEPT !.state = "Dead", !.cpu = 0,
                        !.name = "offline-idle", !.mask = {0}]]
        BY Zenon, <1>15, <3>1, <4>1 DEF Leave, Revalidated, Evacuated
      <4>4. [t EXCEPT !.state = "Dead", !.cpu = 0, !.name = "offline-idle", !.mask = {0}] \in TaskRecord
        BY Zenon, <1>1, <4>2 DEF TaskRecord
      <4> QED BY Zenon, <4>2, <4>3, <4>4
    <3>2. CASE ~CanEvacuate(c)
      BY <1>1, <1>15, <3>2 DEF Leave
    <3> QED BY <3>1, <3>2
  <2> QED BY <1>1, <1>15, <2>1, <2>2 DEF Leave
<1>16. ASSUME NEW c \in CPU, Publish(c) \/ ChangeMapping(c) \/ BeginShootdown(c) \/ EndShootdown(c)
       PROVE HotplugTyped'
  BY <1>1, <1>16, Records DEF Publish, ChangeMapping, BeginShootdown, EndShootdown, online_mask, Place, Starting, Working, Leaving, Away, Joining
<1>17. ASSUME NEW c \in CPU, Acknowledge(c) PROVE HotplugTyped'
  BY <1>1, <1>17 DEF Acknowledge
<1>18. ASSUME NEW c \in CPU, Join(c) PROVE HotplugTyped'
  <2>1. ap' \in [CPU -> Place] /\ state' \in [CPU -> 0..9]
    BY <1>1, <1>18 DEF Join, Place, Starting, Working, Leaving, Away, Joining
  <2>2. task' \in [Slot -> TaskRecord] /\ cur' \in [CPU -> Slot \cup {NoSlot}]
    BY <1>1, <1>18, FreeSlot, Records DEF Join
  <2> QED BY <1>1, <1>18, <2>1, <2>2 DEF Join
<1> QED BY Zenon, <1>2, <1>3, <1>4, <1>5, <1>6, <1>7, <1>8, <1>9, <1>10, <1>11, <1>12, <1>13, <1>14,
           <1>15, <1>16, <1>17, <1>18 DEF HotplugNext, CpuStep, RequesterStep

----------------------------------------------------------------------------
(* A step of one CPU leaves the phases of the others alone.                *)
Elsewhere(c) == \A d \in CPU \ {c} :
    state'[d] = state[d] /\ ap'[d] = ap[d] /\ (d \in online' <=> d \in online)

(* The updates of the place of one CPU.                                    *)
LEMMA OneCpu ==
    ASSUME Phases, NEW c \in CPU, Elsewhere(c), PhaseOf(c)',
           ap'[c] \in Starting => ap[c] \in Starting
    PROVE  (\A d \in CPU : PhaseOf(d)') /\ (Booting' => Booting)
<1>1. \A d \in CPU \ {c} : PhaseOf(d)'
  BY DEF Phases, PhaseOf, Elsewhere
<1>2. Booting' => Booting
  BY DEF Booting, Elsewhere, Starting
<1> QED BY <1>1, <1>2

(* A CPU that claims, rejects or finishes a request moves its own state    *)
(* where the request expects it.                                           *)
Answers(c, to) ==
    /\ request' = request
    /\ state' = [state EXCEPT ![c] = to]
    /\ \/ state[c] \in {1, 2, 3} /\ to \in {2, 3, 5}
       \/ state[c] \in {6, 8, 9} /\ to \in {7, 8, 9}

(* A CPU that moves on in its protocol and answers the request for it.     *)
LEMMA AnswersKeep ==
    ASSUME HotplugTyped, Phases, NEW c \in CPU, NEW to \in {2, 3, 5, 7, 8, 9}, Answers(c, to),
           Elsewhere(c), PhaseOf(c)', ap'[c] \notin Starting
    PROVE  Phases'
<1>1. (\A d \in CPU : PhaseOf(d)') /\ (Booting' => Booting)
  BY OneCpu
<1>2. request.held /\ c = request.cpu
  BY DEF Phases, Answers
<1>3. ~Booting
  BY <1>2 DEF Phases
<1>4. state'[c] = to /\ state'[request.cpu] = to /\ \A d \in CPU \ {c} : state'[d] = state[d]
  BY <1>2 DEF HotplugTyped, Answers
<1>5. RequestKept'
  BY <1>2, <1>4 DEF Phases, RequestKept, Answers
<1> QED BY <1>1, <1>2, <1>3, <1>4, <1>5 DEF Phases, Answers

(* A CPU that moves without touching its state.                            *)
LEMMA MovesKeep ==
    ASSUME HotplugTyped, Phases, NEW c \in CPU, UNCHANGED <<state, request>>,
           Elsewhere(c), PhaseOf(c)', ap'[c] \in Starting => ap[c] \in Starting
    PROVE  Phases'
<1>1. (\A d \in CPU : PhaseOf(d)') /\ (Booting' => Booting)
  BY OneCpu
<1>2. RequestKept'
  BY DEF Phases, RequestKept
<1> QED BY <1>1, <1>2 DEF Phases

(* Every step keeps the states, the masks and the request together.        *)
LEMMA PhasesStep ==
    ASSUME HotplugInv, HotplugNext
    PROVE  Phases'
<1>1. HotplugTyped /\ Phases /\ \A c \in CPU : PhaseOf(c)
  BY DEF HotplugInv, Phases
<1>2. ASSUME UNCHANGED <<online, state, request, ap>> PROVE Phases'
  BY <1>1, <1>2 DEF Phases, PhaseOf, RequestKept, Booting
<1>3. ASSUME NEW c \in CPU,
             Preempt(c) \/ FinishSwitch(c) \/ ChangeMapping(c) \/ BeginShootdown(c) \/ EndShootdown(c)
      PROVE  Phases'
  <2>1. UNCHANGED <<online, state, request>> /\ ap[c] \in Working
    BY <1>3 DEF Preempt, FinishSwitch, ChangeMapping, BeginShootdown, EndShootdown, Working
  <2>2. PICK p \in Working : ap' = [ap EXCEPT ![c] = p]
    BY <1>3, Zenon DEF Preempt, FinishSwitch, ChangeMapping, BeginShootdown, EndShootdown, Working
  <2>3. ap'[c] = p /\ Elsewhere(c)
    BY <1>1, <2>1, <2>2 DEF HotplugTyped, Elsewhere
  <2>4. PhaseOf(c)' /\ ap'[c] \notin Starting
    BY <1>1, <2>1, <2>3 DEF PhaseOf, Starting, Working, Leaving, Away, Joining, Attached, OnlinePlace
  <2> QED BY <1>1, <2>1, <2>3, <2>4, MovesKeep
<1>4. ASSUME NEW c \in CPU,
             ApMain(c) \/ InitAp(c) \/ Withdraw(c) \/ Interrupted(c) \/ Halt(c) \/ Publish(c)
      PROVE  Phases'
  <2>1. UNCHANGED <<state, request>>
    BY <1>4 DEF ApMain, InitAp, Withdraw, Interrupted, Halt, Publish
  <2>2. Elsewhere(c)
    BY <1>1, <1>4 DEF HotplugTyped, ApMain, InitAp, Withdraw, Interrupted, Halt, Publish, Elsewhere
  <2>3. PhaseOf(c)'
    BY <1>1, <1>4 DEF HotplugTyped, ApMain, InitAp, Withdraw, Interrupted, Halt, Publish, PhaseOf, Starting, Working, Leaving, Away, Joining, Attached, OnlinePlace
  <2>4. ap'[c] \in Starting => ap[c] \in Starting
    BY <1>1, <1>4 DEF HotplugTyped, ApMain, InitAp, Withdraw, Interrupted, Halt, Publish, Starting
  <2> QED BY <1>1, <2>1, <2>2, <2>3, <2>4, MovesKeep
<1>5. ASSUME NEW c \in CPU, ClaimOffline(c) \/ Park(c) \/ Refuse(c) PROVE Phases'
  <2>1. \E to \in {2, 3, 5, 7, 8, 9} : Answers(c, to)
    BY <1>1, <1>5 DEF ClaimOffline, Park, Refuse, Answers, PhaseOf, Leaving, Joining
  <2>2. Elsewhere(c) /\ PhaseOf(c)' /\ ap'[c] \notin Starting
    BY <1>1, <1>5 DEF HotplugTyped, ClaimOffline, Park, Refuse, Elsewhere, AtIdle, PhaseOf, Starting, Working, Leaving, Away, Joining, Attached, OnlinePlace
  <2> QED BY <1>1, <2>1, <2>2, AnswersKeep
<1>6. ASSUME NEW c \in CPU, Leave(c) PROVE Phases'
  <2>1. CASE CanEvacuate(c)
    <3>1. /\ UNCHANGED <<state, request>> /\ Elsewhere(c) /\ PhaseOf(c)' /\ ap'[c] \notin Starting
      BY <1>1, <1>6, <2>1 DEF HotplugTyped, Leave, Elsewhere, PhaseOf, Starting, Working, Leaving, Away, Joining, Attached, OnlinePlace
    <3> QED BY <1>1, <3>1, MovesKeep
  <2>2. CASE ~CanEvacuate(c)
    <3>1. Answers(c, 3)
      BY <1>1, <1>6, <2>2 DEF Leave, Answers, PhaseOf, Leaving
    <3>2. Elsewhere(c) /\ PhaseOf(c)' /\ ap'[c] \notin Starting
      BY <1>1, <1>6, <2>2 DEF HotplugTyped, Leave, Elsewhere, PhaseOf, Starting, Working, Leaving, Away, Joining, Attached, OnlinePlace
    <3> QED BY <1>1, <3>1, <3>2, AnswersKeep
  <2> QED BY <2>1, <2>2
<1>7. ASSUME NEW c \in CPU, CheckOnline(c) PROVE Phases'
  <2>1. CASE state[c] = 6
    <3>1. Answers(c, 8)
      BY <1>7, <2>1 DEF CheckOnline, Answers
    <3>2. Elsewhere(c) /\ PhaseOf(c)' /\ ap'[c] \notin Starting
      BY <1>1, <1>7, <2>1 DEF HotplugTyped, CheckOnline, Elsewhere, PhaseOf, Starting, Working, Leaving, Away, Joining, Attached, OnlinePlace
    <3> QED BY <1>1, <3>1, <3>2, AnswersKeep
  <2>2. CASE state[c] # 6
    <3>1. /\ UNCHANGED <<state, request>> /\ Elsewhere(c) /\ PhaseOf(c)' /\ ap'[c] \notin Starting
      BY <1>1, <1>7, <2>2 DEF HotplugTyped, CheckOnline, Elsewhere, PhaseOf, Starting, Working, Leaving, Away, Joining, Attached, OnlinePlace
    <3> QED BY <1>1, <3>1, MovesKeep
  <2> QED BY <2>1, <2>2
<1>8. ASSUME NEW c \in CPU, Join(c) PROVE Phases'
  <2>1. CASE IdleSlots # {}
    <3>1. Answers(c, 7)
      BY <1>1, <1>8, <2>1 DEF Join, Answers, PhaseOf, Joining
    <3>2. Elsewhere(c) /\ PhaseOf(c)' /\ ap'[c] \notin Starting
      BY <1>1, <1>8, <2>1 DEF HotplugTyped, Join, Elsewhere, PhaseOf, Starting, Working, Leaving, Away, Joining, Attached, OnlinePlace
    <3> QED BY <1>1, <3>1, <3>2, AnswersKeep
  <2>2. CASE IdleSlots = {}
    <3>1. /\ UNCHANGED <<state, request>> /\ Elsewhere(c) /\ PhaseOf(c)' /\ ap'[c] \notin Starting
      BY <1>1, <1>8, <2>2 DEF HotplugTyped, Join, Elsewhere, PhaseOf, Starting, Working, Leaving, Away, Joining, Attached, OnlinePlace
    <3> QED BY <1>1, <3>1, MovesKeep
  <2> QED BY <2>1, <2>2
<1>9. ASSUME NEW c \in CPU, RequestOffline(c) PROVE Phases'
  <2>1. UNCHANGED <<online, state, ap>> /\ ~Booting /\ c # 0 /\ state[c] \in {0, 7} /\ ~request.held
    BY <1>9 DEF RequestOffline
  <2>2. request' = [held |-> TRUE, kind |-> "offline", cpu |-> c, phase |-> "prepared",
                    saved |-> state[c]]
    BY <1>9 DEF RequestOffline
  <2>3. (\A d \in CPU : PhaseOf(d)') /\ ~Booting'
    BY <1>1, <2>1 DEF PhaseOf, Booting
  <2>4. RequestKept'
    BY <2>1, <2>2 DEF RequestKept
  <2>5. \A d \in CPU : state'[d] \in {0, 5, 7}
    BY <1>1, <2>1 DEF Phases
  <2> QED BY <2>3, <2>4, <2>5 DEF Phases
<1>10. ASSUME NEW c \in CPU, RequestOnline(c) PROVE Phases'
  <2>1. /\ UNCHANGED <<online, ap>> /\ c # 0 /\ state[c] = 5 /\ ~request.held
        /\ state' = [state EXCEPT ![c] = 6]
        /\ request' = [held |-> TRUE, kind |-> "online", cpu |-> c, phase |-> "published", saved |-> 5]
    BY <1>10 DEF RequestOnline
  <2>2. ~Booting /\ ap[c] \in Away
    BY <1>1, <2>1 DEF HotplugTyped, Phases, PhaseOf, Place, Starting, Working, Leaving, Joining
  <2>3. state'[c] = 6 /\ \A d \in CPU \ {c} : state'[d] = state[d]
    BY <1>1, <2>1 DEF HotplugTyped
  <2>4. Elsewhere(c) /\ PhaseOf(c)' /\ ap'[c] \notin Starting
    BY <1>1, <2>1, <2>2, <2>3 DEF Elsewhere, PhaseOf, Starting, Working, Leaving, Away, Joining, Attached, OnlinePlace
  <2>5. (\A d \in CPU : PhaseOf(d)') /\ (Booting' => Booting)
    BY <1>1, <2>4, OneCpu
  <2>6. RequestKept'
    BY <2>1, <2>3 DEF RequestKept
  <2>7. \A d \in CPU : (request'.held /\ d = request'.cpu) \/ state'[d] \in {0, 5, 7}
    BY <1>1, <2>1, <2>3 DEF Phases
  <2> QED BY <2>2, <2>5, <2>6, <2>7 DEF Phases
<1>11. ASSUME RequesterStep PROVE Phases'
  <2>0. PICK c \in CPU : c = request.cpu
    BY <1>1 DEF HotplugTyped, RequestRecord
  <2>1. /\ UNCHANGED <<online, ap>> /\ request.phase \in {"prepared", "published", "waiting"}
    BY <1>11 DEF RequesterStep, PublishOffline, WakeAp, Observe, Timeout, Poison
  <2>2. request.held /\ RequestKept /\ ~Booting /\ ~Booting'
    BY <2>0, <1>1, <2>1 DEF HotplugTyped, RequestRecord, Phases, RequestKept, NoRequest, Booting
  <2>3. CASE PublishOffline
    <3>1. state'[c] = 1 /\ \A d \in CPU \ {c} : state'[d] = state[d]
      BY <2>0, <1>1, <2>2, <2>3 DEF HotplugTyped, PublishOffline
    <3>2. ap[c] \in Working /\ request.kind = "offline" /\ request.saved \in {0, 7}
      BY <2>0, <1>1, <2>2, <2>3 DEF HotplugTyped, PublishOffline, RequestKept, PhaseOf, Booting, Place,
         Starting, Working, Leaving, Away, Joining
    <3>3. Elsewhere(c) /\ PhaseOf(c)' /\ ap'[c] \notin Starting
      BY <1>1, <2>1, <2>2, <3>1, <3>2 DEF Elsewhere, PhaseOf, Starting, Working, Leaving, Away, Joining, Attached, OnlinePlace
    <3>4. \A d \in CPU : PhaseOf(d)'
      BY <1>1, <2>2, <3>3, OneCpu
    <3>5. /\ request'.held = request.held /\ request'.cpu = c /\ request'.kind = request.kind
          /\ request'.saved = request.saved /\ request'.phase = "waiting"
      BY <2>0, <1>1, <2>3 DEF HotplugTyped, RequestRecord, PublishOffline
    <3>6. RequestKept'
      BY <2>0, <2>2, <3>1, <3>2, <3>5 DEF RequestKept
    <3> QED BY <2>0, <1>1, <2>2, <3>1, <3>4, <3>5, <3>6 DEF Phases
  <2>4. CASE WakeAp \/ Poison
    <3>1. UNCHANGED state
      BY <2>4 DEF WakeAp, Poison
    <3>2. /\ request'.held = request.held /\ request'.cpu = c /\ request'.kind = request.kind
          /\ request'.saved = request.saved /\ request'.phase \in {"waiting", "poisoned"}
      BY <2>0, <1>1, <2>4 DEF HotplugTyped, RequestRecord, WakeAp, Poison
    <3>3. request.phase \in {"published", "waiting"}
      BY <2>4 DEF WakeAp, Poison
    <3>4. RequestKept'
      BY <2>0, <2>2, <3>1, <3>2, <3>3 DEF RequestKept
    <3>5. \A d \in CPU : PhaseOf(d)'
      BY <1>1, <2>1, <3>1 DEF PhaseOf
    <3> QED BY <2>0, <1>1, <2>2, <3>1, <3>2, <3>4, <3>5 DEF Phases
  <2>5. CASE Observe \/ Timeout
    <3>1. request' = NoRequest /\ request.phase = "waiting"
      BY <2>5 DEF Observe, Timeout
    <3>2. /\ state[c] \in {5, 7} => state'[c] = state[c]
          /\ state[c] \in {1, 3} => state'[c] = request.saved /\ request.kind = "offline"
          /\ state[c] \in {6, 9} => state'[c] = 5 /\ request.kind = "online"
          /\ state[c] \in {1, 3, 5, 6, 7, 9}
          /\ \A d \in CPU \ {c} : state'[d] = state[d]
      BY <2>0, <1>1, <2>2, <2>5, <3>1 DEF HotplugTyped, Observe, Timeout, Unclaimed, Requested, Done, Rejected,
         RequestKept
    <3>3. request.kind = "offline" => request.saved \in {0, 7}
      BY <2>2 DEF RequestKept
    <3>4. Elsewhere(c) /\ PhaseOf(c)' /\ ap'[c] \notin Starting
      <4>1. ap[c] \notin Starting
        BY <2>2 DEF Booting, Starting
      <4> QED BY <1>1, <2>1, <2>2, <3>2, <3>3, <4>1 DEF HotplugTyped, Elsewhere, PhaseOf, Place, Starting, Working, Leaving, Away, Joining, Attached, OnlinePlace
    <3>5. \A d \in CPU : PhaseOf(d)'
      BY <1>1, <2>2, <3>4, OneCpu
    <3>6. \A d \in CPU : state'[d] \in {0, 5, 7}
      BY <2>0, <1>1, <2>2, <3>2, <3>3 DEF Phases
    <3>7. RequestKept'
      BY <3>1 DEF RequestKept, NoRequest
    <3> QED BY <2>2, <3>5, <3>6, <3>7 DEF Phases
  <2> QED BY <1>11, <2>3, <2>4, <2>5 DEF RequesterStep
<1>12. ASSUME NEW c \in CPU, Sleep(c) \/ TakeIpi(c) \/ Acknowledge(c) PROVE Phases'
  BY <1>2, <1>12 DEF Sleep, TakeIpi, Acknowledge
<1>13. ASSUME NEW s \in Slot, Wake(s) \/ (\E c \in CPU : Migrate(s, c))
                                      \/ (\E mask \in SUBSET CPU : SetAffinity(s, mask))
       PROVE Phases'
  BY Zenon, <1>2, <1>13 DEF Wake, Migrate, SetAffinity
<1>14. ASSUME NEW c \in CPU, NEW kind \in JobKinds, Spawn(c, kind) PROVE Phases'
  BY <1>2, <1>14 DEF Spawn
<1> QED BY <1>3, <1>4, <1>5, <1>6, <1>7, <1>8, <1>9, <1>10, <1>11, <1>12, <1>13, <1>14
        DEF HotplugNext, CpuStep

----------------------------------------------------------------------------
(* A CPU that neither begins nor ends a mapping change, and does not come  *)
(* online, leaves the shootdowns alone.                                    *)
LEMMA ShootdownsKept ==
    ASSUME Shootdowns, NEW c \in CPU, UNCHANGED <<shoot, stale>>,
           \A d \in CPU \ {c} : ap'[d] = ap[d],
           ap[c] \notin {"changed", "shooting"}, ap'[c] \notin {"changed", "shooting"},
           ap'[c] \in Starting => ap[c] \in Starting,
           online' \subseteq online, online \subseteq CPU, stale \in [CPU -> SUBSET CPU]
    PROVE  Shootdowns'
<1>1. Booting' => Booting
  BY DEF Booting, Starting
<1>2. \A d \in online' : \A a \in stale[d] : ap'[a] \in {"changed", "shooting"}
  BY DEF Shootdowns
<1>3. \A d \in CPU : ap'[d] = "shooting" <=> shoot.by = d
  BY DEF Shootdowns
<1>4. \A d \in CPU : ap'[d] = "shooting" => \A e \in shoot.acked : d \notin stale[e]
  BY <1>3 DEF Shootdowns
<1> QED BY <1>1, <1>2, <1>3, <1>4 DEF Shootdowns

(* One CPU is online alone.                                                *)
LEMMA AloneOnline ==
    ASSUME online \subseteq CPU, NEW c \in online, Cardinality(online) <= 1
    PROVE  online = {c}
<1>1. IsFiniteSet(CPU)
  BY HotplugAssumption, FS_Interval DEF CPU
<1>2. IsFiniteSet(online)
  BY <1>1, FS_Subset
<1>3. SUFFICES ASSUME NEW d \in online, d # c PROVE FALSE
  OBVIOUS
<1>4. IsFiniteSet({c, d}) /\ Cardinality({c, d}) = 2
  <2>1. IsFiniteSet({c}) /\ Cardinality({c}) = 1
    BY Zenon, FS_Singleton
  <2>2. IsFiniteSet({c} \cup {d}) /\ Cardinality({c} \cup {d}) = 2
    BY <1>3, <2>1, FS_AddElement
  <2>3. {c} \cup {d} = {c, d}
    OBVIOUS
  <2> QED BY <2>2, <2>3
<1>5. Cardinality({c, d}) <= Cardinality(online)
  <2>1. {c, d} \subseteq online
    BY <1>3
  <2> QED BY <1>2, <2>1, FS_Subset
<1>6. Cardinality(online) \in Nat
  BY <1>2, FS_CardinalityType
<1> QED BY <1>4, <1>5, <1>6

(* Every step keeps the shootdowns and the flushes they wait for.          *)
LEMMA ShootdownsStep ==
    ASSUME HotplugInv, HotplugNext
    PROVE  Shootdowns'
<1>1. /\ Shootdowns /\ online \subseteq CPU /\ stale \in [CPU -> SUBSET CPU]
      /\ ap \in [CPU -> Place] /\ state \in [CPU -> 0..9]
      /\ shoot \in [by : CPU \cup {MAX_CPUS}, mask : SUBSET CPU, acked : SUBSET CPU]
  BY DEF HotplugInv, HotplugTyped
<1>2. ASSUME UNCHANGED <<online, ap, shoot, stale>> PROVE Shootdowns'
  BY <1>1, <1>2 DEF Shootdowns, Booting
<1>3. ASSUME NEW c \in CPU,
             Preempt(c) \/ FinishSwitch(c) \/ InitAp(c) \/ ClaimOffline(c) \/ Leave(c)
                \/ Withdraw(c) \/ Park(c) \/ Interrupted(c) \/ CheckOnline(c) \/ Halt(c)
                \/ Join(c) \/ Refuse(c)
      PROVE  Shootdowns'
  <2>1. UNCHANGED <<shoot, stale>> /\ online' \subseteq online
    BY <1>3 DEF Preempt, FinishSwitch, InitAp, ClaimOffline, Leave, Withdraw, Park, Interrupted,
       CheckOnline, Halt, Join, Refuse
  <2>2. ap[c] \notin {"changed", "shooting"}
    BY <1>3, Zenon DEF Preempt, FinishSwitch, InitAp, ClaimOffline, AtIdle, Leave, Withdraw, Park,
       Interrupted, CheckOnline, Halt, Join, Refuse
  <2>3. \E p \in Place \ {"reset", "initialising", "changed", "shooting"} : ap' = [ap EXCEPT ![c] = p]
    BY <1>1, <1>3 DEF Preempt, FinishSwitch, InitAp, ClaimOffline, Leave, Withdraw, Park,
       Interrupted, CheckOnline, Halt, Join, Refuse, Place, Starting, Working, Leaving, Away, Joining
  <2>4. /\ \A d \in CPU \ {c} : ap'[d] = ap[d]
        /\ ap'[c] \notin {"reset", "initialising", "changed", "shooting"}
    BY Zenon, <1>1, <2>3
  <2> QED BY <1>1, <2>1, <2>2, <2>4, ShootdownsKept DEF Starting
<1>4. ASSUME NEW c \in CPU, ApMain(c) PROVE Shootdowns'
  <2>1. /\ \A d \in CPU : stale[d] = {} /\ ap[d] \notin {"changed", "shooting"}
        /\ UNCHANGED <<shoot, stale>>
    BY <1>1, <1>4 DEF ApMain, Booting, Shootdowns
  <2>3. shoot = NoShoot
    BY <1>1, <2>1 DEF Shootdowns
  <2>2. \A d \in CPU : ap'[d] # "shooting"
    BY <1>1, <1>4, <2>1 DEF ApMain
  <2>4. \A d \in CPU : ap'[d] \notin {"changed", "shooting"}
    BY Zenon, <1>1, <1>4, <2>1 DEF ApMain
  <2> QED BY <1>1, <1>4, <2>1, <2>2, <2>3, <2>4, Numbers DEF ApMain, Shootdowns, NoShoot
<1>5. ASSUME NEW c \in CPU, Publish(c) PROVE Shootdowns'
  <2>1. /\ shoot = NoShoot /\ shoot' = shoot /\ online' = online \cup {c}
        /\ stale' = [stale EXCEPT ![c] = {}] /\ ap' = [ap EXCEPT ![c] = "published"]
        /\ ap[c] = "joining"
    BY <1>5 DEF Publish, ShootUnlocked
  <2>2. \A d \in CPU : ap[d] # "shooting" /\ ap'[d] # "shooting"
    BY <1>1, <2>1, Numbers DEF Shootdowns, NoShoot
  <2>3. /\ \A d \in CPU \ {c} : ap'[d] = ap[d] /\ stale'[d] = stale[d]
        /\ ap'[c] = "published" /\ stale'[c] = {}
    BY <1>1, <2>1
  <2>4. Booting' => Booting
    BY <2>3 DEF Booting
  <2>5. \A d \in online' : \A a \in stale'[d] : ap'[a] \in {"changed", "shooting"}
    BY <1>1, <2>1, <2>3 DEF Shootdowns
  <2> QED BY <1>1, <2>1, <2>2, <2>3, <2>4, <2>5, Numbers DEF Shootdowns, NoShoot
<1>6. ASSUME NEW c \in CPU, ChangeMapping(c) PROVE Shootdowns'
  <2>1. /\ UNCHANGED <<online, shoot>> /\ ap[c] = "running" /\ ~Booting
        /\ ap' = [ap EXCEPT ![c] = "changed"]
        /\ stale' = [d \in CPU |-> IF d = c THEN stale[d] ELSE stale[d] \cup {c}]
    BY <1>6 DEF ChangeMapping
  <2>2. /\ \A d \in CPU \ {c} : ap'[d] = ap[d] /\ stale'[d] = stale[d] \cup {c}
        /\ ap'[c] = "changed" /\ stale'[c] = stale[c]
    BY <1>1, <2>1
  <2>3. ~Booting'
    BY <2>1, <2>2 DEF Booting
  <2>4. \A d \in CPU : ap'[d] = "shooting" <=> ap[d] = "shooting"
    BY <2>1, <2>2
  <2>5. \A d \in online' : \A a \in stale'[d] : ap'[a] \in {"changed", "shooting"}
    BY <1>1, <2>1, <2>2 DEF Shootdowns
  <2>6. \A d \in CPU : ap'[d] = "shooting" => \A e \in shoot.acked : d \notin stale'[e]
    BY <1>1, <2>1, <2>2 DEF Shootdowns
  <2> QED BY <1>1, <2>1, <2>2, <2>3, <2>4, <2>5, <2>6 DEF Shootdowns
<1>7. ASSUME NEW c \in CPU, BeginShootdown(c) PROVE Shootdowns'
  <2>1. shoot = NoShoot /\ ap[c] = "changed" /\ online' = online
    BY <1>7 DEF BeginShootdown, ShootUnlocked
  <2>2. c \in online
    BY <2>1 DEF HotplugInv, Phases, PhaseOf, OnlinePlace, Attached, Working
  <2>3. \A d \in CPU : ap[d] # "shooting"
    BY Zenon, <1>1, <2>1, Numbers DEF Shootdowns, NoShoot
  <2>4. CASE Cardinality(online) <= 1
    <3>1. online = {c}
      BY <1>1, <2>2, <2>4, AloneOnline
    <3>2. ap' = [ap EXCEPT ![c] = "running"] /\ UNCHANGED <<shoot, stale>>
      BY <1>7, <2>4 DEF BeginShootdown, online_mask
    <3>3. ap'[c] = "running" /\ \A d \in CPU \ {c} : ap'[d] = ap[d]
      BY <1>1, <3>2
    <3>4. \A a \in stale[c] : a \in CPU \ {c} /\ ap'[a] \in {"changed", "shooting"}
      BY <1>1, <2>2, <3>3 DEF Shootdowns
    <3>5. Booting' => Booting
      BY <3>3 DEF Booting
    <3> QED BY <1>1, <2>1, <2>3, <3>1, <3>2, <3>3, <3>4, <3>5, Numbers DEF Shootdowns, NoShoot
  <2>5. CASE ~(Cardinality(online) <= 1)
    <3>1. /\ shoot' = [by |-> c, mask |-> online, acked |-> {c}]
          /\ stale' = [stale EXCEPT ![c] = {}] /\ ap' = [ap EXCEPT ![c] = "shooting"]
      BY <1>7, <2>5 DEF BeginShootdown, online_mask
    <3>2. /\ \A d \in CPU \ {c} : ap'[d] = ap[d] /\ stale'[d] = stale[d]
          /\ ap'[c] = "shooting" /\ stale'[c] = {}
      BY <1>1, <3>1
    <3>3. ~Booting
      BY <1>1, <2>1 DEF Shootdowns
    <3>4. ~Booting'
      BY <3>2, <3>3 DEF Booting
    <3>5. \A d \in online' : \A a \in stale'[d] : ap'[a] \in {"changed", "shooting"}
      BY <1>1, <2>1, <3>2 DEF Shootdowns
    <3>6. \A d \in CPU : ap'[d] = "shooting" <=> shoot'.by = d
      BY <2>3, <3>1, <3>2
    <3>7. \A d \in CPU : ap'[d] = "shooting" => \A e \in shoot'.acked : d \notin stale'[e]
      BY <3>1, <3>2
    <3> QED BY <1>1, <2>1, <3>1, <3>2, <3>4, <3>5, <3>6, <3>7, Numbers DEF Shootdowns
  <2> QED BY <2>4, <2>5
<1>8. ASSUME NEW c \in CPU, Acknowledge(c) PROVE Shootdowns'
  <2>1. /\ UNCHANGED <<online, ap>> /\ c \in shoot.mask
        /\ shoot' = [shoot EXCEPT !.acked = @ \cup {c}]
        /\ stale' = [stale EXCEPT ![c] = {}]
    BY <1>8 DEF Acknowledge
  <2>2. shoot # NoShoot /\ shoot.by \in CPU
    BY <1>1, <2>1 DEF Shootdowns, NoShoot
  <2>3. /\ shoot'.by = shoot.by /\ shoot'.mask = shoot.mask /\ shoot'.acked = shoot.acked \cup {c}
    BY <1>1, <2>1
  <2>4. stale'[c] = {} /\ \A d \in CPU \ {c} : stale'[d] = stale[d]
    BY <1>1, <2>1
  <2>5. ~Booting /\ ~Booting'
    BY <1>1, <2>1, <2>2 DEF Shootdowns, Booting
  <2>6. \A d \in CPU : ap'[d] = "shooting" => \A e \in shoot'.acked : d \notin stale'[e]
    BY Zenon, <1>1, <2>1, <2>3, <2>4 DEF Shootdowns
  <2> QED BY <1>1, <2>1, <2>2, <2>3, <2>4, <2>5, <2>6, Numbers DEF Shootdowns
<1>9. ASSUME NEW c \in CPU, EndShootdown(c) PROVE Shootdowns'
  <2>1. /\ UNCHANGED <<online, stale>> /\ ap[c] = "shooting" /\ shoot.mask \subseteq shoot.acked
        /\ shoot' = NoShoot /\ ap' = [ap EXCEPT ![c] = "running"]
    BY Zenon, <1>9 DEF EndShootdown
  <2>2. shoot.by = c /\ shoot # NoShoot
    BY <1>1, <2>1, Numbers DEF Shootdowns, NoShoot
  <2>3. ap'[c] = "running" /\ \A d \in CPU \ {c} : ap'[d] = ap[d] /\ ap[d] # "shooting"
    BY <1>1, <2>1, <2>2 DEF Shootdowns
  <2>4. \A d \in online : c \notin stale[d]
    BY <1>1, <2>1, <2>2 DEF Shootdowns
  <2>5. \A d \in online' : \A a \in stale'[d] : ap'[a] \in {"changed", "shooting"}
    BY <1>1, <2>1, <2>3, <2>4 DEF Shootdowns
  <2>6. Booting' => Booting
    BY Zenon, <2>3 DEF Booting
  <2> QED BY <1>1, <2>1, <2>3, <2>5, <2>6, Numbers DEF Shootdowns, NoShoot
<1>10. ASSUME NEW c \in CPU, Sleep(c) \/ TakeIpi(c) \/ RequestOffline(c) \/ RequestOnline(c)
       PROVE Shootdowns'
  BY <1>2, <1>10 DEF Sleep, TakeIpi, RequestOffline, RequestOnline
<1>11. ASSUME RequesterStep PROVE Shootdowns'
  BY <1>2, <1>11 DEF RequesterStep, PublishOffline, WakeAp, Observe, Timeout, Poison
<1>12. ASSUME NEW s \in Slot, Wake(s) \/ (\E c \in CPU : Migrate(s, c))
                                      \/ (\E mask \in SUBSET CPU : SetAffinity(s, mask))
       PROVE Shootdowns'
  BY Zenon, <1>2, <1>12 DEF Wake, Migrate, SetAffinity
<1>13. ASSUME NEW c \in CPU, NEW kind \in JobKinds, Spawn(c, kind) PROVE Shootdowns'
  BY Zenon, <1>2, <1>13 DEF Spawn
<1> QED BY Zenon, <1>3, <1>4, <1>5, <1>6, <1>7, <1>8, <1>9, <1>10, <1>11, <1>12, <1>13
        DEF HotplugNext, CpuStep

----------------------------------------------------------------------------
(* A step that leaves a task where it is, or takes it away; and one that   *)
(* does not touch a running task.                                          *)
Kept(s) == Live(task'[s]) =>
    /\ Live(task[s])
    /\ task'[s].name = task[s].name /\ task'[s].cpu = task[s].cpu /\ task'[s].mask = task[s].mask

RunningKept(s) == task[s].state = "Running" =>
    task'[s].name = task[s].name /\ task'[s].cpu = task[s].cpu /\ task'[s].state = "Running"

StaysAttached == \A c \in CPU : ap[c] \in Attached => ap'[c] \in Attached

(* A task that a step keeps stays well placed.                             *)
LEMMA KeptPlaced ==
    ASSUME HotplugTyped, TasksHeld, StaysAttached, NEW s \in Slot, Kept(s)
    PROVE  PlacedWell(s)'
<1>1. PlacedWell(s) /\ task[s].mask \subseteq CPU
  BY DEF TasksHeld, HotplugTyped, TaskRecord
<1> QED BY <1>1 DEF PlacedWell, Kept, StaysAttached

(* A step that keeps the tasks adds no second idle task to a CPU.          *)
LEMMA KeptIdle ==
    ASSUME TasksHeld, NEW s \in Slot, NEW r \in Slot, Kept(s), Kept(r)
    PROVE  IdleOnce(s, r)'
<1>1. IdleOnce(s, r)
  BY DEF TasksHeld
<1> QED BY <1>1 DEF IdleOnce, Idle, Kept

(* A CPU whose task a step keeps running still has it.                     *)
LEMMA KeptCurrent ==
    ASSUME NEW c \in CPU, Current(c), cur'[c] = cur[c], ap'[c] \in Attached => ap[c] \in Attached,
           ap[c] \in Attached => RunningKept(cur[c]),
           ap'[c] = "leaving" => task[cur[c]].name = "idle"
    PROVE  Current(c)'
  BY Zenon DEF Current, RunningKept

(* No slot of the table changes hands.                                     *)
LEMMA AllKept ==
    ASSUME HotplugTyped, TasksHeld, StaysAttached, Booting' => Booting,
           \A s \in Slot : Kept(s), \A c \in CPU : Current(c)'
    PROVE  TasksHeld'
<1>1. \A s \in Slot : PlacedWell(s)'
  BY KeptPlaced
<1>2. \A s, r \in Slot : IdleOnce(s, r)'
  BY KeptIdle
<1>3. Booting' => \A s \in Slot : Live(task'[s]) => task'[s].name = "idle"
  BY DEF TasksHeld, Kept
<1> QED BY <1>1, <1>2, <1>3 DEF TasksHeld

(* One slot does.                                                          *)
LEMMA OneTaken ==
    ASSUME HotplugTyped, TasksHeld, StaysAttached, Booting' => Booting, NEW x \in Slot,
           \A s \in Slot \ {x} : Kept(s), \A c \in CPU : Current(c)', PlacedWell(x)',
           Idle(x)' => \A s \in Slot \ {x} : Idle(s) => task[s].cpu # task'[x].cpu,
           Booting' => (Live(task[x])' => task'[x].name = "idle")
    PROVE  TasksHeld'
<1>1. \A s \in Slot : PlacedWell(s)'
  BY KeptPlaced
<1>2. \A s \in Slot \ {x}, r \in Slot \ {x} : IdleOnce(s, r)'
  BY KeptIdle
<1>3. \A s \in Slot \ {x} : IdleOnce(x, s)' /\ IdleOnce(s, x)'
  <2> SUFFICES ASSUME NEW s \in Slot \ {x}, Idle(s)', Idle(x)' PROVE task'[s].cpu # task'[x].cpu
    BY DEF IdleOnce
  <2>1. Idle(s) /\ task'[s].cpu = task[s].cpu
    BY Zenon DEF Kept, Idle
  <2> QED BY <2>1
<1>4. IdleOnce(x, x)'
  BY Zenon DEF IdleOnce
<1>5. \A s, r \in Slot : IdleOnce(s, r)'
  BY SMTT(30), <1>2, <1>3, <1>4
<1>6. Booting' => \A s \in Slot : Live(task'[s]) => task'[s].name = "idle"
  BY DEF TasksHeld, Kept
<1> QED BY <1>1, <1>5, <1>6 DEF TasksHeld

(* The CPUs that can be given work run tasks.                              *)
LEMMA SchedulableRuns ==
    ASSUME HotplugTyped, Phases, ~Booting, NEW c \in CPU, cpu_is_schedulable(c)
    PROVE  ap[c] \in Attached
<1>1. PhaseOf(c) /\ c \in online /\ state[c] \notin {1, 2, 6, 8} /\ ap[c] \notin Starting
  BY DEF Phases, cpu_is_schedulable, Booting, Starting
<1> QED BY <1>1 DEF PhaseOf, Starting, Working, Leaving, Away, Joining, Attached, OnlinePlace

(* The table does not change: a CPU moves.                                 *)
LEMMA PlacesMove ==
    ASSUME HotplugTyped, TasksHeld, NEW c \in CPU, UNCHANGED <<task, cur>>,
           \A d \in CPU \ {c} : ap'[d] = ap[d],
           ap'[c] \in Attached <=> ap[c] \in Attached,
           ap'[c] = "leaving" => task[cur[c]].name = "idle",
           ap'[c] \in Starting => ap[c] \in Starting
    PROVE  TasksHeld'
<1>1. StaysAttached /\ (Booting' => Booting)
  BY DEF StaysAttached, Booting, Starting
<1>2. \A s \in Slot : Kept(s) /\ RunningKept(s)
  BY DEF Kept, RunningKept
<1>3. Current(c)'
  <2>1. Current(c) /\ (ap[c] \in Attached => cur[c] \in Slot)
    BY DEF TasksHeld, Current
  <2> QED BY Zenon, <1>2, <2>1, KeptCurrent
<1>4. \A d \in CPU \ {c} : Current(d)'
  <2>1. \A d \in CPU \ {c} : Current(d)
    BY DEF TasksHeld
  <2> QED BY <2>1 DEF Current
<1> QED BY <1>1, <1>2, <1>3, <1>4, AllKept

(* reap_dead and prepare_switch, and finalize_switch.                      *)
LEMMA SwitchKeepsTasks ==
    ASSUME HotplugTyped, TasksHeld, NEW c \in CPU, Preempt(c) \/ Sleep(c)
    PROVE  TasksHeld'
<1>1. /\ ap[c] = "running" /\ ap'[c] \in {"running", "switching"}
      /\ \A d \in CPU \ {c} : ap'[d] = ap[d]
  BY DEF Preempt, Sleep, HotplugTyped
<1>2. Switched(c)
  BY Switches
<1>3. PICK s \in Slot, after \in {"Switching", "Blocked", "Dead"} :
        /\ s # cur[c] /\ task[s].state = "Ready" /\ task[s].cpu = c
        /\ cur' = [cur EXCEPT ![c] = s]
        /\ task'[s] = [task[s] EXCEPT !.state = "Running", !.ran = TRUE]
        /\ task'[cur[c]] = [task[cur[c]] EXCEPT !.state = after]
        /\ \A r \in Slot \ {s, cur[c]} :
              task'[r] = task[r] \/ (task[r].state = "Dead" /\ task'[r] = NoTask)
  BY Zenon, <1>2 DEF Switched
<1>4. /\ cur[c] \in Slot /\ task[cur[c]].state = "Running" /\ task[cur[c]].cpu = c
      /\ \A r \in Slot : task[r] \in TaskRecord
  BY <1>1 DEF TasksHeld, Current, Attached, Working, HotplugTyped
<1>5. /\ task'[s].state = "Running" /\ task'[s].cpu = c
      /\ task'[s].name = task[s].name /\ task'[s].mask = task[s].mask
      /\ task'[cur[c]].cpu = c /\ task'[cur[c]].name = task[cur[c]].name
      /\ task'[cur[c]].mask = task[cur[c]].mask
  BY <1>3, <1>4 DEF TaskRecord
<1>6. StaysAttached /\ (Booting' => Booting)
  BY <1>1 DEF StaysAttached, Booting, Attached, Working
<1>7. \A r \in Slot : Kept(r)
  <2>1. Kept(s) /\ Kept(cur[c])
    BY <1>3, <1>4, <1>5 DEF Kept, Live
  <2>2. \A r \in Slot \ {s, cur[c]} : Kept(r)
    BY <1>3 DEF Kept, Live, NoTask
  <2> QED BY <2>1, <2>2
<1>8. Current(c)'
  <2>1. cur'[c] = s
    BY <1>3 DEF HotplugTyped
  <2> QED BY <1>1, <1>5, <2>1 DEF Current
<1>9. ASSUME NEW d \in CPU \ {c} PROVE Current(d)'
  <2>1. Current(d) /\ cur'[d] = cur[d] /\ ap'[d] = ap[d]
    BY <1>1, <1>3 DEF TasksHeld, HotplugTyped
  <2>2. ASSUME ap[d] \in Attached PROVE RunningKept(cur[d])
    <3>1. cur[d] \in Slot \ {s, cur[c]} /\ task[cur[d]].state = "Running"
      BY <1>3, <1>4, <2>1, <2>2 DEF Current
    <3> QED BY <1>3, <3>1 DEF RunningKept
  <2> QED BY <2>1, <2>2, KeptCurrent DEF Current, Attached
<1> QED BY <1>6, <1>7, <1>8, <1>9, AllKept

(* A step that changes no task and no CPU's place.                         *)
LEMMA TouchKeepsTasks ==
    ASSUME HotplugTyped, TasksHeld, UNCHANGED cur, StaysAttached, Booting' => Booting,
           \A c \in CPU : ap'[c] \in Attached => ap[c] \in Attached,
           \A c \in CPU : ap'[c] = "leaving" => ap[c] = "leaving",
           \A s \in Slot : Kept(s) /\ RunningKept(s)
    PROVE  TasksHeld'
<1>1. ASSUME NEW d \in CPU PROVE Current(d)'
  <2>1. Current(d) /\ (ap[d] \in Attached => cur[d] \in Slot)
    BY DEF TasksHeld, Current
  <2>2. ap'[d] = "leaving" => task[cur[d]].name = "idle"
    BY Zenon, <2>1 DEF Current, Attached
  <2> QED BY Zenon, <2>1, <2>2, KeptCurrent
<1> QED BY Zenon, <1>1, AllKept

(* A slot that no CPU runs is given away.                                  *)
LEMMA GivenKeepsTasks ==
    ASSUME HotplugTyped, TasksHeld, NEW x \in Slot, task[x].state # "Running",
           StaysAttached, Booting' => Booting,
           \A s \in Slot \ {x} : task'[s] = task[s],
           \A c \in CPU : ap'[c] \in Attached /\ c # task'[x].cpu => ap[c] \in Attached /\ cur'[c] = cur[c],
           \A c \in CPU : ap'[c] \in Attached /\ c = task'[x].cpu =>
               \/ ap[c] \in Attached /\ cur'[c] = cur[c]
               \/ cur'[c] = x /\ task'[x].state = "Running",
           \A c \in CPU : ap'[c] = "leaving" => ap[c] = "leaving" /\ cur'[c] = cur[c],
           PlacedWell(x)',
           Idle(x)' => \A s \in Slot \ {x} : Idle(s) => task[s].cpu # task'[x].cpu,
           Booting' => (Live(task[x])' => task'[x].name = "idle")
    PROVE  TasksHeld'
<1>1. \A s \in Slot \ {x} : Kept(s)
  BY DEF Kept
<1>2. ASSUME NEW c \in CPU PROVE Current(c)'
  <2>1. Current(c)
    BY DEF TasksHeld
  <2>2. ASSUME ap'[c] \in Attached, cur'[c] = cur[c], ap[c] \in Attached PROVE Current(c)'
    <3>1. cur[c] \in Slot \ {x}
      BY <2>1, <2>2 DEF Current
    <3>2. task'[cur[c]] = task[cur[c]]
      BY <3>1
    <3> QED BY Zenon, <2>1, <2>2, <3>1, <3>2 DEF Current
  <2>3. ASSUME ap'[c] \in Attached, ap'[c] # "leaving", c = task'[x].cpu, cur'[c] = x,
               task'[x].state = "Running"
        PROVE Current(c)'
    BY Zenon, <2>3 DEF Current
  <2>4. ap'[c] = "leaving" => Current(c)'
    BY Zenon, <2>2 DEF Attached
  <2>5. ap'[c] \notin Attached => Current(c)'
    BY DEF Current
  <2> QED BY Zenon, <2>2, <2>3, <2>4, <2>5
<1> QED BY Zenon, <1>1, <1>2, OneTaken

(* What evacuate_cpu leaves of a live task; a current task keeps its CPU.  *)
LEMMA EvacuatedTask ==
    ASSUME HotplugTyped, TasksHeld, NEW c \in CPU, CanEvacuate(c), NEW s \in Slot, Live(Moved(s, c))
    PROVE  /\ Live(task[s]) /\ Moved(s, c).name = task[s].name
           /\ Moved(s, c).mask \subseteq task[s].mask /\ Moved(s, c).cpu \in Moved(s, c).mask
           /\ task[s].name = "idle" => Moved(s, c) = task[s]
           /\ s # cur[c] /\ task[s].name # "idle" => c \notin Moved(s, c).mask
<1>1. Live(task[s]) /\ PlacedWell(s) /\ Moved(s, c).name = task[s].name
  BY MovedFields DEF Live, TasksHeld
<1>2. task[s].cpu \in task[s].mask
  BY <1>1 DEF PlacedWell
<1>3. CASE ~Concerned(s, c) \/ (task[s].cpu = c /\ s = cur[c])
  <2>1. Moved(s, c) = task[s]
    BY Zenon, <1>1, <1>3, MovedFields
  <2>2. s # cur[c] /\ task[s].name # "idle" => c \notin task[s].mask
    BY <1>1, <1>3 DEF Concerned
  <2> QED BY Zenon, <1>1, <1>2, <2>1, <2>2
<1>4. CASE Concerned(s, c) /\ ~(task[s].cpu = c /\ s = cur[c])
  <2>1. /\ Moved(s, c).mask = task[s].mask \ {c}
        /\ task[s].cpu # c => Moved(s, c).cpu = task[s].cpu
        /\ task[s].cpu = c => Moved(s, c).cpu \in task[s].mask \ {c}
    BY Zenon, <1>1, <1>4, MovedFields
  <2>2. task[s].name # "idle"
    BY <1>4 DEF Concerned
  <2> QED BY Zenon, <1>1, <1>2, <2>1, <2>2
<1> QED BY Zenon, <1>3, <1>4

(* Evacuating another CPU leaves the task that runs here.                  *)
LEMMA EvacuatedCurrent ==
    ASSUME HotplugTyped, TasksHeld, NEW c \in CPU, CanEvacuate(c), NEW d \in CPU, ap[d] \in Attached
    PROVE  /\ cur[d] \in Slot
           /\ Moved(cur[d], c).state = "Running" /\ Moved(cur[d], c).cpu = d
           /\ Moved(cur[d], c).name = task[cur[d]].name
<1>1. cur[d] \in Slot /\ task[cur[d]].state = "Running" /\ task[cur[d]].cpu = d
  BY DEF TasksHeld, Current
<1>2. Live(task[cur[d]])
  BY Zenon, <1>1 DEF Live
<1>3. Moved(cur[d], c).state = "Running" /\ Moved(cur[d], c).name = task[cur[d]].name
  BY SMTT(30), <1>1, MovedFields
<1>4. CASE ~Concerned(cur[d], c) \/ d = c
  BY Zenon, <1>1, <1>2, <1>3, <1>4, MovedFields
<1>5. CASE Concerned(cur[d], c) /\ d # c
  BY ZenonT(30), <1>1, <1>2, <1>3, <1>5, MovedFields
<1> QED BY <1>4, <1>5

(* offline_checkpoint: the tasks of the CPU move to others before it goes. *)
LEMMA OfflineKeepsTasks ==
    ASSUME HotplugTyped, TasksHeld, NEW c \in CPU, RequestOffline(c)
    PROVE  TasksHeld'
<1>1. /\ UNCHANGED <<ap, cur>> /\ ~Booting /\ CanEvacuate(c)
      /\ \A s \in Slot : task'[s] = Moved(s, c)
  BY DEF RequestOffline, Evacuated
<1>2. ~Booting'
  BY Zenon, <1>1 DEF Booting
<1>3. ASSUME NEW s \in Slot PROVE PlacedWell(s)'
  <2> SUFFICES ASSUME Live(Moved(s, c))
               PROVE  /\ Moved(s, c).cpu \in Moved(s, c).mask
                      /\ \A d \in Moved(s, c).mask : ap'[d] \in Attached
                      /\ Moved(s, c).name = "idle" => Moved(s, c).mask = {Moved(s, c).cpu}
    BY <1>1 DEF PlacedWell
  <2>1. PlacedWell(s)
    BY Zenon DEF TasksHeld
  <2>2. /\ Live(task[s]) /\ Moved(s, c).name = task[s].name
        /\ Moved(s, c).mask \subseteq task[s].mask /\ Moved(s, c).cpu \in Moved(s, c).mask
        /\ task[s].name = "idle" => Moved(s, c) = task[s]
    BY <1>1, EvacuatedTask
  <2> QED BY Zenon, <1>1, <2>1, <2>2 DEF PlacedWell
<1>4. ASSUME NEW s \in Slot, NEW r \in Slot PROVE IdleOnce(s, r)'
  <2>1. \A x \in Slot : Idle(x)' => Idle(x) /\ task'[x].cpu = task[x].cpu
    BY <1>1, EvacuatedTask DEF Idle
  <2>2. IdleOnce(s, r)
    BY DEF TasksHeld
  <2> QED BY <2>1, <2>2 DEF IdleOnce
<1>5. ASSUME NEW d \in CPU PROVE Current(d)'
  <2>1. Current(d)
    BY DEF TasksHeld
  <2>2. CASE ap[d] \in Attached
    <3>1. /\ cur[d] \in Slot /\ task'[cur[d]].state = "Running" /\ task'[cur[d]].cpu = d
          /\ task'[cur[d]].name = task[cur[d]].name
      BY <1>1, <2>2, EvacuatedCurrent
    <3> QED BY Zenon, <1>1, <2>1, <2>2, <3>1 DEF Current
  <2>3. CASE ap[d] \notin Attached
    BY <1>1, <2>3 DEF Current
  <2> QED BY <2>2, <2>3
<1> QED BY <1>2, <1>3, <1>4, <1>5 DEF TasksHeld

(* The CPU that leaves retires its idle task and nothing else.             *)
LEMMA LeaveKeepsTasks ==
    ASSUME HotplugTyped, TasksHeld, NEW c \in CPU, Leave(c), CanEvacuate(c)
    PROVE  TasksHeld'
<1> DEFINE x == cur[c]
<1>1. /\ ap[c] = "leaving" /\ UNCHANGED cur /\ ap' = [ap EXCEPT ![c] = "withdrawing"]
      /\ task' = [Evacuated(c) EXCEPT ![x] = [@ EXCEPT !.state = "Dead", !.cpu = 0,
                                            !.name = "offline-idle", !.mask = {0}]]
  BY DEF Leave, Revalidated
<1>2. /\ x \in Slot /\ task[x].state = "Running" /\ task[x].cpu = c /\ task[x].name = "idle"
  BY <1>1 DEF TasksHeld, Current, Attached
<1>3. /\ ap'[c] = "withdrawing" /\ \A d \in CPU \ {c} : ap'[d] = ap[d]
  BY <1>1 DEF HotplugTyped
<1>4. \A s \in Slot \ {x} : task'[s] = Moved(s, c)
  BY <1>1, <1>2 DEF Evacuated
<1>5. task'[x].state = "Dead"
  <2>1. Evacuated(c)[x] = Moved(x, c) /\ Moved(x, c) \in TaskRecord
    BY <1>2, MovedFields DEF Evacuated
  <2>2. task'[x] = [Moved(x, c) EXCEPT !.state = "Dead", !.cpu = 0, !.name = "offline-idle", !.mask = {0}]
    BY Zenon, <1>1, <1>2, <2>1 DEF Evacuated
  <2> QED BY Zenon, <2>1, <2>2 DEF TaskRecord
<1> HIDE DEF x
<1>6. ASSUME NEW s \in Slot, Live(task'[s])
      PROVE  /\ Live(task[s]) /\ task'[s].name = task[s].name
             /\ task'[s].mask \subseteq task[s].mask \ {c} /\ task'[s].cpu \in task'[s].mask
             /\ task[s].name = "idle" => task'[s] = task[s]
  <2>1. s \in Slot \ {x} /\ task'[s] = Moved(s, c)
    BY Zenon, <1>4, <1>5, <1>6 DEF Live
  <2>2. /\ Live(task[s]) /\ Moved(s, c).name = task[s].name
        /\ Moved(s, c).mask \subseteq task[s].mask /\ Moved(s, c).cpu \in Moved(s, c).mask
        /\ task[s].name = "idle" => Moved(s, c) = task[s]
        /\ task[s].name # "idle" => c \notin Moved(s, c).mask
    BY <1>6, <2>1, EvacuatedTask DEF x
  <2>3. task[s].name = "idle" => c \notin task[s].mask
    <3>1. IdleOnce(s, x) /\ PlacedWell(s) /\ Live(task[x])
      BY <1>2 DEF TasksHeld, Live
    <3> QED BY Zenon, <1>2, <2>1, <2>2, <3>1 DEF IdleOnce, Idle, PlacedWell
  <2> QED BY Zenon, <2>1, <2>2, <2>3
<1>7. ASSUME NEW s \in Slot PROVE PlacedWell(s)'
  <2>1. PlacedWell(s) /\ task[s].mask \subseteq CPU
    BY Zenon DEF TasksHeld, HotplugTyped, TaskRecord
  <2> QED BY <1>3, <1>6, <2>1 DEF PlacedWell
<1>8. ASSUME NEW s \in Slot, NEW r \in Slot PROVE IdleOnce(s, r)'
  <2>1. IdleOnce(s, r)
    BY DEF TasksHeld
  <2> QED BY <1>6, <2>1 DEF IdleOnce, Idle
<1>9. ASSUME NEW d \in CPU PROVE Current(d)'
  <2>1. CASE d = c
    BY <1>3, <2>1 DEF Current, Attached, Working
  <2>2. CASE d # c /\ ap[d] \in Attached
    <3>1. /\ cur[d] \in Slot /\ Moved(cur[d], c).state = "Running" /\ Moved(cur[d], c).cpu = d
          /\ Moved(cur[d], c).name = task[cur[d]].name
      BY Zenon, <2>2, EvacuatedCurrent
    <3>2. Current(d) /\ cur[d] # x
      BY <1>2, <2>2 DEF TasksHeld, Current
    <3>3. task'[cur[d]] = Moved(cur[d], c)
      BY <1>4, <3>1, <3>2
    <3> QED BY Zenon, <1>1, <1>3, <2>2, <3>1, <3>2, <3>3 DEF Current
  <2>3. CASE d # c /\ ap[d] \notin Attached
    BY Zenon, <1>3, <2>3 DEF Current
  <2> QED BY <2>1, <2>2, <2>3
<1>10. Booting' => \A s \in Slot : Live(task'[s]) => task'[s].name = "idle"
  <2>1. Booting' => Booting
    BY Zenon, <1>3 DEF Booting
  <2> QED BY <1>6, <2>1 DEF TasksHeld
<1> QED BY <1>7, <1>8, <1>9, <1>10 DEF TasksHeld

(* A CPU that joins, or is brought up, gets an idle task of its own.       *)
LEMMA IdleKeepsTasks ==
    ASSUME HotplugTyped, TasksHeld, NEW c \in CPU, ap[c] \notin Attached, NEW x \in Slot,
           ~Live(task[x]), task' = [task EXCEPT ![x] = IdleTask(c)],
           cur' = [cur EXCEPT ![c] = x], ap' = [ap EXCEPT ![c] = "running"]
    PROVE  TasksHeld'
<1>1. /\ ap'[c] = "running" /\ cur'[c] = x
      /\ \A d \in CPU \ {c} : ap'[d] = ap[d] /\ cur'[d] = cur[d]
      /\ task'[x] = IdleTask(c) /\ \A s \in Slot \ {x} : task'[s] = task[s]
  BY DEF HotplugTyped
<1>2. /\ task'[x].cpu = c /\ task'[x].mask = {c} /\ task'[x].name = "idle"
      /\ task'[x].state = "Running"
  BY <1>1 DEF IdleTask
<1>3. StaysAttached /\ (Booting' => Booting)
  BY <1>1 DEF StaysAttached, Booting
<1>4. ap'[c] \in Attached /\ ap'[c] # "leaving"
  BY <1>1 DEF Attached, Working
<1>5. PlacedWell(x)'
  BY <1>2, <1>4 DEF PlacedWell
<1>6. \A s \in Slot : Idle(s) => task[s].cpu # c
  <2>1. \A s \in Slot : PlacedWell(s)
    BY DEF TasksHeld
  <2> QED BY <2>1 DEF PlacedWell, Idle
<1>7. task[x].state # "Running"
  BY DEF Live
<1>8. \A d \in CPU : ap'[d] \in Attached /\ d # task'[x].cpu => ap[d] \in Attached /\ cur'[d] = cur[d]
  BY <1>1, <1>2
<1>9. \A d \in CPU : ap'[d] \in Attached /\ d = task'[x].cpu =>
         \/ ap[d] \in Attached /\ cur'[d] = cur[d]
         \/ cur'[d] = x /\ task'[x].state = "Running"
  BY <1>1, <1>2
<1>10. \A d \in CPU : ap'[d] = "leaving" => ap[d] = "leaving" /\ cur'[d] = cur[d]
  BY <1>1
<1>11. Idle(x)' => \A s \in Slot \ {x} : Idle(s) => task[s].cpu # task'[x].cpu
  BY Zenon, <1>2, <1>6
<1> QED BY Zenon, <1>1, <1>2, <1>3, <1>5, <1>7, <1>8, <1>9, <1>10, <1>11, GivenKeepsTasks

(* A slot gets a task that is not idle, of a CPU that runs tasks.          *)
LEMMA WorkKeepsTasks ==
    ASSUME HotplugTyped, TasksHeld, UNCHANGED <<ap, cur>>, ~Booting, NEW x \in Slot,
           task[x].state # "Running", \A s \in Slot \ {x} : task'[s] = task[s],
           task'[x].name # "idle", task'[x].cpu \in task'[x].mask,
           \A d \in task'[x].mask : ap[d] \in Attached
    PROVE  TasksHeld'
<1>1. StaysAttached /\ ~Booting'
  BY DEF StaysAttached, Booting
<1>2. PlacedWell(x)' /\ ~Idle(x)'
  BY DEF PlacedWell, Idle
<1>3. \A d \in CPU : ap'[d] \in Attached => ap[d] \in Attached /\ cur'[d] = cur[d]
  OBVIOUS
<1>4. \A d \in CPU : ap'[d] = "leaving" => ap[d] = "leaving" /\ cur'[d] = cur[d]
  OBVIOUS
<1> QED BY Zenon, <1>1, <1>2, <1>3, <1>4, GivenKeepsTasks

(* Nothing but idle tasks exists before every CPU has started.             *)
LEMMA NoWorkAtBoot ==
    ASSUME TasksHeld, NEW s \in Slot, Live(task[s]), Migratable(task[s])
    PROVE  ~Booting
  BY DEF TasksHeld, Migratable

----------------------------------------------------------------------------
(* Every step keeps the tasks on CPUs that run them.                       *)
LEMMA TasksStep ==
    ASSUME HotplugInv, HotplugNext
    PROVE  TasksHeld'
<1>1. HotplugTyped /\ Phases /\ TasksHeld
  BY DEF HotplugInv
<1>2. /\ ap \in [CPU -> Place] /\ cur \in [CPU -> Slot \cup {NoSlot}]
      /\ task \in [Slot -> TaskRecord] /\ online \subseteq CPU
  BY <1>1 DEF HotplugTyped
<1>3. ASSUME NEW c \in CPU, Preempt(c) \/ Sleep(c) PROVE TasksHeld'
  BY <1>1, <1>3, SwitchKeepsTasks
<1>4. ASSUME NEW c \in CPU, FinishSwitch(c) PROVE TasksHeld'
  <2>1. /\ UNCHANGED cur /\ ap[c] = "switching" /\ ap' = [ap EXCEPT ![c] = "running"]
        /\ \A s \in Slot : task'[s] = IF task[s].state = "Switching" /\ task[s].cpu = c
                                      THEN [task[s] EXCEPT !.state = "Ready"] ELSE task[s]
    BY <1>4 DEF FinishSwitch
  <2>2. ap'[c] = "running" /\ \A d \in CPU \ {c} : ap'[d] = ap[d]
    BY <1>2, <2>1
  <2>3. /\ StaysAttached /\ (Booting' => Booting)
        /\ \A d \in CPU : ap'[d] \in Attached => ap[d] \in Attached
        /\ \A d \in CPU : ap'[d] = "leaving" => ap[d] = "leaving"
    BY <2>1, <2>2 DEF StaysAttached, Booting, Attached, Working
  <2>4. ASSUME NEW s \in Slot PROVE Kept(s) /\ RunningKept(s)
    <3>1. task[s] \in TaskRecord
      BY <1>2
    <3> QED BY Zenon, <2>1, <3>1 DEF Kept, RunningKept, Live, TaskRecord
  <2> QED BY <1>1, <2>1, <2>3, <2>4, TouchKeepsTasks
<1>5. ASSUME NEW x \in Slot, Wake(x) PROVE TasksHeld'
  <2>1. /\ UNCHANGED <<cur, ap>> /\ task[x].state = "Blocked"
        /\ task' = [task EXCEPT ![x].state = "Ready"]
    BY <1>5 DEF Wake
  <2>2. /\ StaysAttached /\ (Booting' => Booting)
        /\ \A d \in CPU : ap'[d] \in Attached => ap[d] \in Attached
        /\ \A d \in CPU : ap'[d] = "leaving" => ap[d] = "leaving"
    BY <2>1 DEF StaysAttached, Booting
  <2>3. ASSUME NEW s \in Slot PROVE Kept(s) /\ RunningKept(s)
    <3>1. task[s] \in TaskRecord
      BY <1>2
    <3>2. task'[s] = IF s = x THEN [task[s] EXCEPT !.state = "Ready"] ELSE task[s]
      BY Zenon, <1>2, <2>1
    <3> QED BY <2>1, <3>1, <3>2 DEF Kept, RunningKept, Live, TaskRecord
  <2> QED BY <1>1, <2>1, <2>2, <2>3, TouchKeepsTasks
<1>6. ASSUME NEW c \in CPU, NEW kind \in JobKinds, Spawn(c, kind), ~Booting PROVE TasksHeld'
  <2>1. PICK x \in Slot : x = Min(FreeSlots) /\ task[x].state = "Empty"
    BY <1>6, FreeSlot DEF Spawn
  <2> DEFINE m == IF kind = "pinned" THEN {c} ELSE schedulable_mask
             t == [name |-> kind, state |-> "Ready", cpu |-> c, ran |-> FALSE, mask |-> m]
  <2>2. UNCHANGED <<ap, cur>> /\ task' = [task EXCEPT ![x] = t]
    BY <1>6, <2>1 DEF Spawn
  <2>3. c \in m /\ \A d \in m : ap[d] \in Attached
    <3>1. \A d \in CPU : cpu_is_schedulable(d) => ap[d] \in Attached
      BY <1>1, <1>6, SchedulableRuns
    <3> QED BY <1>6, <3>1 DEF Spawn, schedulable_mask
  <2>4. task'[x].name = kind /\ task'[x].cpu = c /\ task'[x].mask = m
    BY <1>2, <2>2
  <2>5. \A s \in Slot \ {x} : task'[s] = task[s]
    BY <1>2, <2>2
  <2>6. kind # "idle"
    BY HotplugAssumption
  <2> HIDE DEF m, t
  <2> QED BY Zenon, <1>1, <1>6, <2>1, <2>2, <2>3, <2>4, <2>5, <2>6, WorkKeepsTasks
<1>7. ASSUME NEW x \in Slot, NEW c \in CPU, Migrate(x, c) PROVE TasksHeld'
  <2>1. /\ UNCHANGED <<ap, cur>> /\ task[x].state = "Ready" /\ Migratable(task[x]) /\ c \in task[x].mask
        /\ task' = [task EXCEPT ![x].cpu = c]
    BY <1>7 DEF Migrate
  <2>2. ~Booting
    BY <1>1, <2>1, NoWorkAtBoot DEF Live
  <2>3. /\ task'[x].name = task[x].name /\ task'[x].cpu = c /\ task'[x].mask = task[x].mask
        /\ \A s \in Slot \ {x} : task'[s] = task[s]
    BY <1>2, <2>1 DEF TaskRecord
  <2>4. \A d \in task[x].mask : ap[d] \in Attached
    BY <1>1, <2>1 DEF TasksHeld, PlacedWell, Live
  <2>5. task[x].name # "idle" /\ task[x].state # "Running"
    BY Zenon, <2>1 DEF Migratable
  <2> QED BY <1>1, <2>1, <2>2, <2>3, <2>4, <2>5, WorkKeepsTasks
<1>8. ASSUME NEW x \in Slot, NEW mask \in SUBSET CPU, SetAffinity(x, mask) PROVE TasksHeld'
  <2>1. PICK to \in mask : to = IF task[x].cpu \in mask THEN task[x].cpu ELSE Min(mask)
    BY <1>8, LowestCpu DEF SetAffinity
  <2>2. /\ UNCHANGED <<ap, cur>> /\ task[x].state = "Ready" /\ Migratable(task[x])
        /\ mask \subseteq schedulable_mask
    BY <1>8 DEF SetAffinity
  <2>3. task' = [task EXCEPT ![x] = [task[x] EXCEPT !.mask = mask, !.cpu = to]]
    BY Zenon, <1>2, <1>8, <2>1 DEF SetAffinity, TaskRecord
  <2>4. ~Booting
    BY <1>1, <2>2, NoWorkAtBoot DEF Live
  <2>5. /\ task'[x].name = task[x].name /\ task'[x].cpu = to /\ task'[x].mask = mask
        /\ \A s \in Slot \ {x} : task'[s] = task[s]
    BY <1>2, <2>3 DEF TaskRecord
  <2>6. \A d \in mask : ap[d] \in Attached
    <3>1. \A d \in CPU : cpu_is_schedulable(d) => ap[d] \in Attached
      BY <1>1, <2>4, SchedulableRuns
    <3> QED BY <2>2, <3>1 DEF schedulable_mask
  <2>7. task[x].name # "idle" /\ task[x].state # "Running"
    BY <2>2 DEF Migratable
  <2> QED BY <1>1, <2>2, <2>4, <2>5, <2>6, <2>7, WorkKeepsTasks
<1>9. ASSUME NEW c \in CPU, InitAp(c) PROVE TasksHeld'
  <2>1. PICK x \in Slot : x = Min(FreeSlots) /\ ~Live(task[x])
    BY <1>9, FreeSlot DEF InitAp, Live
  <2>2. /\ ap[c] \notin Attached /\ task' = [task EXCEPT ![x] = IdleTask(c)]
        /\ cur' = [cur EXCEPT ![c] = x] /\ ap' = [ap EXCEPT ![c] = "running"]
    BY Zenon, <1>9, <2>1 DEF InitAp, Attached, Working
  <2> QED BY Zenon, <1>1, <2>1, <2>2, IdleKeepsTasks
<1>10. ASSUME NEW c \in CPU, Join(c) PROVE TasksHeld'
  <2>1. CASE IdleSlots # {}
    <3>1. PICK x \in Slot : x = Min(IdleSlots) /\ ~Live(task[x])
      BY <2>1, FreeSlot
    <3>2. /\ ap[c] \notin Attached /\ task' = [task EXCEPT ![x] = IdleTask(c)]
          /\ cur' = [cur EXCEPT ![c] = x] /\ ap' = [ap EXCEPT ![c] = "running"]
      BY <1>10, <2>1, <3>1 DEF Join, Attached, Working
    <3> QED BY Zenon, <1>1, <3>1, <3>2, IdleKeepsTasks
  <2>2. CASE IdleSlots = {}
    <3>1. UNCHANGED <<task, cur>> /\ ap[c] = "published" /\ ap' = [ap EXCEPT ![c] = "retracting"]
      BY <1>10, <2>2 DEF Join
    <3>2. ap'[c] = "retracting" /\ \A d \in CPU \ {c} : ap'[d] = ap[d]
      BY <1>2, <3>1
    <3> QED BY <1>1, <3>1, <3>2, PlacesMove DEF Attached, Working, Starting
  <2> QED BY <2>1, <2>2
<1>11. ASSUME NEW c \in CPU, Leave(c) PROVE TasksHeld'
  <2>1. CASE CanEvacuate(c)
    BY <1>1, <1>11, <2>1, LeaveKeepsTasks
  <2>2. CASE ~CanEvacuate(c)
    <3>1. UNCHANGED <<task, cur>> /\ ap[c] = "leaving" /\ ap' = [ap EXCEPT ![c] = "running"]
      BY <1>11, <2>2 DEF Leave
    <3>2. ap'[c] = "running" /\ \A d \in CPU \ {c} : ap'[d] = ap[d]
      BY <1>2, <3>1
    <3> QED BY <1>1, <3>1, <3>2, PlacesMove DEF Attached, Working, Starting
  <2> QED BY <2>1, <2>2
<1>12. ASSUME NEW c \in CPU, RequestOffline(c) PROVE TasksHeld'
  BY <1>1, <1>12, OfflineKeepsTasks
<1>13. ASSUME NEW c \in CPU,
              ApMain(c) \/ Withdraw(c) \/ Park(c) \/ Interrupted(c) \/ CheckOnline(c)
                \/ Halt(c) \/ Publish(c) \/ Refuse(c)
       PROVE TasksHeld'
  <2>1. UNCHANGED <<task, cur>>
    BY Zenon, <1>13 DEF ApMain, Withdraw, Park, Interrupted, CheckOnline, Halt, Publish, Refuse
  <2>2. ap[c] \notin Attached
    BY Zenon, <1>13 DEF ApMain, Withdraw, Park, Interrupted, CheckOnline, Halt, Publish, Refuse, Attached, Working
  <2>3. \E p \in Place \ Attached :
          ap' = [ap EXCEPT ![c] = p] /\ (p \in Starting => ap[c] \in Starting)
    BY <1>2, <1>13 DEF ApMain, Withdraw, Park, Interrupted, CheckOnline, Halt, Publish, Refuse,
       Attached, Place, Starting, Working, Leaving, Away, Joining
  <2>4. /\ ap'[c] \notin Attached /\ (ap'[c] \in Starting => ap[c] \in Starting)
        /\ \A d \in CPU \ {c} : ap'[d] = ap[d]
    BY <1>2, <2>3
  <2>5. ap'[c] # "leaving"
    BY Zenon, <2>4 DEF Attached
  <2> QED BY Zenon, <1>1, <2>1, <2>2, <2>4, <2>5, PlacesMove
<1>14. ASSUME NEW c \in CPU, ClaimOffline(c) \/ ChangeMapping(c) \/ BeginShootdown(c) \/ EndShootdown(c)
       PROVE TasksHeld'
  <2>1. UNCHANGED <<task, cur>> /\ ap[c] \in Attached
    BY <1>14 DEF ClaimOffline, AtIdle, ChangeMapping, BeginShootdown, EndShootdown, Attached, Working
  <2>2. \E p \in Attached : /\ ap' = [ap EXCEPT ![c] = p]
                            /\ p = "leaving" => task[cur[c]].name = "idle"
    BY <1>14, Zenon DEF ClaimOffline, AtIdle, ChangeMapping, BeginShootdown, EndShootdown, Attached, Working
  <2>3. /\ ap'[c] \in Attached /\ (ap'[c] = "leaving" => task[cur[c]].name = "idle")
        /\ \A d \in CPU \ {c} : ap'[d] = ap[d]
    BY <1>2, <2>2
  <2>4. ap'[c] \notin Starting
    BY ZenonT(30), <2>3 DEF Attached, Working, Starting
  <2> QED BY ZenonT(30), <1>1, <2>1, <2>3, <2>4, PlacesMove
<1>15. ASSUME UNCHANGED <<ap, task, cur>> PROVE TasksHeld'
  BY <1>1, <1>15 DEF TasksHeld, PlacedWell, IdleOnce, Idle, Current, Booting
<1>16. ASSUME NEW c \in CPU, TakeIpi(c) \/ Acknowledge(c) \/ RequestOnline(c) PROVE TasksHeld'
  BY <1>15, <1>16 DEF TakeIpi, Acknowledge, RequestOnline
<1>17. ASSUME RequesterStep PROVE TasksHeld'
  BY <1>15, <1>17 DEF RequesterStep, PublishOffline, WakeAp, Observe, Timeout, Poison
<1> QED BY Zenon, <1>3, <1>4, <1>5, <1>6, <1>7, <1>8, <1>9, <1>10, <1>11, <1>12, <1>13, <1>14, <1>16, <1>17
        DEF HotplugNext, CpuStep

----------------------------------------------------------------------------
(* Every step keeps the invariant.                                         *)
LEMMA HotplugStepKeeps == HotplugInv /\ [HotplugNext]_hotplugVars => HotplugInv'
<1>1. ASSUME HotplugInv, HotplugNext PROVE HotplugInv'
  BY <1>1, TypedStep, PhasesStep, TasksStep, ShootdownsStep DEF HotplugInv
<1>2. ASSUME HotplugInv, UNCHANGED hotplugVars PROVE HotplugInv'
  <2>1. HotplugTyped'
    BY <1>2 DEF HotplugInv, hotplugVars, HotplugTyped
  <2>2. Phases'
    BY Zenon, <1>2 DEF HotplugInv, hotplugVars, Phases, PhaseOf, RequestKept, Booting
  <2>3. TasksHeld'
    BY Zenon, <1>2 DEF HotplugInv, hotplugVars, TasksHeld, PlacedWell, IdleOnce, Idle, Current, Booting
  <2>4. Shootdowns'
    BY <1>2 DEF HotplugInv, hotplugVars, Shootdowns, Booting
  <2> QED BY <2>1, <2>2, <2>3, <2>4 DEF HotplugInv
<1> QED BY <1>1, <1>2

(* The invariant implies the property.                                     *)
LEMMA HotplugInvSafe == HotplugInv => HotplugSafe
<1> SUFFICES ASSUME HotplugInv PROVE HotplugSafe
  OBVIOUS
<1>1. HotplugTyped /\ Phases /\ TasksHeld /\ Shootdowns
  BY DEF HotplugInv
<1>2. LiveTasksOnline
  <2> SUFFICES ASSUME NEW s \in Slot, Live(task[s])
               PROVE  /\ task[s].mask # {} /\ task[s].mask \subseteq online
                      /\ task[s].cpu \in online \cap task[s].mask
    BY DEF LiveTasksOnline
  <2>1. PlacedWell(s) /\ task[s].mask \subseteq CPU
    BY <1>1 DEF TasksHeld, HotplugTyped, TaskRecord
  <2>2. task[s].cpu \in task[s].mask /\ \A c \in task[s].mask : ap[c] \in Attached
    BY <2>1 DEF PlacedWell
  <2>3. \A c \in CPU : ap[c] \in Attached => c \in online
    BY <1>1 DEF Phases, PhaseOf, OnlinePlace
  <2> QED BY <2>1, <2>2, <2>3
<1>3. HotplugSettled
  <2> SUFFICES ASSUME ~request.held, ~Booting, NEW c \in CPU
               PROVE  IF state[c] = 5
                      THEN c \notin online /\ ap[c] \in Away
                      ELSE /\ state[c] \in {0, 7} /\ c \in online
                           /\ task[cur[c]].cpu = c /\ Live(task[cur[c]])
    BY DEF HotplugSettled, Away
  <2>1. PhaseOf(c) /\ state[c] \in {0, 5, 7} /\ ap[c] \in Place /\ ap[c] \notin Starting
    BY <1>1 DEF Phases, HotplugTyped, Booting, Starting
  <2>2. CASE state[c] = 5
    BY <2>1, <2>2 DEF PhaseOf, Place, Starting, Working, Leaving, Away, Joining, Attached, OnlinePlace
  <2>3. CASE state[c] # 5
    <3>1. ap[c] \in Working
      BY <2>1, <2>3 DEF PhaseOf, Place, Leaving, Away, Joining
    <3>2. c \in online /\ ap[c] \in Attached
      BY <2>1, <3>1 DEF PhaseOf, Attached, OnlinePlace
    <3>3. task[cur[c]].cpu = c /\ task[cur[c]].state = "Running"
      BY <1>1, <3>2 DEF TasksHeld, Current
    <3> QED BY <2>1, <2>3, <3>2, <3>3 DEF Live
  <2> QED BY <2>2, <2>3
<1>4. TranslationsCurrent
  BY <1>1 DEF Shootdowns, TranslationsCurrent
<1> QED BY <1>2, <1>3, <1>4 DEF HotplugSafe

(***************************************************************************)
(* On any number of CPUs and task slots, whichever of the CPUs come and go *)
(* (offline_checkpoint, online_checkpoint, shootdown_inner): live tasks    *)
(* are on online CPUs of their masks, when no request is outstanding every *)
(* CPU is parked or runs, and a mapping change is over only when every     *)
(* online CPU has flushed it.                                              *)
(***************************************************************************)
THEOREM HotplugAlwaysSafe == HotplugSpec => []HotplugSafe
<1>1. HotplugInit => HotplugInv
  BY HotplugInitKeeps
<1>2. HotplugInv /\ [HotplugNext]_hotplugVars => HotplugInv'
  BY HotplugStepKeeps
<1>3. HotplugInv => HotplugSafe
  BY HotplugInvSafe
<1> QED BY <1>1, <1>2, <1>3, PTL DEF HotplugSpec
=============================================================================

------------------------------ MODULE Authority ------------------------------
(***************************************************************************)
(* Capabilities of tasks (kernel/src/task.rs, wovenguard.rs, capability.rs).*)
(* A task has capability bits, a sandbox ceiling under the ceiling of its   *)
(* security domain, and for every capability an optional lineage: none      *)
(* means intrinsic authority, some means the bit counts only while that     *)
(* lineage is live.  Every operation holds the scheduler's lock from the    *)
(* policy decision to the last store, so each is one action; a fork takes   *)
(* it twice and is two.                                                     *)
(***************************************************************************)
EXTENDS Lineage

CONSTANTS
  TaskIds,          \* ids handed out by NEXT_TASK_ID, never reused
  KernelTask,       \* KERNEL_TASK_ID
  Caps, TaskControl,
  Domains, Kernel, SystemService, User, Restricted,
  Ceiling           \* domain_ceiling

VARIABLES
  tasks,            \* the TCBs, by task id
  lineages          \* LINEAGES

authVars == <<tasks, lineages>>

NoBindings == [c \in Caps |-> NoLineage]

(* TaskControlBlock::empty, initialize, initialize_user, initialize_fork.  *)
EmptyTask ==
  [state |-> "unborn", caps |-> {}, lin |-> NoBindings, domain |-> Restricted,
   profile |-> Ceiling[Restricted], by |-> KernelTask]

NewTask(domain, caps, profile) ==
  [state |-> "live", caps |-> caps, lin |-> NoBindings, domain |-> domain,
   profile |-> profile, by |-> KernelTask]

AuthInit ==
  /\ tasks = [t \in TaskIds |->
                IF t = KernelTask
                THEN NewTask(Kernel, Ceiling[Kernel], Ceiling[Kernel])
                ELSE EmptyTask]
  /\ lineages = [s \in LineageSlots |-> EmptySlot]

(* task_effective_has                                                      *)
Effective(t, c) ==
  /\ c \in tasks[t].caps
  /\ c \in tasks[t].profile
  /\ tasks[t].lin[c] # NoLineage => Authorizes(lineages, tasks[t].lin[c], c)

Present(t) == tasks[t].state \in {"live", "dead"}   \* a TCB the lookups find
Forking(t) == \E u \in TaskIds : tasks[u].state = "forming" /\ tasks[u].by = t
Running(t) == tasks[t].state = "live" /\ ~Forking(t) \* may make a call

ValidFor(profile, domain) == profile \subseteq Ceiling[domain]

\* Mutant: a controller hands out what it does not hold.
UnheldMutant(a, t, c) ==
  /\ Effective(a, TaskControl)
  /\ tasks[t].domain = Kernel => tasks[a].domain = Kernel
  /\ c \in Ceiling[tasks[t].domain] \cap tasks[t].profile

AuthorizeGrant(a, t, c) ==
  /\ Effective(a, TaskControl)
  /\ Effective(a, c)
  /\ tasks[t].domain = Kernel => tasks[a].domain = Kernel
  /\ c \in Ceiling[tasks[t].domain]
  /\ ValidFor(tasks[t].profile, tasks[t].domain)
  /\ c \in tasks[t].profile

\* Mutant: the profile is not compared with the ceiling of the domain.
AnyProfileMutant(a, t, profile) ==
  /\ Effective(a, TaskControl)
  /\ tasks[t].domain = Kernel => tasks[a].domain = Kernel

AuthorizeSandboxBind(a, t, profile) ==
  /\ Effective(a, TaskControl)
  /\ tasks[t].domain = Kernel => tasks[a].domain = Kernel
  /\ ValidFor(profile, tasks[t].domain)

Intrinsic(t, c) == Effective(t, c) /\ tasks[t].lin[c] = NoLineage

(* An actor without a live binding of its own first becomes the owner of a  *)
(* root, to which its own authority is bound from then on; the child is     *)
(* derived from the actor's node.  Either table may be full: a root issued  *)
(* before the failing derivation stays, and so does the actor's binding.    *)
DelegateFrom(a, t, c, reg, parent, bound) ==
  IF CanDerive(reg, a, parent, {c})
  THEN /\ lineages' = Derived(reg, parent, t, {c})
       /\ tasks' = [bound EXCEPT ![t].caps = @ \cup {c},
                                 ![t].lin[c] = AllocatedId(reg)]
  ELSE lineages' = reg /\ tasks' = bound

Grant(a, t, c) ==
  /\ Running(a) /\ Present(t)
  /\ AuthorizeGrant(a, t, c)
  /\ ~Intrinsic(t, c)
  /\ \/ /\ Authorizes(lineages, tasks[a].lin[c], c)
        /\ DelegateFrom(a, t, c, lineages, tasks[a].lin[c], tasks)
     \/ /\ ~Authorizes(lineages, tasks[a].lin[c], c)
        /\ CanAllocate(lineages, {c})
        /\ DelegateFrom(a, t, c, Allocated(lineages, NoLineage, a, {c}),
                        AllocatedId(lineages),
                        [tasks EXCEPT ![a].lin[c] = AllocatedId(lineages)])

(* Everything above the new ceiling is cleared and recalled, capability by  *)
(* capability; each recall is of a node with a single right, so the order   *)
(* does not matter.                                                         *)
BoundAbove(t, profile) ==
  {s \in ActiveSlots(lineages) :
     \E c \in Caps \ profile : tasks[t].lin[c] = LineageIdOf(lineages, s)}

BindSandboxProfile(a, t, profile) ==
  /\ Running(a) /\ Present(t)
  /\ AuthorizeSandboxBind(a, t, profile)
  /\ lineages' = Cleared(lineages, UNION {Subtree(lineages, LineageIdOf(lineages, s)) :
                                            s \in BoundAbove(t, profile)})
  /\ tasks' = [tasks EXCEPT
       ![t].caps = @ \cap profile,
       ![t].lin = [c \in Caps |-> IF c \in profile THEN @[c] ELSE NoLineage],
       ![t].profile = profile]

(* The target's node is recalled; if that leaves the controller's own root  *)
(* without children, the root is released and the controller's binding to   *)
(* it becomes intrinsic again.                                              *)
Revoke(a, t, c) ==
  LET id     == tasks[t].lin[c]
      after  == RevokedByController(lineages, id)
      parent == IF LiveLineage(lineages, id) THEN lineages[id[1]].parent
                ELSE NoLineage
      release == /\ parent # NoLineage
                 /\ CanRelease(after, a, parent)
                 /\ after[parent[1]].parent = NoLineage
      mine   == IF release /\ tasks[a].lin[c] = parent
                THEN [tasks EXCEPT ![a].lin[c] = NoLineage] ELSE tasks
  IN  /\ Running(a) /\ Present(t)
      /\ Effective(a, TaskControl)
      /\ lineages' = IF release THEN Released(after, parent) ELSE after
      /\ tasks' = [mine EXCEPT ![t].caps = @ \ {c}, ![t].lin[c] = NoLineage]

NextId(t) ==
  tasks[t].state = "unborn" /\ \A u \in TaskIds : u < t => tasks[u].state # "unborn"

(* The three ways a task comes to be: a kernel service, an application, and *)
(* a user-mode system service with chosen capabilities as its ceiling.      *)
Spawn(t) ==
  /\ NextId(t)
  /\ \/ tasks' = [tasks EXCEPT ![t] = NewTask(SystemService, {}, Ceiling[SystemService])]
     \/ tasks' = [tasks EXCEPT ![t] = NewTask(User, Ceiling[User], Ceiling[User])]
     \/ \E caps \in SUBSET Ceiling[SystemService] \ {{}} :
          tasks' = [tasks EXCEPT ![t] = NewTask(SystemService, caps, caps)]
  /\ UNCHANGED lineages

(* fork_current copies the parent's security context and drops the lock to  *)
(* clone the address space and the files: others may change the parent      *)
(* meanwhile.  The copy is kept as a task that no lookup finds.             *)
BeginFork(p, t) ==
  /\ Running(p) /\ NextId(t)
  /\ tasks' = [tasks EXCEPT ![t] = [tasks[p] EXCEPT !.state = "forming", !.by = p]]
  /\ UNCHANGED lineages

(* initialize_fork: the child gets the copy if the parent is still there.   *)
FinishFork(t) ==
  /\ tasks[t].state = "forming" /\ tasks[tasks[t].by].state = "live"
  /\ tasks' = [tasks EXCEPT ![t] = [tasks[t] EXCEPT !.state = "live", !.by = KernelTask]]
  /\ UNCHANGED lineages

(* It is not, or pages, files, a task or a process cannot be had.           *)
ForkFails(t) ==
  /\ tasks[t].state = "forming"
  /\ tasks' = [tasks EXCEPT ![t] = EmptyTask]
  /\ UNCHANGED lineages

Exit(t) ==
  /\ t # KernelTask /\ tasks[t].state = "live"
  /\ tasks' = [tasks EXCEPT ![t].state = "dead"]
  /\ UNCHANGED lineages

(* reap_dead: the nodes of the dead task go before its TCB is reused.      *)
ReapDead(t) ==
  /\ tasks[t].state = "dead"
  /\ lineages' = RevokedAllOwned(lineages, t)
  /\ tasks' = [tasks EXCEPT ![t] = [EmptyTask EXCEPT !.state = "gone"]]

AuthNext ==
  \/ \E a, t \in TaskIds, c \in Caps : Grant(a, t, c) \/ Revoke(a, t, c)
  \/ \E a, t \in TaskIds, p \in SUBSET Caps : BindSandboxProfile(a, t, p)
  \/ \E t \in TaskIds : Spawn(t) \/ FinishFork(t) \/ ForkFails(t) \/ Exit(t) \/ ReapDead(t)
  \/ \E p, t \in TaskIds : BeginFork(p, t)

(* Correctness: what the capability layer promises.                        *)

(* The recorded delegations have exact child counters, parents that hold    *)
(* their rights and owners that are present: with the parent of every       *)
(* live node live, revoke, a tightened sandbox and reap_dead reach every    *)
(* capability that was passed on.                                           *)
LineageTree ==
  /\ WellFormed(lineages)
  /\ \A s \in ActiveSlots(lineages) : Present(lineages[s].owner)

(* No task acts above the ceiling of its domain, whatever was granted to it *)
(* before its sandbox changed.                                              *)
CeilingsHold ==
  \A t \in TaskIds : Present(t) =>
    /\ ValidFor(tasks[t].profile, tasks[t].domain)
    /\ \A c \in Caps : Effective(t, c) => c \in Ceiling[tasks[t].domain]

(* LineageRegistry and sandboxes: a live delegation has a live parent with *)
(* at least its rights, the child counters that guard release are exact,   *)
(* and no task has an effective capability above the ceiling of its        *)
(* domain, in whatever order grants, revocations, sandboxes and reaps come.*)
AuthorityBounded == LineageTree /\ CeilingsHold

(* A task that existed gains a capability only while some controller holds  *)
(* it: no reused slot, later sandbox or recalled parent brings an old       *)
(* binding back ("cannot resurrect hidden authority", task.rs).             *)
OnlyDelegated ==
  \A t \in TaskIds, c \in Caps :
    Present(t) /\ ~Effective(t, c) /\ Effective(t, c)'
      => \E a \in TaskIds : Running(a) /\ Effective(a, c) /\ Effective(a, TaskControl)

(* grant and bind_sandbox: no step brings a capability that nobody holds.  *)
OnlyDelegation == [][OnlyDelegated]_authVars

AuthSpec == AuthInit /\ [][AuthNext]_authVars
=============================================================================

------------------------------- MODULE Pager -------------------------------
(***************************************************************************)
(* Lazy file pages (kernel/src/task.rs, userspace.rs, file_frames.rs): a   *)
(* process that touches an absent page of a private file mapping queues a  *)
(* request, blocks, and is woken when the one pager task has populated the *)
(* page.  Under memory pressure the pager evicts a resident page first.    *)
(*                                                                         *)
(* Locks are held for less than a whole fault, so a fault is several       *)
(* steps: the request is pushed under PAGER, the process blocks under      *)
(* SCHEDULER, and on resumption it takes its completion under PAGER.  The  *)
(* fault handler runs with interrupts off: while a process of the pager's  *)
(* own CPU is between push and block, the pager does not run.              *)
(***************************************************************************)
EXTENDS Naturals, FiniteSets, FiniteSetsExt

CONSTANTS
    MAX_PAGER_REQUESTS,
    Procs,       \* processes, in process-table order: positive numbers
    Pages,       \* pages of each process's mapping, numbered
    Remote,      \* processes that run on another CPU than the pager
    Killable,    \* processes that others kill
    Signalled,   \* processes that events unrelated to a fault are signalled to
    Pressure     \* whether physical memory can run out

VARIABLES
    pc,            \* where each process is in its fault
    page,          \* the page each process faults on
    mapping,       \* the mapping record of each process, in the process table
    mapped,        \* the pages present in each process's page table
    entries,       \* PagerQueue::entries
    completions,   \* PagerQueue::completions
    pager          \* the pager task: where it is and what it works on

vars == <<pc, page, mapping, mapped, entries, completions, pager>>

NoTask == 0
None == [task |-> NoTask]
Index == 0 .. MAX_PAGER_REQUESTS - 1

(* AnonymousMapping: pages present, pages in swap, pages modified.         *)
Mapping == [resident : SUBSET Pages, swapped : SUBSET Pages, dirty : SUBSET Pages]

(* A request carries a copy of the mapping taken when it was pushed.       *)
Request == [task : Procs, page : Pages, mapping : Mapping]
Completion == [task : Procs, page : Pages, succeeded : BOOLEAN]

Idle == [pc |-> "check", task |-> NoTask]

Init ==
    /\ pc = [p \in Procs |-> "user"]
    /\ page = [p \in Procs |-> Min(Pages)]
    /\ mapping = [p \in Procs |-> [resident |-> {}, swapped |-> {}, dirty |-> {}]]
    /\ mapped = [p \in Procs |-> {}]
    /\ entries = [i \in Index |-> None]
    /\ completions = [i \in Index |-> None]
    /\ pager = Idle

Free(array) == {i \in Index : array[i] = None}

(* The pager's CPU is inside the fault handler of one of its processes.    *)
HandlerRuns == \E p \in Procs \ Remote : pc[p] = "pushed"
MayRun(p) == p \in Remote \/ ~HandlerRuns

----------------------------------------------------------------------------
(***************************************************************************)
(* try_handle_file_fault.                                                  *)
(***************************************************************************)

(* The handler returns FALSE.  A fault taken in user mode exits the        *)
(* process, which destroys its address space; a copy inside a system call  *)
(* fails and the process goes on.                                          *)
FaultFails(p) ==
    \/ pc' = [pc EXCEPT ![p] = "user"] /\ UNCHANGED mapped
    \/ pc' = [pc EXCEPT ![p] = "reaped"] /\ mapped' = [mapped EXCEPT ![p] = {}]

Fault(p, a) ==
    /\ pc[p] = "user" /\ a \notin mapped[p] /\ MayRun(p)
    /\ page' = [page EXCEPT ![p] = a]
    /\ \/ /\ Free(entries) # {}
          /\ entries' = [entries EXCEPT ![Min(Free(entries))] =
                           [task |-> p, page |-> a, mapping |-> mapping[p]]]
          /\ pc' = [pc EXCEPT ![p] = "pushed"]
          /\ UNCHANGED mapped
       \/ /\ Free(entries) = {}
          /\ FaultFails(p)
          /\ UNCHANGED entries
    /\ UNCHANGED <<mapping, completions, pager>>

(* block_current_and_wake_pager_from_exception.                            *)
FaultBlock(p) ==
    /\ pc[p] = "pushed"
    /\ pc' = [pc EXCEPT ![p] = "blocked"]
    /\ pager' = [pager EXCEPT !.pc = IF @ = "blocked" THEN "check" ELSE @]
    /\ UNCHANGED <<page, mapping, mapped, entries, completions>>

Mine(p) ==
    {i \in Index : completions[i] # None /\ completions[i].task = p
                                         /\ completions[i].page = page[p]}

Resume(p) ==
    /\ pc[p] = "woken" /\ MayRun(p)
    /\ \/ /\ Mine(p) = {}
          /\ FaultFails(p)
          /\ UNCHANGED completions
       \/ /\ Mine(p) # {}
          /\ completions' = [completions EXCEPT ![Min(Mine(p))] = None]
          /\ IF completions[Min(Mine(p))].succeeded
             THEN pc' = [pc EXCEPT ![p] = "user"] /\ UNCHANGED mapped
             ELSE FaultFails(p)
    /\ UNCHANGED <<page, mapping, entries, pager>>

(* A write to a present page: copy-on-write, then mark_file_page_dirty.    *)
Write(p, a) ==
    /\ pc[p] = "user" /\ a \in mapped[p] /\ MayRun(p)
    /\ a \in mapping[p].resident
    /\ mapping' = [mapping EXCEPT ![p].dirty = @ \cup {a}]
    /\ UNCHANGED <<pc, page, mapped, entries, completions, pager>>

----------------------------------------------------------------------------
(***************************************************************************)
(* pager_task.                                                             *)
(***************************************************************************)

PagerAt(where) == pager.pc = where /\ ~HandlerRuns

Queued == Index \ Free(entries)

PagerPop ==
    /\ PagerAt("check")
    /\ Queued # {}
    /\ LET request == entries[Min(Queued)] IN
         /\ pager' = [pc |-> "populate", task |-> request.task, page |-> request.page,
                      copy |-> request.mapping, succeeded |-> FALSE]
         /\ entries' = [entries EXCEPT ![Min(Queued)] = None]
    /\ UNCHANGED <<pc, page, mapping, mapped, completions>>

(* The empty check and the publication of Blocked are one critical section *)
(* of the PAGER lock.                                                      *)
UnlockedSleepMutant ==
    /\ PagerAt("check")
    /\ pager' = [pager EXCEPT !.pc = "blocked"]
    /\ UNCHANGED <<pc, page, mapping, mapped, entries, completions>>

PagerSleep ==
    /\ PagerAt("check")
    /\ Queued = {}
    /\ pager' = [pager EXCEPT !.pc = "blocked"]
    /\ UNCHANGED <<pc, page, mapping, mapped, entries, completions>>

(* populate_file_page, with its two sources; either may fail.              *)
Loaded(copy) == [copy EXCEPT !.resident = @ \cup {pager.page}]

SwappedIn(copy) ==
    [Loaded(copy) EXCEPT !.swapped = @ \ {pager.page}, !.dirty = @ \cup {pager.page}]

Populate ==
    /\ pager.pc \in {"populate", "evicted"} /\ ~HandlerRuns
    /\ \/ /\ pager' = [pager EXCEPT !.pc = "finish"]
          /\ UNCHANGED mapped
       \/ /\ pager.page \notin pager.copy.resident
          /\ pager' = [pager EXCEPT !.pc = "publish", !.succeeded = TRUE,
                                    !.copy = IF pager.page \in @.swapped
                                             THEN SwappedIn(@) ELSE Loaded(@)]
          /\ mapped' = [mapped EXCEPT ![pager.task] = @ \cup {pager.page}]
    /\ UNCHANGED <<pc, page, mapping, entries, completions>>

(* evict_one_mapped_file_page: the first page, in process-table order, that*)
(* is resident and can be unmapped.  A dirty page goes to swap.  That the  *)
(* lock tracker refuses the locks this takes is KernelLocks's finding.     *)
Evictable(p) == mapping[p].resident \cap mapped[p]

Evict ==
    /\ Pressure
    /\ PagerAt("populate")
    /\ pager.page \notin pager.copy.resident \cup pager.copy.swapped
    /\ \E p \in Procs :
         /\ Evictable(p) # {} /\ pc[p] # "reaped"
         /\ \A q \in Procs : q < p => Evictable(q) = {} \/ pc[q] = "reaped"
         /\ LET victim == Min(Evictable(p)) IN
              /\ mapped' = [mapped EXCEPT ![p] = @ \ {victim}]
              /\ mapping' = [mapping EXCEPT
                   ![p].resident = @ \ {victim},
                   ![p].swapped = IF victim \in mapping[p].dirty THEN @ \cup {victim} ELSE @]
    /\ pager' = [pager EXCEPT !.pc = "evicted"]
    /\ UNCHANGED <<pc, page, entries, completions>>

(* The copy replaces the record of a process that is still in the table.   *)
Publish ==
    /\ PagerAt("publish")
    /\ mapping' = IF pc[pager.task] # "reaped"
                  THEN [mapping EXCEPT ![pager.task] = pager.copy] ELSE mapping
    /\ pager' = [pager EXCEPT !.pc = "finish"]
    /\ UNCHANGED <<pc, page, mapped, entries, completions>>

UnrecordedMutant ==
    /\ PagerAt("finish")
    /\ pager' = [pager EXCEPT !.pc = "wake"]
    /\ UNCHANGED <<pc, page, mapping, mapped, entries, completions>>

(* PagerQueue::finish; without a free slot the requester is not woken.     *)
Finish ==
    /\ PagerAt("finish")
    /\ \/ /\ Free(completions) # {}
          /\ completions' = [completions EXCEPT ![Min(Free(completions))] =
                [task |-> pager.task, page |-> pager.page, succeeded |-> pager.succeeded]]
          /\ pager' = [pager EXCEPT !.pc = "wake"]
       \/ /\ Free(completions) = {}
          /\ pager' = Idle
          /\ UNCHANGED completions
    /\ UNCHANGED <<pc, page, mapping, mapped, entries>>

ForgetWakeMutant ==
    /\ PagerAt("wake")
    /\ pager' = Idle
    /\ UNCHANGED <<pc, page, mapping, mapped, entries, completions>>

(* wake_task: a process that is not Blocked is left alone.                 *)
Wake ==
    /\ PagerAt("wake")
    /\ pc' = [pc EXCEPT ![pager.task] = IF @ = "blocked" THEN "woken" ELSE @]
    /\ pager' = Idle
    /\ UNCHANGED <<page, mapping, mapped, entries, completions>>

----------------------------------------------------------------------------
(***************************************************************************)
(* The rest of the system.                                                 *)
(***************************************************************************)

(* signal_event makes a Blocked task Ready, whatever it is blocked on.     *)
SignalEvent(p) ==
    /\ p \in Signalled /\ pc[p] = "blocked" /\ ~HandlerRuns
    /\ pc' = [pc EXCEPT ![p] = "woken"]
    /\ UNCHANGED <<page, mapping, mapped, entries, completions, pager>>

(* kill_process: the process becomes a zombie and keeps its address space. *)
Kill(p) ==
    /\ p \in Killable /\ pc[p] \in {"user", "blocked", "woken"} /\ ~HandlerRuns
    /\ pc' = [pc EXCEPT ![p] = "zombie"]
    /\ UNCHANGED <<page, mapping, mapped, entries, completions, pager>>

(* wait_process: the parent unmaps and destroys the address space.         *)
Reap(p) ==
    /\ pc[p] = "zombie" /\ ~HandlerRuns
    /\ pc' = [pc EXCEPT ![p] = "reaped"]
    /\ mapped' = [mapped EXCEPT ![p] = {}]
    /\ UNCHANGED <<page, mapping, entries, completions, pager>>

PagerStep ==
    PagerPop \/ PagerSleep \/ Populate \/ Evict \/ Publish \/ Finish \/ Wake

Next ==
    \/ \E p \in Procs : \/ FaultBlock(p) \/ Resume(p)
                        \/ SignalEvent(p) \/ Kill(p) \/ Reap(p)
                        \/ \E a \in Pages : Fault(p, a) \/ Write(p, a)
    \/ PagerStep

Spec == Init /\ [][Next]_vars

(* The fault handler runs with interrupts off; the scheduler's round robin *)
(* keeps running the pager while it is Ready, and woken processes.         *)
FairSpec ==
    /\ Spec
    /\ WF_vars(PagerStep)
    /\ \A p \in Procs : WF_vars(FaultBlock(p)) /\ WF_vars(Resume(p))

----------------------------------------------------------------------------
(***************************************************************************)
(* Properties.                                                             *)
(***************************************************************************)

(* The variables hold values of their types.                               *)
TypeOK ==
    /\ pc \in [Procs -> {"user", "pushed", "blocked", "woken", "zombie", "reaped"}]
    /\ page \in [Procs -> Pages]
    /\ mapping \in [Procs -> Mapping]
    /\ mapped \in [Procs -> SUBSET Pages]
    /\ entries \in [Index -> Request \cup {None}]
    /\ completions \in [Index -> Completion \cup {None}]
    /\ pager.pc \in {"check", "populate", "evicted", "publish", "finish", "wake", "blocked"}
    /\ pager.task \in Procs \cup {NoTask}

(***************************************************************************)
(* pager_wait_for_request (task.rs:1910): a request never slips in between *)
(* the pager's empty check and its Blocked state; while the pager sleeps   *)
(* on a request, the process that pushed it is still about to wake it.     *)
(***************************************************************************)
PagerAwake ==
    pager.pc = "blocked" /\ Queued # {} => \E p \in Procs : pc[p] = "pushed"

(***************************************************************************)
(* STAGE7-SELF-AUDIT "Pager lost wakeup - fixed", and the comment of       *)
(* try_handle_file_fault: a process blocked in a fault is waiting for      *)
(* something, its request in the queue or the pager working on it.         *)
(***************************************************************************)
NoLostFaultWakeup ==
    \A p \in Procs : pc[p] = "blocked" =>
        \/ \E i \in Queued : entries[i].task = p
        \/ pager.task = p

(***************************************************************************)
(* docs/file-mmap.md, "the original instruction resumes after wakeup", as  *)
(* progress: a fault ends, unless the pager answers other processes for    *)
(* ever (the queue serves its lowest slot first, not the oldest request).  *)
(***************************************************************************)
FaultEnds ==
    \A p \in Procs : \/ []<>(pager.pc = "wake" /\ pager.task # p)
                     \/ pc[p] = "blocked" ~> pc[p] # "blocked"

(***************************************************************************)
(* The comment of try_handle_file_fault: when the task runs again, the     *)
(* handler returns normally - its fault has been answered.                 *)
(***************************************************************************)
ResumedServed == \A p \in Procs : pc[p] = "woken" => Mine(p) # {}
=============================================================================

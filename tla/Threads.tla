------------------------------- MODULE Threads -------------------------------
(***************************************************************************)
(* The thread registry of thread.rs: bounded records named by slot and     *)
(* generation, with an exit status, a TLS word and an errno, joined by the *)
(* owning process or reclaimed with it.                                    *)
(***************************************************************************)
EXTENDS Naturals, FiniteSets, FiniteSetsExt

CONSTANTS Owners, Values,
          MAX_THREADS,
          MaxGeneration     \* u32::MAX

Slots == 0 .. MAX_THREADS - 1
Id == [slot : Slots, generation : 1 .. MaxGeneration]

VARIABLES record,   \* TABLE
          given,    \* history: whom each id was last given to, and if it had been given before
          stored    \* history: the last TLS value stored through an id

threadVars == <<record, given, stored>>

EmptyRecord == [state |-> "Free", generation |-> 1, owner |-> 0, exit |-> 0, tls |-> 0]

ThreadsInit == /\ record = [s \in Slots |-> EmptyRecord]
               /\ given = << >>
               /\ stored = << >>

Lookup(id) == /\ record[id.slot].generation = id.generation
              /\ record[id.slot].state # "Free"

FreeSlots == {s \in Slots : record[s].state = "Free"}

With(f, id, v) == [i \in DOMAIN f \cup {id} |-> IF i = id THEN v ELSE f[i]]

CreateThread(p) ==
    /\ FreeSlots # {}
    /\ LET s == Min(FreeSlots)
           id == [slot |-> s, generation |-> record[s].generation]
       IN  /\ record' = [record EXCEPT ![s] = [@ EXCEPT !.state = "Running", !.owner = p,
                                                        !.exit = 0, !.tls = 0]]
           /\ given' = With(given, id, [owner |-> p, again |-> id \in DOMAIN given])
           /\ stored' = With(stored, id, 0)

Terminate(id, code) ==
    /\ Lookup(id) /\ record[id.slot].state = "Running"
    /\ record' = [record EXCEPT ![id.slot] = [@ EXCEPT !.state = "Exited", !.exit = code]]
    /\ UNCHANGED <<given, stored>>

\* Mutant: the slot keeps its generation when it is freed.
SameThreadMutant(g) == g

\* checked_add, saturating at u32::MAX.
NextThreadGeneration(g) == IF g = MaxGeneration THEN g ELSE g + 1

Join(p, id) ==
    /\ Lookup(id) /\ record[id.slot].owner = p /\ record[id.slot].state = "Exited"
    /\ record' = [record EXCEPT ![id.slot] =
                     [@ EXCEPT !.state = "Free", !.generation = NextThreadGeneration(id.generation)]]
    /\ UNCHANGED <<given, stored>>

ReapOwner(p) ==
    /\ record' = [s \in Slots |->
                     IF record[s].state # "Free" /\ record[s].owner = p
                     THEN [EmptyRecord EXCEPT !.generation = NextThreadGeneration(record[s].generation)]
                     ELSE record[s]]
    /\ UNCHANGED <<given, stored>>

\* set_tls; set_errno is the same.
SetTls(id, v) ==
    /\ Lookup(id)
    /\ record' = [record EXCEPT ![id.slot].tls = v]
    /\ stored' = With(stored, id, v)
    /\ UNCHANGED given

ThreadsNext ==
    \/ \E p \in Owners : CreateThread(p) \/ ReapOwner(p)
    \/ \E id \in DOMAIN given, v \in Values : Terminate(id, v) \/ SetTls(id, v)
    \/ \E id \in DOMAIN given, p \in Owners : Join(p, id)

ThreadsSpec == ThreadsInit /\ [][ThreadsNext]_threadVars

-----------------------------------------------------------------------------
(* An id below the last generation is given to one thread ever, and a      *)
(* record that answers to it still belongs to that thread's process and    *)
(* holds what was stored through it, whatever was joined, reaped and       *)
(* created since (lookup's generation check).  At u32::MAX the generation  *)
(* saturates and an id is given out again.                                 *)
IdsNameOneThread ==
    \A id \in DOMAIN given : id.generation < MaxGeneration =>
        /\ ~given[id].again
        /\ Lookup(id) => /\ record[id.slot].owner = given[id].owner
                         /\ record[id.slot].tls = stored[id]
=============================================================================

-------------------------- MODULE CompletionQueue --------------------------
(***************************************************************************)
(* The allocation-free record queue of a completion port                   *)
(* (kernel/src/completion_queue.rs).  The array position of an entry is    *)
(* not observable (an operation has at most one entry and readers go by    *)
(* sequence number), so entries is a function of the operation.            *)
(***************************************************************************)
EXTENDS Naturals, FiniteSets, FiniteSetsExt

CONSTANTS Operations, Cookies, Outcomes, CAPACITY, Nothing,
          MaxSequence  \* u64::MAX of next_sequence

\* A reserved entry has sequence 0 (the code's None: numbering starts at 1).
Entry == [cookie : Cookies, outcome : Outcomes \cup {Nothing}, sequence : Nat]

ASSUME QueueAssumption ==
    /\ CAPACITY \in Nat \ {0}
    /\ MaxSequence \in Nat
    /\ MaxSequence > CAPACITY
    /\ Nothing \notin Cookies \cup Outcomes \cup Entry
    /\ IsFiniteSet(Operations)

VARIABLES entries,       \* op |-> its record, or Nothing
          next_sequence  \* given to the next published record

vars == <<entries, next_sequence>>

Live == {op \in Operations : entries[op] # Nothing}
Published == {op \in Live : entries[op].sequence # 0}

Init == /\ entries = [op \in Operations |-> Nothing]
        /\ next_sequence = 1

Reserve(op, cookie) ==
    /\ entries[op] = Nothing
    /\ Cardinality(Live) < CAPACITY
    /\ entries' = [entries EXCEPT
                     ![op] = [cookie |-> cookie, outcome |-> Nothing, sequence |-> 0]]
    /\ UNCHANGED next_sequence

\* The position of a live sequence number in ascending order, from 1.
Rank(s) == Cardinality({op \in Published : entries[op].sequence <= s})

UnrankedMutant ==
    entries
Renumbered ==
    [op \in Operations |->
        IF op \in Published THEN [entries[op] EXCEPT !.sequence = Rank(@)] ELSE entries[op]]

Numbered(current, sequence, op, outcome) ==
    /\ entries' = [current EXCEPT ![op] = [@ EXCEPT !.outcome = outcome, !.sequence = sequence]]
    /\ next_sequence' = sequence + 1

Publish(op, outcome) ==
    /\ op \in Live \ Published
    /\ IF next_sequence = MaxSequence
         THEN Numbered(Renumbered, Cardinality(Published) + 1, op, outcome)
         ELSE Numbered(entries, next_sequence, op, outcome)

Remove(op) ==
    /\ op \in Live
    /\ entries' = [entries EXCEPT ![op] = Nothing]
    /\ UNCHANGED next_sequence

Next == \E op \in Operations :
            \/ \E cookie \in Cookies : Reserve(op, cookie)
            \/ \E outcome \in Outcomes : Publish(op, outcome)
            \/ Remove(op)

Spec == Init /\ [][Next]_vars

-----------------------------------------------------------------------------
\* snapshot: the reader repeatedly takes the smallest sequence after the last.
Sequences == {entries[op].sequence : op \in Published}
Cursor[i \in 0..CAPACITY] ==
    IF i = 0 THEN 0 ELSE Min({s \in Sequences : s > Cursor[i - 1]})

NewestFirstMutant(capacity) ==
    [i \in 1..Min({capacity, Cardinality(Published)}) |->
        LET op == CHOOSE o \in Published :
                    entries[o].sequence = Cursor[Cardinality(Published) + 1 - i]
        IN  [operation |-> op, cookie |-> entries[op].cookie, outcome |-> entries[op].outcome]]
Snapshot(capacity) ==
    [i \in 1..Min({capacity, Cardinality(Published)}) |->
        LET op == CHOOSE o \in Published : entries[o].sequence = Cursor[i]
        IN  [operation |-> op, cookie |-> entries[op].cookie, outcome |-> entries[op].outcome]]

-----------------------------------------------------------------------------
TypeOK == /\ entries \in [Operations -> Entry \cup {Nothing}]
          /\ next_sequence \in 1..MaxSequence

\* Publication numbers are live only once and always lie below the next one,
\* also after next_sequence reached its maximum and the live records were
\* renumbered (completion_queue.rs renumber): no record is overtaken or lost.
SequencesFresh ==
    /\ Cardinality(Live) <= CAPACITY
    /\ \A op \in Published : entries[op].sequence < next_sequence
    /\ \A op, other \in Published :
          entries[op].sequence = entries[other].sequence => op = other

Before(op, other) == entries[op].sequence < entries[other].sequence

\* No call changes the order of two published records that it keeps, and a
\* record that a call publishes comes after every record published before it
\* (publish, renumber and remove of completion_queue.rs).
OrderStep ==
    \A op, other \in Published :
        (op \in Published' /\ other \in Published') => (Before(op, other) <=> Before(op, other)')
LastStep ==
    \A op \in Published : \A new \in Published' :
        (op \in Published' /\ new \notin Published) => Before(op, new)'
FifoOrder == [][OrderStep /\ LastStep]_vars

\* The queue implements the port's promise: a reader that takes every record
\* sees exactly the published ones, in publication order (reserve, publish,
\* renumber, snapshot and remove).
Fifo == INSTANCE PortFifo WITH
            reserved <- [op \in Operations |->
                            IF op \in Live \ Published THEN entries[op].cookie ELSE Nothing],
            ready <- Snapshot(CAPACITY)
ImplementsFifo ==
    Fifo!Init /\ [][entries' # entries => [Fifo!Next]_(Fifo!fifoVars)]_vars
=============================================================================

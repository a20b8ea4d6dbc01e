------------------------------ MODULE PortFifo ------------------------------
(***************************************************************************)
(* What a completion port's queue promises (docs/completion-port-abi.md):  *)
(* association reserves capacity, each accepted operation is published at  *)
(* most once, and published records are read in the order of publication.  *)
(* CompletionQueue is shown to implement this specification.               *)
(***************************************************************************)
EXTENDS Naturals, FiniteSets, Sequences

CONSTANTS Operations,  \* generation-tagged operation handles
          Cookies,     \* application values supplied at association
          Outcomes,    \* what publication stores: class, flags, status, value
          CAPACITY,    \* reserved or ready records per port
          Nothing      \* no reservation

VARIABLES reserved,    \* the cookie of every accepted, unpublished operation
          ready        \* published records, oldest first

fifoVars == <<reserved, ready>>

Waiting == {op \in Operations : reserved[op] # Nothing}
Ready == {ready[i].operation : i \in 1..Len(ready)}

Init == /\ reserved = [op \in Operations |-> Nothing]
        /\ ready = <<>>

Reserve(op, cookie) ==
    /\ op \notin Waiting \cup Ready
    /\ Cardinality(Waiting) + Len(ready) < CAPACITY
    /\ reserved' = [reserved EXCEPT ![op] = cookie]
    /\ UNCHANGED ready

Publish(op, outcome) ==
    /\ op \in Waiting
    /\ ready' = Append(ready, [operation |-> op, cookie |-> reserved[op], outcome |-> outcome])
    /\ reserved' = [reserved EXCEPT ![op] = Nothing]

Remove(op) ==
    /\ op \in Waiting \cup Ready
    /\ reserved' = [reserved EXCEPT ![op] = Nothing]
    /\ ready' = SelectSeq(ready, LAMBDA event : event.operation # op)

Next == \E op \in Operations :
            \/ \E cookie \in Cookies : Reserve(op, cookie)
            \/ \E outcome \in Outcomes : Publish(op, outcome)
            \/ Remove(op)

Spec == Init /\ [][Next]_fifoVars
=============================================================================

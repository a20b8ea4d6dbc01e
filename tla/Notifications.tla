---------------------------- MODULE Notifications ----------------------------
(***************************************************************************)
(* The lifecycle notification queue (notifications.rs): one bounded ring   *)
(* shared by every process, from which a process takes its own entries out *)
(* of the middle, and the calls that post, poll and discard (syscall.rs    *)
(* and the two ends of a process in task.rs).  Every operation is one      *)
(* critical section of QUEUE; the arithmetic of the ring is the point.     *)
(***************************************************************************)
EXTENDS Naturals, Sequences, SequencesExt

CONSTANTS Recipients, Kinds,
          CAPACITY,
          None

Note == [recipient : Recipients, kind : Kinds]
Positions == 0 .. CAPACITY - 1

VARIABLES entries, head, tail, len,
          owed      \* history: what each recipient should still receive

noteVars == <<entries, head, tail, len, owed>>

NotificationsInit ==
    /\ entries = [i \in Positions |-> None]
    /\ head = 0 /\ tail = 0 /\ len = 0
    /\ owed = [r \in Recipients |-> <<>>]

At(offset) == (head + offset) % CAPACITY

\* Mutant: the full ring overwrites its oldest entry.
OverwriteMutant == TRUE

HasRoom == len # CAPACITY

\* publish, from sys_notification_post and from a kill (ChildExit).
PublishNote(n) ==
    /\ HasRoom
    /\ entries' = [entries EXCEPT ![tail] = n]
    /\ tail' = (tail + 1) % CAPACITY
    /\ len' = len + 1
    /\ owed' = [owed EXCEPT ![n.recipient] = Append(@, n)]
    /\ UNCHANGED head

\* The offset of a recipient's oldest entry.
Found(r) == {o \in 0 .. len - 1 : /\ entries[At(o)].recipient = r
                                  /\ \A e \in 0 .. o - 1 : entries[At(e)].recipient # r}

\* Mutant: the hole is filled with the newest entry.
SwapLastMutant(o) == [entries EXCEPT ![At(o)] = entries[At(len - 1)],
                                     ![At(len - 1)] = None]

\* Later entries move down by one, and the last slot is emptied.
Compacted(o) ==
    [i \in Positions |->
        IF \E k \in o .. len - 2 : At(k) = i
        THEN entries[(i + 1) % CAPACITY]
        ELSE IF i = At(len - 1) THEN None ELSE entries[i]]

\* receive_for, from sys_notification_poll.
ReceiveFor(r) ==
    \E o \in Found(r) :
        /\ entries' = Compacted(o)
        /\ tail' = (tail + CAPACITY - 1) % CAPACITY
        /\ len' = len - 1
        /\ owed' = [owed EXCEPT ![r] = Tail(@)]
        /\ UNCHANGED head

Contents == [k \in 1 .. len |-> entries[At(k - 1)]]

\* discard_recipient, when a process exits: the ring is rebuilt from zero.
DiscardRecipient(r) ==
    LET kept == SelectSeq(Contents, LAMBDA n : n.recipient # r)
    IN  /\ entries' = [i \in Positions |-> IF i < Len(kept) THEN kept[i + 1] ELSE None]
        /\ head' = 0
        /\ tail' = Len(kept) % CAPACITY
        /\ len' = Len(kept)
        /\ owed' = [owed EXCEPT ![r] = <<>>]

\* receive, the unaddressed variant.
Receive ==
    /\ entries[head] # None
    /\ entries' = [entries EXCEPT ![head] = None]
    /\ head' = (head + 1) % CAPACITY
    /\ len' = len - 1
    /\ owed' = [owed EXCEPT ![entries[head].recipient] = Tail(@)]
    /\ UNCHANGED tail

NotificationsNext ==
    \/ \E n \in Note : PublishNote(n)
    \/ \E r \in Recipients : ReceiveFor(r) \/ DiscardRecipient(r)
    \/ Receive

NotificationsSpec == NotificationsInit /\ [][NotificationsNext]_noteVars

-----------------------------------------------------------------------------
(* The shared ring is every process's own mailbox: whatever the others     *)
(* post, take out of the middle or discard on exit, the entries addressed  *)
(* to a process are exactly the ones it has not received, oldest first,    *)
(* and the slots outside the window are empty.                             *)
MailboxesFaithful ==
    /\ \A r \in Recipients : SelectSeq(Contents, LAMBDA n : n.recipient = r) = owed[r]
    /\ \A i \in Positions : entries[i] # None <=> \E k \in 0 .. len - 1 : At(k) = i
    /\ tail = At(len)

=============================================================================

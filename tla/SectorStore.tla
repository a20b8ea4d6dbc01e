----------------------------- MODULE SectorStore -----------------------------
(***************************************************************************)
(* What a cached block device promises its file system: a write is seen by *)
(* every later read, reaches the medium at some moment of the device's     *)
(* choosing and at the latest when a flush succeeds, and a loss of power   *)
(* takes back no more than the writes that had not reached it.             *)
(***************************************************************************)
CONSTANTS Lbas, Values

VARIABLES content,   \* what a read answers
          disk,      \* what survives a loss of power
          answer     \* the last call's result

vars == <<content, disk, answer>>

Init ==
    /\ disk \in [Lbas -> Values]
    /\ content = disk
    /\ answer = <<>>

\* Sectors may move to the medium at any time.
Settles == \A l \in Lbas : disk'[l] \in {disk[l], content[l]}

Read(l) ==
    /\ answer' = <<"read", content[l]>>
    /\ UNCHANGED content

Write(l, v) ==
    /\ answer' = <<"written">>
    /\ content' = [content EXCEPT ![l] = v]

Flush ==
    /\ answer' = <<"flushed">>
    /\ disk' = content
    /\ UNCHANGED content

\* A refused call changes nothing that a read answers.
Refuse ==
    /\ answer' = <<>>
    /\ UNCHANGED content

PowerLoss ==
    /\ answer' = <<>>
    /\ content' = disk
    /\ UNCHANGED disk

Next ==
    \/ /\ disk' \in [Lbas -> Values]
       /\ Settles
       /\ \/ Refuse
          \/ Flush
          \/ \E l \in Lbas : Read(l) \/ \E v \in Values : Write(l, v)
    \/ PowerLoss

Spec == Init /\ [][Next]_vars
=============================================================================

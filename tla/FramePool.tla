----------------------------- MODULE FramePool ------------------------------
(***************************************************************************)
(* What the physical frame allocator promises its callers: a frame is in   *)
(* use or it is not, an allocation hands out frames that nobody uses, a    *)
(* release takes back one frame that is in use, and the count it reports   *)
(* is that of the frames in use.                                           *)
(***************************************************************************)
EXTENDS Naturals, FiniteSets

CONSTANT Frames

VARIABLES used, count

vars == <<used, count>>

Init == used = {} /\ count = 0

Take ==
    /\ used' # used
    /\ used \subseteq used' /\ used' \subseteq Frames
    /\ count' = count + Cardinality(used' \ used)
Give == \E frame \in used :
          used' = used \ {frame} /\ count' = count - 1

Next == Take \/ Give

Spec == Init /\ [][Next]_vars

=============================================================================

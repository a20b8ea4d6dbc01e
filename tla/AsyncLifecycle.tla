--------------------------- MODULE AsyncLifecycle ---------------------------
(***************************************************************************)
(* What the generation-tagged operation table promises about one handle:   *)
(* it is born pending for one owner, a producer completes it at most once, *)
(* and once released it never names a live operation again.                *)
(***************************************************************************)
CONSTANTS Handles, Tasks, None

VARIABLES phase,  \* handle |-> its stage of life
          holder  \* handle |-> the task that owns it while it is live

lifeVars == <<phase, holder>>

Init == /\ phase = [h \in Handles |-> "unborn"]
        /\ holder = [h \in Handles |-> None]

Born(h, t) == /\ phase[h] = "unborn"
              /\ phase' = [phase EXCEPT ![h] = "pending"]
              /\ holder' = [holder EXCEPT ![h] = t]

Completed(h) == /\ phase[h] = "pending"
                /\ phase' = [phase EXCEPT ![h] = "complete"]
                /\ UNCHANGED holder

\* One release or cancellation, or every operation of an exiting owner.
Released(hs) == /\ hs # {}
                /\ \A h \in hs : phase[h] \in {"pending", "complete"}
                /\ \A h, g \in hs : holder[h] = holder[g]
                /\ phase' = [h \in Handles |-> IF h \in hs THEN "gone" ELSE phase[h]]
                /\ holder' = [h \in Handles |-> IF h \in hs THEN None ELSE holder[h]]

Next == \/ \E h \in Handles, t \in Tasks : Born(h, t)
        \/ \E h \in Handles : Completed(h)
        \/ \E hs \in SUBSET Handles : Released(hs)

Spec == Init /\ [][Next]_lifeVars
=============================================================================

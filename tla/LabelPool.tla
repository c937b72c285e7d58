----------------------------- MODULE LabelPool ------------------------------
(***************************************************************************)
(* What the label manager promises to the state machine: a pool of MPLS    *)
(* labels from which alloc takes the lowest one that is not outstanding,   *)
(* fails (0) only when every label is outstanding, and to which free       *)
(* returns exactly the label it is given.                                  *)
(***************************************************************************)
EXTENDS Integers

CONSTANTS Labels,      \* the labels of the configured range
          NoLabel      \* what alloc returns when it fails

VARIABLES outstanding, \* labels handed out and not yet returned
          granted      \* the result of the latest alloc

poolVars == <<outstanding, granted>>

Free == Labels \ outstanding

PoolInit == outstanding = {} /\ granted = NoLabel

Grant(l) ==
    /\ l \in Free
    /\ \A m \in Free : l <= m
    /\ outstanding' = outstanding \cup {l}
    /\ granted' = l

Exhausted ==
    /\ Free = {}
    /\ granted' = NoLabel
    /\ UNCHANGED outstanding

Return(l) ==
    /\ outstanding' = outstanding \ {l}
    /\ UNCHANGED granted

PoolNext ==
    \/ \E l \in Labels : Grant(l) \/ Return(l)
    \/ Exhausted

PoolSpec == PoolInit /\ [][PoolNext]_poolVars
=============================================================================

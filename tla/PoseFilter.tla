----------------------------- MODULE PoseFilter -----------------------------
(***************************************************************************)
(* What the users of a pose estimate expect of it, without buffers: the    *)
(* estimate is for a time that moves forward, and it rests on all the      *)
(* measurements that have been fused, each of them once and in order.      *)
(***************************************************************************)
EXTENDS Naturals

VARIABLES
    time,    \* what the estimate is for
    fused    \* the stamps of the measurements it rests on

estimate == <<time, fused>>

Init == time = 0 /\ fused = {}

Predict == time' \in Nat /\ time' > time /\ UNCHANGED fused

Fuse ==
    /\ fused' \subseteq Nat \ {0}
    /\ \E m \in fused' : fused' = fused \cup {m} /\ \A f \in fused : f < m
    /\ UNCHANGED time

Next == Predict \/ Fuse

Spec == Init /\ [][Next]_estimate
=============================================================================

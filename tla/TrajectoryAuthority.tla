------------------------ MODULE TrajectoryAuthority ------------------------
(***************************************************************************)
(* Which trajectory the planner may fly, without caches, slots or threads. *)
(* A plan belongs to a time line (the stamps between two backward jumps of *)
(* the sensors' clocks) and to a mode epoch (the time between two changes  *)
(* of the runtime mode).  Only plans of the present time line and epoch,   *)
(* made from newer and newer frames, become active, and what is active is  *)
(* withdrawn when either of the two ends.                                  *)
(***************************************************************************)
EXTENDS Naturals

VARIABLES
    timeline,   \* number of the time line
    epoch,      \* number of the mode epoch
    newest,     \* stamp of the newest frame a plan was accepted for, 0 if none
    active      \* the plan to fly, at most one

authority == <<timeline, epoch, newest, active>>

Plan(s) == [stamp |-> s, timeline |-> timeline, epoch |-> epoch]

Init == timeline = 0 /\ epoch = 0 /\ newest = 0 /\ active = {}

\* the clocks jump back: every plan is void and stamps start again
NewTimeline ==
    /\ timeline' = timeline + 1
    /\ newest' = 0
    /\ active' = {}
    /\ UNCHANGED epoch

NewEpoch ==
    /\ epoch' = epoch + 1
    /\ active' = {}
    /\ UNCHANGED <<timeline, newest>>

\* a plan is accepted; a hovering planner does not fly it
Accept ==
    /\ newest' \in Nat /\ newest' > newest
    /\ active' = {Plan(newest')} \/ UNCHANGED active
    /\ UNCHANGED <<timeline, epoch>>

Withdraw == active' = {} /\ UNCHANGED <<timeline, epoch, newest>>

Next == NewTimeline \/ NewEpoch \/ Accept \/ Withdraw

Spec == Init /\ [][Next]_authority
=============================================================================

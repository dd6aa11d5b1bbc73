----------------------------- MODULE TrackClock -----------------------------
(***************************************************************************)
(* What the M-detector node relies on when it hands a frame to the         *)
(* tracker, without detections or association: the tracker has a clock and *)
(* tracks that are known by the frame they were born in.  The clock moves  *)
(* forward, or back by at least Gap, in which case every track is dropped; *)
(* a new track is born in the frame the clock shows.                       *)
(***************************************************************************)
EXTENDS Integers

CONSTANT Gap

VARIABLES
    clock,    \* stamp of the newest frame, 0 before the first
    births    \* the stamps live tracks were born at

trackClock == <<clock, births>>

Init == clock = 0 /\ births = {}

\* a newer frame: tracks end or are born
Advance ==
    /\ clock' \in Nat /\ clock' > clock
    /\ births' \subseteq births \cup {clock'}

\* the sensors' clock was set back
Restart ==
    /\ clock' \in Nat /\ clock - clock' >= Gap
    /\ births' \subseteq {clock'}

\* the update goes on with the same frame
Revise ==
    /\ births' \subseteq births \cup {clock}
    /\ UNCHANGED clock

Next == Advance \/ Restart \/ Revise

Spec == Init /\ [][Next]_trackClock
=============================================================================

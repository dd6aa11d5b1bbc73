---------------------------- MODULE LossyWindow ----------------------------
(***************************************************************************)
(* What a bounded frame queue promises to its clients, without threads,    *)
(* deque or condition variable: items are numbered 1, 2, ... as they are   *)
(* accepted, the queue is a window (lo, hi] of at most Capacity of these   *)
(* numbers, and an item is lost only from the old end of a full window.    *)
(***************************************************************************)
EXTENDS Naturals

CONSTANT Capacity

VARIABLES
    hi,     \* number of the newest accepted item
    lo,     \* every item up to lo has left the window
    last,   \* the item delivered last, 0 if none
    open    \* new items are still accepted

window == <<hi, lo, last, open>>

Init == hi = 0 /\ lo = 0 /\ last = 0 /\ open = TRUE

Offer ==
    /\ open
    /\ hi' = hi + 1
    /\ lo' = IF hi - lo >= Capacity THEN lo + 1 ELSE lo
    /\ UNCHANGED <<last, open>>

Deliver ==
    /\ lo < hi
    /\ lo' = lo + 1
    /\ last' = lo + 1
    /\ UNCHANGED <<hi, open>>

Shut == open' = FALSE /\ UNCHANGED <<hi, lo, last>>

Next == Offer \/ Deliver \/ Shut

Spec == Init /\ [][Next]_window
=============================================================================

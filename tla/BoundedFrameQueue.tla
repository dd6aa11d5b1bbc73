------------------------- MODULE BoundedFrameQueue -------------------------
(***************************************************************************)
(* The queue between the ROS callback of the M-detector node and its       *)
(* processing thread (m-detector/BoundedFrameQueue.h).                     *)
(*                                                                         *)
(* Every member function holds mutex_ for its whole body, so each call is  *)
(* one step, except waitAndTake(): condition_.wait releases the mutex      *)
(* while the caller sleeps.  waitState records where each consumer is:     *)
(*   "idle"     not inside waitAndTake()                                   *)
(*   "blocked"  asleep in condition_.wait                                  *)
(*   "woken"    notified (or woken spuriously), has to take the mutex and  *)
(*              evaluate the predicate again                               *)
(*                                                                         *)
(* Time stamps are ticks; ResetGap is kBackwardJumpResetSeconds in ticks.  *)
(* The value of the n-th accepted frame is n.  accepted and taken are      *)
(* history variables, MaxAccepted bounds them.                             *)
(***************************************************************************)
EXTENDS Integers, Sequences, FiniteSets

CONSTANTS
    Capacity,     \* capacity_
    ResetGap,     \* kBackwardJumpResetSeconds
    Stamps,       \* the time stamps frames may carry
    Consumers,    \* the threads that take frames
    MaxAccepted   \* bound on the number of accepted frames

ASSUME CapacityAssumption  == Capacity \in Nat \ {0}
ASSUME ResetGapAssumption  == ResetGap \in Nat \ {0}
ASSUME StampsAssumption    == Stamps \subseteq Nat
ASSUME ConsumersAssumption == IsFiniteSet(Consumers)
ASSUME BoundAssumption     == MaxAccepted \in Nat

VARIABLES
    pending,             \* pending_
    closed,              \* closed_
    hasLastStamp,        \* has_last_stamp_
    lastStamp,           \* last_stamp_
    droppedOldestCount,  \* dropped_oldest_count_
    pushResult,          \* what the latest push() returned
    waitState,           \* where each consumer is
    got,                 \* what the latest take of each consumer returned
    accepted,            \* history: every frame that entered the queue
    taken                \* history: every frame a consumer received

deque     == <<pending, closed, hasLastStamp, lastStamp, droppedOldestCount>>
queueVars == <<deque, pushResult, waitState, got, accepted, taken>>

Results == {"ACCEPTED", "ACCEPTED_AFTER_RESET", "DROPPED_OLDEST",
            "REJECTED_OUT_OF_ORDER", "REJECTED_CLOSED"}

Entry   == [value : Nat, stamp : Stamps]
NoEntry == [value |-> 0]                      \* std::nullopt

Blocked == {c \in Consumers : waitState[c] = "blocked"}
Woken   == {c \in Consumers : waitState[c] = "woken"}

QueueInit ==
    /\ pending = <<>>
    /\ closed = FALSE
    /\ hasLastStamp = FALSE
    /\ lastStamp = 0
    /\ droppedOldestCount = 0
    /\ pushResult = "none"
    /\ waitState = [c \in Consumers |-> "idle"]
    /\ got = [c \in Consumers |-> NoEntry]
    /\ accepted = <<>>
    /\ taken = <<>>

-----------------------------------------------------------------------------
(* push() *)

\* Faulty variant: two frames may carry the same stamp.
AdmitsEqualStamp(s) == hasLastStamp /\ s < lastStamp /\ lastStamp - s < ResetGap

OutOfOrder(s) == hasLastStamp /\ s <= lastStamp /\ lastStamp - s < ResetGap
JumpsBack(s)  == hasLastStamp /\ s <= lastStamp /\ lastStamp - s >= ResetGap

MustEvict == Len(pending) >= Capacity
Backlog   == IF MustEvict THEN Tail(pending) ELSE pending

\* Faulty variant: a notification is forgotten.
NotifyNobody == UNCHANGED waitState

NotifyOne ==
    \/ Blocked = {} /\ UNCHANGED waitState
    \/ \E c \in Blocked : waitState' = [waitState EXCEPT ![c] = "woken"]

\* Faulty variant: close() uses notify_one.
NotifyFirst ==
    \/ Blocked = {} /\ UNCHANGED waitState
    \/ \E c \in Blocked : waitState' = [waitState EXCEPT ![c] = "woken"]

NotifyAll ==
    waitState' = [c \in Consumers |->
                    IF waitState[c] = "blocked" THEN "woken" ELSE waitState[c]]

RejectClosed ==
    /\ closed
    /\ pushResult' = "REJECTED_CLOSED"
    /\ UNCHANGED <<deque, waitState, got, accepted, taken>>

RejectOutOfOrder(s) ==
    /\ ~closed
    /\ OutOfOrder(s)
    /\ pushResult' = "REJECTED_OUT_OF_ORDER"
    /\ UNCHANGED <<deque, waitState, got, accepted, taken>>

Accept(s) ==
    LET frame == [value |-> Len(accepted) + 1, stamp |-> s]
    IN  /\ ~closed
        /\ ~OutOfOrder(s)
        /\ Len(accepted) < MaxAccepted
        /\ pending' = Append(Backlog, frame)
        /\ droppedOldestCount' =
                droppedOldestCount + (IF MustEvict THEN 1 ELSE 0)
        /\ hasLastStamp' = TRUE
        /\ lastStamp' = s
        /\ NotifyOne
        /\ pushResult' = IF JumpsBack(s) THEN "ACCEPTED_AFTER_RESET"
                         ELSE IF MustEvict THEN "DROPPED_OLDEST"
                         ELSE "ACCEPTED"
        /\ accepted' = Append(accepted, frame)
        /\ UNCHANGED <<closed, got, taken>>

Push(s) == RejectClosed \/ RejectOutOfOrder(s) \/ Accept(s)

-----------------------------------------------------------------------------
(* takeLocked() and its two callers, close() *)

takeUnchanged == <<closed, hasLastStamp, lastStamp, droppedOldestCount,
                   pushResult, accepted>>

\* Faulty variants: the frame taken stays in the deque; a closed queue withholds
\* what is still pending.
TakesWithoutPop(c) ==
    /\ IF pending = <<>>
       THEN got' = [got EXCEPT ![c] = NoEntry] /\ UNCHANGED <<pending, taken>>
       ELSE /\ Len(taken) < 2 * MaxAccepted
            /\ got' = [got EXCEPT ![c] = Head(pending)]
            /\ taken' = Append(taken, Head(pending))
            /\ UNCHANGED pending
    /\ UNCHANGED takeUnchanged
TakesNothingOnceClosed(c) ==
    /\ IF pending = <<>> \/ closed
       THEN got' = [got EXCEPT ![c] = NoEntry] /\ UNCHANGED <<pending, taken>>
       ELSE /\ got' = [got EXCEPT ![c] = Head(pending)]
            /\ pending' = Tail(pending)
            /\ taken' = Append(taken, Head(pending))
    /\ UNCHANGED takeUnchanged

TakeLocked(c) ==
    /\ \/ /\ pending = <<>>
          /\ got' = [got EXCEPT ![c] = NoEntry]
          /\ UNCHANGED <<pending, taken>>
       \/ /\ pending # <<>>
          /\ got' = [got EXCEPT ![c] = Head(pending)]
          /\ pending' = Tail(pending)
          /\ taken' = Append(taken, Head(pending))
    /\ UNCHANGED takeUnchanged

TryTake(c) ==
    /\ waitState[c] = "idle"
    /\ TakeLocked(c)
    /\ UNCHANGED waitState

\* the predicate condition_.wait is given
Ready == closed \/ pending # <<>>

Sleep(c) ==
    /\ waitState[c] \in {"idle", "woken"}
    /\ ~Ready
    /\ waitState' = [waitState EXCEPT ![c] = "blocked"]
    /\ UNCHANGED <<deque, pushResult, got, accepted, taken>>

TakeReady(c) ==
    /\ waitState[c] \in {"idle", "woken"}
    /\ Ready
    /\ waitState' = [waitState EXCEPT ![c] = "idle"]
    /\ TakeLocked(c)

WaitAndTake(c) == Sleep(c) \/ TakeReady(c)

\* std::condition_variable may return without a notification
SpuriousWake(c) ==
    /\ waitState[c] = "blocked"
    /\ waitState' = [waitState EXCEPT ![c] = "woken"]
    /\ UNCHANGED <<deque, pushResult, got, accepted, taken>>

Close ==
    /\ closed' = TRUE
    /\ NotifyAll
    /\ UNCHANGED <<pending, hasLastStamp, lastStamp, droppedOldestCount,
                   pushResult, got, accepted, taken>>

QueueNext ==
    \/ \E s \in Stamps : Push(s)
    \/ \E c \in Consumers : TryTake(c) \/ WaitAndTake(c) \/ SpuriousWake(c)
    \/ Close

\* A thread woken from condition_.wait is eventually scheduled; nothing obliges
\* a client to call push, take or close.
Resume(c) == waitState[c] = "woken" /\ WaitAndTake(c)

QueueSafety == QueueInit /\ [][QueueNext]_queueVars

QueueSpec ==
    QueueSafety /\ \A c \in Consumers : WF_queueVars(Resume(c))

-----------------------------------------------------------------------------
(* Properties *)

\* the number of frames that have left the queue
Removed == droppedOldestCount + Len(taken)

LastTaken == IF taken = <<>> THEN 0 ELSE taken[Len(taken)].value

Window == INSTANCE LossyWindow
            WITH hi <- Len(accepted), lo <- Removed, last <- LastTaken, open <- ~closed

\* The queue implements the lossy window: every member function, seen through
\* the counts of accepted and removed frames, is a step of it or a stutter.
ImplementsWindow == Window!Spec

\* The variables have their types and the queue never exceeds its capacity.
QueueTypeOK ==
    /\ pending \in Seq(Entry) /\ Len(pending) <= Capacity
    /\ closed \in BOOLEAN
    /\ hasLastStamp \in BOOLEAN
    /\ lastStamp \in Nat
    /\ droppedOldestCount \in Nat
    /\ pushResult \in Results \cup {"none"}
    /\ waitState \in [Consumers -> {"idle", "blocked", "woken"}]
    /\ got \in [Consumers -> Entry \cup {NoEntry}]
    /\ accepted \in Seq(Entry)
    /\ taken \in Seq(Entry)

\* Every accepted frame is delivered, counted as dropped or still pending, and
\* what is pending is exactly the newest part of what was accepted: only the
\* oldest frame is ever evicted (push) and only the oldest is ever taken.
PendingIsNewest ==
    /\ Len(accepted) = Removed + Len(pending)
    /\ \A i \in 1..Len(pending) : pending[i] = accepted[Removed + i]

\* Consumers together receive the frames in the order push accepted them, and
\* no frame twice, whatever was evicted in between.
DeliveredInOrder ==
    \A i, j \in 1..Len(taken) : i < j => taken[i].value < taken[j].value

\* Two frames accepted one after the other either move forward in time or are
\* a backward jump of at least kBackwardJumpResetSeconds.
AcceptedStampsOrdered ==
    \A i \in 1..(Len(accepted) - 1) :
        \/ accepted[i].stamp < accepted[i + 1].stamp
        \/ accepted[i].stamp - accepted[i + 1].stamp >= ResetGap

\* While a consumer sleeps there are at least as many woken consumers as
\* pending frames: notify_one per push is enough, no wake-up is lost when
\* another consumer takes the frame first.
NoLostWakeup == Blocked # {} => Cardinality(Woken) >= Len(pending)

\* After close() nobody sleeps in waitAndTake() and nobody can fall asleep.
NobodySleepsWhenClosed == closed => Blocked = {}

\* close() makes every waitAndTake() call in progress return.
CloseReleasesWaiters ==
    \A c \in Consumers :
        (closed /\ waitState[c] # "idle") ~> (waitState[c] = "idle")

\* A frame that arrives while every consumer waits is delivered to one of
\* them (or evicted by a later one); it does not stay in the queue unseen.
WaitersAreServed ==
    (pending # <<>> /\ \A c \in Consumers : waitState[c] # "idle")
        ~> (pending = <<>> \/ \E c \in Consumers : waitState[c] = "idle")
=============================================================================

----------------------------- MODULE PoseFusion -----------------------------
(***************************************************************************)
(* The pose filter of the vehicle (ekf_node_vio_timesync_with_acc_pub.cpp, *)
(* with TimeSync): IMU messages predict the state; odometry, which is late,*)
(* corrects it where it was measured.  For that the node keeps the state   *)
(* from before each of the last IMU messages: it returns to the frame next *)
(* to the odometry, corrects the state there and predicts it anew with the *)
(* messages since.                                                         *)
(*                                                                         *)
(* Of the state (with its covariance, which is kept in step) the model has *)
(* the time it was predicted to and the measurements it rests on.  One     *)
(* thread runs both callbacks.  An IMU message is handled when it is       *)
(* stamped; odometry may come with any delay, and any time after the one   *)
(* before it.  The node was made for odometry "without delay" (line 627);  *)
(* InTime is the delay it stands.                                          *)
(***************************************************************************)
EXTENDS Integers, Sequences

CONSTANTS
    SeqSize,      \* seqsize
    MaxImuGap,    \* most time between two IMU messages
    MaxTime,      \* bound on the clock
    LateTime      \* bound on it for odometry that is not in time, and from then on

ASSUME SensorAssumption ==
    SeqSize \in Nat \ {0, 1} /\ MaxImuGap \in Nat \ {0} /\ {MaxTime, LateTime} \subseteq Nat

VARIABLES
    now,       \* the time
    imu,       \* stamp of the last IMU message, used or not
    odom,      \* stamp of the last odometry, 0 before the first
    sys_seq,   \* frames: an IMU message's stamp, and X_state before it
    X_state,   \* the state: predicted to `at', resting on the measurements `seen'
    Z,         \* Z_measurement, by its stamp; 0 is what initsys() makes it
    handled,   \* history: when the last odometry was handled, as long as inTime
    inTime,    \* history: every odometry so far was InTime
    timely,    \* history: X_state as long as inTime, and as it was then
    frontGap,  \* history: time from the message before the front frame's, 0 if none
    madeUp     \* history: a correction at the front frame took another step for it

kept    == <<sys_seq, frontGap>>
history == <<handled, inTime, madeUp>>
vars    == <<now, imu, odom, kept, X_state, Z, history, timely>>

State == [at : Nat, seen : SUBSET Nat]
Frame == [stamp : Nat, before : State]

Init ==
    /\ now = 0 /\ imu = 0 /\ odom = 0
    /\ sys_seq = <<>>
    /\ X_state = [at |-> 0, seen |-> {}]
    /\ Z = 0
    /\ handled = 0 /\ inTime = TRUE /\ timely = X_state
    /\ frontGap = 0 /\ madeUp = FALSE

Tick ==
    /\ now < (IF inTime THEN MaxTime ELSE LateTime) /\ now - imu < MaxImuGap
    /\ now' = now + 1
    /\ UNCHANGED <<imu, odom, kept, X_state, Z, history, timely>>

Follows == timely' = IF inTime' THEN X_state' ELSE timely

-----------------------------------------------------------------------------
(* imu_callback *)

Gap(i) == sys_seq[i].stamp - sys_seq[i-1].stamp

\* seq_keep
Kept(frame) == Append(IF Len(sys_seq) < SeqSize THEN sys_seq ELSE Tail(sys_seq), frame)

\* time_last; the first message only says what time the state is for
Predicted ==
    IF sys_seq = <<>> THEN [X_state EXCEPT !.at = now]
    ELSE [X_state EXCEPT !.at = @ + (now - sys_seq[Len(sys_seq)].stamp)]

Imu ==
    /\ imu < now /\ imu' = now
    /\ IF odom = 0 THEN UNCHANGED <<kept, X_state>>
       ELSE /\ sys_seq' = Kept([stamp |-> now, before |-> X_state])
            /\ frontGap' = IF Len(sys_seq) < SeqSize THEN frontGap ELSE Gap(2)
            /\ X_state' = Predicted
    /\ UNCHANGED <<now, odom, Z, history>>
    /\ Follows

-----------------------------------------------------------------------------
(* vioodom_callback *)

\* frames between which something at time o was measured, by the later of the two
Around(o) == {i \in 2..Len(sys_seq) : sys_seq[i-1].stamp <= o /\ o < sys_seq[i].stamp}

OutsideFrame(o) == IF o <= sys_seq[1].stamp THEN 1 ELSE Len(sys_seq)

\* Faulty variant: the frame before, which need not be the nearer one.
FrameBefore(o) ==
    IF Around(o) = {} THEN OutsideFrame(o) ELSE (CHOOSE i \in Around(o) : TRUE) - 1

\* search_proper_frame
ProperFrame(o) ==
    IF Around(o) = {} THEN OutsideFrame(o)
    ELSE LET i == CHOOSE i \in Around(o) : TRUE
         IN  IF o - sys_seq[i-1].stamp > sys_seq[i].stamp - o THEN i ELSE i - 1

\* Faulty variant: the front frame takes no step.
NoFirstStep(r) == IF r # 1 THEN Gap(r) ELSE 0
\* dt_0_rp; the front frame has no predecessor and borrows its successor's step
FirstStep(r) == IF r # 1 THEN Gap(r) ELSE Gap(2)

\* Faulty variant: one frame more than the search needs.
TooFewFrames == Len(sys_seq) <= 2
TooShort     == Len(sys_seq) <= 1

Initialize(o) ==
    /\ X_state' = [X_state EXCEPT !.seen = {o}]
    /\ UNCHANGED <<kept, Z, madeUp>>

\* with no frame to go back to the state is corrected as it is, before the new
\* measurement has been assigned
UpdateLatestState ==
    /\ X_state' = [X_state EXCEPT !.seen = @ \cup {Z}]
    /\ UNCHANGED <<kept, Z, madeUp>>

\* re_propagate: from frame r the state goes through the messages after it; the
\* states kept with them are not replaced
RePropagated(state, r) == [state EXCEPT !.at = @ + (sys_seq[Len(sys_seq)].stamp - sys_seq[r].stamp)]

\* the frames before r are dropped
Correct(r, o) ==
    /\ sys_seq' = SubSeq(sys_seq, r, Len(sys_seq))
    /\ Z' = o
    /\ X_state' = RePropagated([at   |-> sys_seq[r].before.at + FirstStep(r),
                                seen |-> sys_seq[r].before.seen \cup {o}], r)
    /\ frontGap' = IF r = 1 THEN frontGap ELSE Gap(r)
    /\ madeUp' = (madeUp \/ (r = 1 /\ Gap(2) # frontGap))

\* Two IMU messages come after an odometry has been handled and before the next is
\* measured, and the buffer reaches back to what is measured.
InTime(o) ==
    /\ o > handled + 2 * MaxImuGap
    /\ SeqSize > (now - o) + 2 * MaxImuGap

VioOdom(o) ==
    /\ odom < o /\ o <= now
    /\ odom' = o
    /\ IF odom = 0 THEN Initialize(o)
       ELSE IF TooShort THEN UpdateLatestState
       ELSE Correct(ProperFrame(o), o)
    /\ inTime' = (inTime /\ (odom = 0 \/ InTime(o)))
    /\ inTime' \/ now <= LateTime   \* bound
    /\ handled' = IF inTime' THEN now ELSE 0
    /\ UNCHANGED <<now, imu>>
    /\ Follows

\* nothing has to come
Waits == UNCHANGED vars

Next == Tick \/ Imu \/ (\E o \in 1..MaxTime : VioOdom(o)) \/ Waits

Spec == Init /\ [][Next]_vars

-----------------------------------------------------------------------------
(* Properties *)

FusionTypeOK ==
    /\ now \in Nat /\ imu \in Nat /\ odom \in Nat /\ Z \in Nat
    /\ sys_seq \in Seq(Frame) /\ Len(sys_seq) <= SeqSize
    /\ X_state \in State /\ timely \in State
    /\ handled \in Nat /\ frontGap \in Nat
    /\ inTime \in BOOLEAN /\ madeUp \in BOOLEAN

\* What is published with the stamp of the newest IMU message is predicted to that
\* stamp (line 18: "time stamp aligned between imu and img"), although corrections
\* restart the prediction at another frame, from a state kept earlier.  For the front
\* frame the code makes its first step up, from the frame after it: the estimate is
\* right as long as the IMU messages around the front are evenly spaced, and may be
\* ahead or behind for good once a correction was made there when they were not, or
\* when no message came before.
EstimateIsCurrent == sys_seq # <<>> /\ ~madeUp => X_state.at = imu

Distance(frame, o) ==
    IF frame.stamp < o THEN o - frame.stamp ELSE frame.stamp - o

\* A correction is made at the frame that is nearest to where the odometry was measured,
\* however late it is and whether or not the buffer reaches back to it.
CorrectsNearest ==
    [][odom # 0 /\ odom' # odom =>
          \A i \in DOMAIN sys_seq :
             Distance(sys_seq'[1], odom') <= Distance(sys_seq[i], odom')]_vars

\* As long as odometry comes in time, returning to an earlier frame does not undo a
\* correction made in the meantime, and no correction is made with anything but the
\* measurement that has come.
Filter == INSTANCE PoseFilter WITH time <- timely.at, fused <- timely.seen
ImplementsFilter == Filter!Spec
=============================================================================

------------------------------ MODULE ScanSync ------------------------------
(***************************************************************************)
(* How FAST-LIO puts the two sensors together: the callbacks of lidar and  *)
(* IMU fill buffers (laserMapping.cpp), sync_packages() waits for the IMU  *)
(* to reach the end of a sweep and hands both on, and the state is         *)
(* predicted with the IMU messages to the end of the sweep                 *)
(* (IMU_Processing.hpp).                                                   *)
(*                                                                         *)
(* One thread runs the callbacks, in ros::spinOnce(), and the main loop.   *)
(* Of a scan the model has the stamp it came with, of an IMU message its   *)
(* stamp, of the state the time it is predicted for.  How long a sweep     *)
(* takes is left open: by its last point, or on average if its points do   *)
(* not say.  Either clock may be set back, as the callbacks expect, and a  *)
(* lost message is a gap between stamps.  The offset between the clocks    *)
(* (time_sync_en) is left out, and so is the timer that looks for          *)
(* anomalies, which the code defines and does not start.                   *)
(***************************************************************************)
EXTENDS Integers, Sequences, FiniteSets

CONSTANTS
    MaxStamp,     \* bound: stamps of lidar and IMU
    Sweeps,       \* how long sweeps take
    InitMessages, \* MAX_INI_COUNT - 1: the count starts at one
    MaxScans,     \* bound: scans waiting
    MaxImu,       \* bound: IMU messages waiting
    MaxJumps      \* bound: clocks set back, of each sensor

ASSUME SyncAssumption ==
    /\ MaxStamp \in Nat /\ Sweeps \subseteq Nat /\ InitMessages \in Nat
    /\ MaxScans \in Nat /\ MaxImu \in Nat /\ MaxJumps \in Nat

VARIABLES
    lidar_buffer,         \* scans, each by the stamp it came with
    time_buffer,          \* stamps of scans
    imu_buffer,           \* IMU messages, by their stamps
    last_timestamp_lidar, \* of the newest scan
    last_timestamp_imu,   \* of the newest IMU message
    lidar_pushed,         \* the front scan has been taken as `scan' and waits
    scan,                 \* meas.lidar, meas.lidar_beg_time, lidar_end_time
    flg_first_scan,       \* no scan has been handed on
    init_iter_num,        \* IMU messages used to initialize the filter, up to
                          \* InitMessages + 1: imu_need_init_ is FALSE
    last_imu,             \* stamp of last_imu_
    last_lidar_end_time,  \* last_lidar_end_time_, which nothing initializes
    predicted,            \* history: how much time the last prediction was for
    estimated,            \* history: a scan has been predicted to
    misaligned,           \* history: the lidar's clock was set back while a scan waited
    jumps                 \* the clocks set back, lidar and IMU

buffers    == <<lidar_buffer, time_buffer, imu_buffer>>
newest     == <<last_timestamp_lidar, last_timestamp_imu>>
sync       == <<lidar_pushed, scan, flg_first_scan>>
prediction == <<init_iter_num, last_imu, last_lidar_end_time, predicted, estimated>>
vars       == <<buffers, newest, sync, prediction, misaligned, jumps>>

Stamps == 0..MaxStamp

\* last_lidar_end_time_ may be anything before it is set: a time the prediction
\* takes for past, or for future.
Init ==
    /\ lidar_buffer = <<>> /\ time_buffer = <<>> /\ imu_buffer = <<>>
    /\ last_timestamp_lidar = 0 /\ last_timestamp_imu = -1
    /\ lidar_pushed = FALSE
    /\ scan = [own |-> 0, begin |-> 0, end |-> 0]
    /\ flg_first_scan = TRUE
    /\ init_iter_num = 0 /\ last_imu = 0
    /\ last_lidar_end_time \in {0, 2 * MaxStamp}
    /\ predicted = 0 /\ estimated = FALSE
    /\ misaligned = FALSE
    /\ jumps = [lidar |-> 0, imu |-> 0]

-----------------------------------------------------------------------------
(* The callbacks *)

\* standard_pcl_cbk, livox_pcl_cbk: a clock set back clears the scans, and
\* neither their stamps nor lidar_pushed
LidarCbk(stamp) ==
    LET back == stamp < last_timestamp_lidar
    IN  /\ Len(time_buffer) < MaxScans
        /\ back => jumps.lidar < MaxJumps
        /\ lidar_buffer' = Append(IF back THEN <<>> ELSE lidar_buffer, stamp)
        /\ time_buffer' = Append(time_buffer, stamp)
        /\ last_timestamp_lidar' = stamp
        /\ misaligned' = (misaligned \/ (back /\ lidar_buffer # <<>>))
        /\ jumps' = IF back THEN [jumps EXCEPT !.lidar = @ + 1] ELSE jumps
        /\ UNCHANGED <<imu_buffer, last_timestamp_imu, sync, prediction>>

\* Faulty variant: the messages from before stay.
KeepsOldMessages(back) == imu_buffer
\* imu_cbk: a clock set back clears the messages
Remaining(back) == IF back THEN <<>> ELSE imu_buffer

ImuCbk(stamp) ==
    LET back == stamp < last_timestamp_imu
    IN  /\ Len(imu_buffer) < MaxImu
        /\ back => jumps.imu < MaxJumps
        /\ imu_buffer' = Append(Remaining(back), stamp)
        /\ last_timestamp_imu' = stamp
        /\ jumps' = IF back THEN [jumps EXCEPT !.imu = @ + 1] ELSE jumps
        /\ UNCHANGED <<lidar_buffer, time_buffer, last_timestamp_lidar, sync, prediction,
                       misaligned>>

-----------------------------------------------------------------------------
(* The prediction *)

\* UndistortPcl: the steps over the messages after the last scan's end, beginning
\* with the last message of the scan before, and one to the end of this scan
Step(earlier, later) ==
    IF later < last_lidar_end_time THEN 0
    ELSE IF earlier < last_lidar_end_time THEN later - last_lidar_end_time
    ELSE later - earlier

Apart(s, t) == IF s < t THEN t - s ELSE s - t

Steps(group) ==
    LET v_imu == <<last_imu>> \o group
    IN  [i \in 1..Len(group) |-> Step(v_imu[i], v_imu[i + 1])]

\* what the first n of the steps come to, one after the other
SumTo(steps, n) ==
    LET sum[i \in 0..n] == IF i = 0 THEN 0 ELSE sum[i - 1] + steps[i]
    IN  sum[n]

Prediction(group, end) ==
    SumTo(Steps(group), Len(group)) + Apart(group[Len(group)], end)

\* ImuProcess::Process for a scan that ends at `end', with the IMU messages handed on
Process(group, end) ==
    IF group = <<>> THEN UNCHANGED prediction
    ELSE /\ last_imu' = group[Len(group)]
         /\ IF init_iter_num <= InitMessages
            THEN /\ init_iter_num' =
                       IF init_iter_num + Len(group) > InitMessages THEN InitMessages + 1
                       ELSE init_iter_num + Len(group)
                 /\ UNCHANGED <<last_lidar_end_time, predicted, estimated>>
            ELSE /\ predicted' = Prediction(group, end)
                 /\ last_lidar_end_time' = end
                 /\ estimated' = TRUE
                 /\ UNCHANGED init_iter_num

-----------------------------------------------------------------------------
(* sync_packages *)

\* The loop goes on while the message before, or the front one itself, is before the end.
GoesOn(i, end) == imu_buffer[IF i = 1 THEN 1 ELSE i - 1] < end

\* Faulty variant: the message after the end is taken as well.
TakesOneMore(i, end) == GoesOn(i, end)
Takes(i, end)        == GoesOn(i, end) /\ imu_buffer[i] <= end

Count(end) == Cardinality({i \in DOMAIN imu_buffer : Takes(i, end)})

\* the scan that waits, or the front one, which is given the front stamp
ScansToPush ==
    IF lidar_pushed THEN {scan}
    ELSE {[own |-> Head(lidar_buffer), begin |-> Head(time_buffer),
           end |-> Head(time_buffer) + d] : d \in Sweeps}

\* Faulty variant: the stamp stays.
StampsKept == time_buffer
StampsLeft == Tail(time_buffer)

\* the scan and the messages up to its end leave the buffers; the first scan is dropped
HandOn(end) ==
    /\ lidar_pushed' = FALSE
    /\ lidar_buffer' = Tail(lidar_buffer)
    /\ time_buffer' = StampsLeft
    /\ imu_buffer' = SubSeq(imu_buffer, Count(end) + 1, Len(imu_buffer))
    /\ flg_first_scan' = FALSE
    /\ IF flg_first_scan THEN UNCHANGED prediction
       ELSE Process(SubSeq(imu_buffer, 1, Count(end)), end)

SyncPackages ==
    /\ lidar_buffer # <<>> /\ imu_buffer # <<>>
    /\ scan' \in ScansToPush
    /\ IF last_timestamp_imu < scan'.end
       THEN lidar_pushed' = TRUE /\ UNCHANGED <<buffers, flg_first_scan, prediction>>
       ELSE HandOn(scan'.end)
    /\ UNCHANGED <<newest, misaligned, jumps>>

-----------------------------------------------------------------------------

\* nothing has to come
Waits == UNCHANGED vars

Next ==
    \/ \E stamp \in 1..MaxStamp : LidarCbk(stamp) \/ ImuCbk(stamp)
    \/ SyncPackages
    \/ Waits

Spec == Init /\ [][Next]_vars

-----------------------------------------------------------------------------
(* Properties *)

Sorted(s) == \A i, j \in DOMAIN s : i <= j => s[i] <= s[j]

\* The variables have their types, there is a stamp for every scan, and the IMU
\* messages are in order, although their clock may be set back.
SyncTypeOK ==
    /\ lidar_buffer \in Seq(Stamps) /\ time_buffer \in Seq(Stamps) /\ imu_buffer \in Seq(Stamps)
    /\ Len(lidar_buffer) <= Len(time_buffer)
    /\ Sorted(imu_buffer)
    /\ last_timestamp_lidar \in Stamps /\ last_timestamp_imu \in Stamps \cup {-1}
    /\ lidar_pushed \in BOOLEAN /\ flg_first_scan \in BOOLEAN
    /\ scan \in [own : Stamps, begin : Stamps, end : Nat]
    /\ init_iter_num \in 0..(InitMessages + 1)
    /\ last_imu \in Stamps /\ last_lidar_end_time \in Nat
    /\ predicted \in Int /\ estimated \in BOOLEAN
    /\ misaligned \in BOOLEAN /\ jumps \in [lidar : 0..MaxJumps, imu : 0..MaxJumps]

\* A scan is predicted to, and undistorted, with its own stamp, also if it had to wait
\* for the IMU and others came in the meantime, or if a clock was set back; and the scan
\* that waits is still the front one, which leaves the buffer when it is handed on.  (If
\* the lidar's clock was set back while a scan waited, the stamps of the cleared scans
\* stay, and every scan from then on gets an older one's.)
ScansHaveTheirStamps ==
    ~misaligned => /\ scan.own = scan.begin
                   /\ lidar_pushed => lidar_buffer # <<>> /\ scan.own = Head(lidar_buffer)

\* Each stretch of time is predicted over once: from the end of the scan before to the
\* end of this one, forward, whatever scans were skipped in between for want of IMU
\* messages, and however their ends lie to the messages.  This holds through jumps of
\* the clocks too, of a scan that has messages from after the end of the one before;
\* without jumps each has.
PredictedOnce ==
    [][estimated /\ <<predicted, last_lidar_end_time>>' # <<predicted, last_lidar_end_time>> =>
          /\ last_imu' >= last_lidar_end_time =>
                predicted' = last_lidar_end_time' - last_lidar_end_time
          /\ jumps.imu = 0 => last_imu' >= last_lidar_end_time]_vars
=============================================================================

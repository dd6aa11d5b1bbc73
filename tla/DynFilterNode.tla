--------------------------- MODULE DynFilterNode ---------------------------
(***************************************************************************)
(* The M-detector node (dynfilter_with_odom.cpp): the ROS callback that    *)
(* feeds the frame queue, the processing thread that takes a frame, runs   *)
(* the detector and the integrated tracker (FrameTracker::update) and      *)
(* publishes, and the shutdown sequence of main().                         *)
(*                                                                         *)
(* The tracker is reduced to its clock (last_frame_stamp_) and the frames  *)
(* its live tracks were created in: which detections match which tracks is *)
(* left open.  DynObjFilter::filter always returns a frame or throws here  *)
(* (its point cloud is never null and it never calls the fast callback),   *)
(* so the branch for a missing detector frame does not arise.              *)
(***************************************************************************)
EXTENDS BoundedFrameQueue

CONSTANTS
    SyncMaxInterval,   \* largest cloud / odometry stamp difference
    MaxFailures        \* bound on the number of failed frames

ASSUME ThreadAssumption  == Consumers # {}
ASSUME SyncAssumption    == SyncMaxInterval \in Nat
ASSUME FailureAssumption == MaxFailures \in Nat

VARIABLES
    main,           \* "spinning", "joining" or "exited"
    worker,         \* what the processing thread is doing
    trackerStamp,   \* last_frame_stamp_, 0 is the zero stamp
    tracks,         \* stamps of the frames the tracks in tracks_ were born in
    published,      \* history: the track arrays published, in order
    failures        \* history: frames an exception other than a stale stamp cost

trackerVars == <<trackerStamp, tracks>>
nodeVars    == <<queueVars, main, worker, trackerVars, published, failures>>

w     == CHOOSE c \in Consumers : TRUE      \* processing_thread
frame == got[w]                             \* the entry it works on

Publication == [value : Nat, stamp : Stamps, kind : {"tracks", "empty"}]

Publish(kind) ==
    published' = Append(published,
                        [value |-> frame.value, stamp |-> frame.stamp, kind |-> kind])

NodeInit ==
    /\ QueueInit
    /\ main = "spinning"
    /\ worker = "taking"
    /\ trackerStamp = 0
    /\ tracks = {}
    /\ published = <<>>
    /\ failures = 0

-----------------------------------------------------------------------------
(* SynchronizedInputCallback, run by ros::spin() in the main thread *)

Distance(a, b) == IF a < b THEN b - a ELSE a - b

PairUsable(cloud, odom) ==
    cloud # 0 /\ odom # 0 /\ Distance(cloud, odom) <= SyncMaxInterval

SynchronizedInputCallback(cloud, odom) ==
    /\ main = "spinning"
    /\ PairUsable(cloud, odom)
    /\ Push(cloud)
    /\ UNCHANGED <<main, worker, trackerVars, published, failures>>

-----------------------------------------------------------------------------
(* ProcessingWorker *)

WorkerWaits ==
    /\ worker = "taking"
    /\ Sleep(w)
    /\ UNCHANGED <<main, worker, trackerVars, published, failures>>

WorkerTakes ==
    /\ worker = "taking"
    /\ TakeReady(w)
    /\ worker' = IF got'[w] = NoEntry THEN "ended" ELSE "filtering"
    /\ UNCHANGED <<main, trackerVars, published, failures>>

WorkerWoken ==
    /\ SpuriousWake(w)
    /\ UNCHANGED <<main, worker, trackerVars, published, failures>>

\* Conversion or filtering throws: ProcessingWorker drops the frame, nothing is
\* published for it and the tracker never hears of it.
FrameFails ==
    /\ worker = "filtering"
    /\ failures < MaxFailures
    /\ failures' = failures + 1
    /\ worker' = "taking"
    /\ UNCHANGED <<queueVars, main, trackerVars, published>>

FilterReturns ==
    /\ worker = "filtering"
    /\ worker' = "tracking"
    /\ UNCHANGED <<queueVars, main, trackerVars, published, failures>>

\* FrameTracker::update on the stamp of the current frame

\* Faulty variants: the reset gap is excluded from the resets; no stamp is stale.
RejectsAtTheGap ==
    trackerStamp # 0 /\ frame.stamp <= trackerStamp /\ trackerStamp - frame.stamp <= ResetGap
RejectsNothing  == FALSE

TrackerRejects ==
    /\ trackerStamp # 0
    /\ frame.stamp <= trackerStamp
    /\ trackerStamp - frame.stamp < ResetGap

TrackerResets ==
    /\ trackerStamp # 0
    /\ frame.stamp <= trackerStamp
    /\ trackerStamp - frame.stamp >= ResetGap

SurvivingTracks == IF TrackerResets THEN {} ELSE tracks

\* The tracker throws on a stamp it considers out of order; the caller
\* publishes an empty array in its place.
StaleFrame ==
    /\ worker = "tracking"
    /\ TrackerRejects
    /\ Publish("empty")
    /\ worker' = "publishing"
    /\ UNCHANGED <<queueVars, main, trackerVars, failures>>

\* The update runs: tracks are kept, pruned or created.  It may still throw
\* after it has moved its clock.
TrackerUpdate(succeeds) ==
    /\ worker = "tracking"
    /\ ~TrackerRejects
    /\ trackerStamp' = frame.stamp
    /\ tracks' \in SUBSET (SurvivingTracks \cup {frame.stamp})
    /\ worker' = "publishing"
    /\ \/ succeeds /\ Publish("tracks") /\ UNCHANGED failures
       \/ ~succeeds /\ Publish("empty") /\ failures < MaxFailures /\ failures' = failures + 1
    /\ UNCHANGED <<queueVars, main>>

\* publish_dyn and the bookkeeping at the end of ProcessSynchronizedInput
FrameDone ==
    /\ worker = "publishing"
    /\ worker' = "taking"
    /\ UNCHANGED <<queueVars, main, trackerVars, published, failures>>

Worker ==
    \/ WorkerWaits \/ WorkerTakes
    \/ FrameFails \/ FilterReturns
    \/ StaleFrame \/ (\E succeeds \in BOOLEAN : TrackerUpdate(succeeds))
    \/ FrameDone

-----------------------------------------------------------------------------
(* main() after ros::spin() returns *)

Shutdown ==
    /\ main = "spinning"
    /\ main' = "joining"
    /\ Close
    /\ UNCHANGED <<worker, trackerVars, published, failures>>

Join ==
    /\ main = "joining"
    /\ worker = "ended"
    /\ main' = "exited"
    /\ UNCHANGED <<queueVars, worker, trackerVars, published, failures>>

Exited == main = "exited" /\ UNCHANGED nodeVars

NodeNext ==
    \/ \E cloud, odom \in Stamps : SynchronizedInputCallback(cloud, odom)
    \/ Worker \/ WorkerWoken
    \/ Shutdown \/ Join \/ Exited

NodeSafety == NodeInit /\ [][NodeNext]_nodeVars

\* The processing thread is always scheduled again and each stage of a frame
\* terminates; main() proceeds once it may.  When ros::spin() returns, and
\* whether frames arrive, is up to the environment.
NodeSpec == NodeSafety /\ WF_nodeVars(Worker) /\ WF_nodeVars(Join)

-----------------------------------------------------------------------------
(* Properties *)

NodeTypeOK ==
    /\ QueueTypeOK
    /\ main \in {"spinning", "joining", "exited"}
    /\ worker \in {"taking", "filtering", "tracking", "publishing", "ended"}
    /\ trackerStamp \in Stamps \cup {0}
    /\ tracks \subseteq Stamps
    /\ published \in Seq(Publication)
    /\ failures \in Nat

\* A stale frame is met only after the node has lost a frame: as long as the
\* queue evicted nothing and no frame failed, the tracker accepts every frame
\* the queue accepted, although each applies the backward jump rule to a clock
\* of its own (last_stamp_ at push, last_frame_stamp_ at update).
StaleOnlyAfterLoss ==
    (droppedOldestCount = 0 /\ failures = 0)
        => \A i \in 1..Len(published) : published[i].kind = "tracks"

\* Subscribers get at most one track array per frame, in the order of the frames.
OneArrayPerFrame ==
    \A i, j \in 1..Len(published) : i < j => published[i].value < published[j].value

\* As long as no frame failed (an update that throws has moved its clock already),
\* a track array and the next one move forward in time or back by at least the reset
\* gap, whatever the queue evicted and however many empty arrays stand between them.
NextArray(i, j) ==
    /\ i < j /\ published[i].kind = "tracks" /\ published[j].kind = "tracks"
    /\ \A k \in (i + 1)..(j - 1) : published[k].kind = "empty"
TrackArraysOrdered ==
    failures = 0 =>
        \A i, j \in 1..Len(published) :
            NextArray(i, j) => \/ published[i].stamp < published[j].stamp
                               \/ published[i].stamp - published[j].stamp >= ResetGap

\* No track survives a backward jump: every live track was born at or before
\* the tracker's clock.
NoTrackFromTheFuture == \A birth \in tracks : birth <= trackerStamp

\* The tracker in the node is the clock with births that FrameTracker implements:
\* frames that were lost in between never make it go back by less than the gap.
TrackerClock == INSTANCE TrackClock WITH
                    Gap <- ResetGap, clock <- trackerStamp, births <- tracks
KeepsTrackClock == TrackerClock!Spec

\* main() returns only when the worker has drained the queue: each accepted
\* frame was taken, or evicted while the node was running.
DrainedAtExit == main = "exited" => pending = <<>> /\ Removed = Len(accepted)

\* Every accepted frame leaves the queue.
FramesLeaveTheQueue ==
    \A n \in 1..MaxAccepted : (Len(accepted) >= n) ~> (Removed >= n)

\* Shutdown terminates: close() reaches the worker wherever it is and main()
\* gets past processing_thread.join().
ShutdownTerminates == (main = "joining") ~> (main = "exited")
=============================================================================

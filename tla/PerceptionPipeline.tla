------------------------ MODULE PerceptionPipeline ------------------------
(***************************************************************************)
(* The perception pipeline of the planner (perception_sync.py,             *)
(* runtime_modes.py, omnirisk_node.py): callbacks fill stamped caches, the *)
(* assembly thread forms frames, the preprocessing and the inference       *)
(* thread work on the newest one, handed on through slots of capacity one, *)
(* and a result is committed as the trajectory to fly.                     *)
(*                                                                         *)
(* A critical section of sync_condition is one step; the slots have locks  *)
(* of their own, so a worker takes work in one step and looks at the state *)
(* it belongs to in a later one.  Between its locked steps a worker is     *)
(*   "idle"       at the head of its loop or waiting in take_after()       *)
(*   "started"    has taken work and has not looked at the runtime mode    *)
(*   "computing"  prepares the inputs, or runs the network                 *)
(*   "handing"    about to publish the inputs, or to commit the trajectory *)
(*   "ended"      left its loop                                            *)
(*                                                                         *)
(* Stamps are ticks.  The caches of lidar and tracks are explicit; whether *)
(* the static cloud and the odometry complete a frame, whether an input    *)
(* came after its deadline and whether work is older than output_max_age_ms*)
(* is left open at every decision, as are the threat and the navigation    *)
(* state that select the runtime mode.  Optional values are sets of at     *)
(* most one element.                                                       *)
(***************************************************************************)
EXTENDS Integers, Sequences

CONSTANTS
    Stamps,         \* stamps of the sensor messages
    CacheDuration,  \* duration_ns of the caches
    MaxGeneration,  \* bound on the number of resets
    MaxVersion      \* bound on the number of mode changes

ASSUME StampsAssumption   == Stamps \subseteq Nat \ {0}
ASSUME DurationAssumption == CacheDuration \in Nat
ASSUME BoundsAssumption   == MaxGeneration \in Nat /\ MaxVersion \in Nat

VARIABLES
    lidar, tracks,    \* lidar_cache and tracks_cache: the stamps in them
    lastAssembled,    \* last_assembled_stamp_ns, 0 for None
    generation,       \* sync_generation
    frames,           \* stamps of the frames of this generation; its length is frame_sequence
    lastCommitted,    \* last_committed_sequence
    runtime,          \* mode and version of runtime_modes
    perceptionSlot, inferenceSlot,
    preprocessing, inference,   \* the two workers
    active,           \* the trajectory installed, if any
    shutdown          \* rospy.is_shutdown()

caches  == <<lidar, tracks>>
counts  == <<generation, frames, lastCommitted>>
slots   == <<perceptionSlot, inferenceSlot>>
workers == <<preprocessing, inference>>
vars    == <<caches, lastAssembled, counts, runtime, slots, workers, active, shutdown>>

Modes    == {"HOVER", "CRUISE", "DODGE"}
Snapshot == [mode : Modes, version : Nat]
Work     == [sequence : Nat, stamp : Stamps, generation : Nat, snapshot : Snapshot]
Slot     == [version : Nat, payload : SUBSET Work]
Worker   == [pc : {"idle", "started", "computing", "handing", "ended"},
             work : SUBSET Work, last : Nat]

Init ==
    /\ lidar = {} /\ tracks = {}
    /\ lastAssembled = 0
    /\ generation = 0
    /\ frames = <<>>
    /\ lastCommitted = -1
    /\ runtime = [mode |-> "HOVER", version |-> 0]
    /\ perceptionSlot = [version |-> 0, payload |-> {}]
    /\ inferenceSlot = [version |-> 0, payload |-> {}]
    /\ preprocessing = [pc |-> "idle", work |-> {}, last |-> 0]
    /\ inference = [pc |-> "idle", work |-> {}, last |-> 0]
    /\ active = {}
    /\ shutdown = FALSE

-----------------------------------------------------------------------------
(* StampedCache and LatestOnlySlot *)

MovesBackward(cache, s) == \E t \in cache : t > s
Appended(cache, s)      == {t \in cache \cup {s} : t >= s - CacheDuration}

\* Faulty variant: work published without a new version.
PublishedAsBefore(slot, work) == [slot EXCEPT !.payload = {work}]
Published(slot, work) == [version |-> slot.version + 1, payload |-> {work}]
Cleared(slot)         == [version |-> slot.version + 1, payload |-> {}]

\* a payload take_after(last) returns
Takable(slot, last) == IF slot.version > last THEN slot.payload ELSE {}

-----------------------------------------------------------------------------
(* Callbacks *)

\* Faulty variant: a reset keeps the last assembled stamp.
KeepsLastAssembled == lastAssembled
NoFrameAssembled   == 0
NothingCommitted   == -1

ResetPipeline ==
    /\ generation < MaxGeneration
    /\ generation' = generation + 1
    /\ lastAssembled' = NoFrameAssembled
    /\ frames' = <<>>
    /\ lastCommitted' = NothingCommitted
    /\ active' = {}
    /\ perceptionSlot' = Cleared(perceptionSlot)
    /\ inferenceSlot' = Cleared(inferenceSlot)
    /\ UNCHANGED <<runtime, workers, shutdown>>

CallbackLidar(s) ==
    \/ /\ ~MovesBackward(lidar, s)
       /\ lidar' = Appended(lidar, s)
       /\ UNCHANGED <<tracks, lastAssembled, counts, runtime, slots, workers, active, shutdown>>
    \/ /\ MovesBackward(lidar, s)
       /\ ResetPipeline
       /\ lidar' = {s} /\ tracks' = {}

CallbackTracks(s) ==
    \/ /\ ~MovesBackward(tracks, s)
       /\ tracks' = Appended(tracks, s)
       /\ UNCHANGED <<lidar, lastAssembled, counts, runtime, slots, workers, active, shutdown>>
    \/ /\ MovesBackward(tracks, s)
       /\ ResetPipeline
       /\ tracks' = {s} /\ lidar' = {}

\* the odometry or the static cloud moves backward
OtherStreamMovesBackward ==
    /\ ResetPipeline
    /\ lidar' = {} /\ tracks' = {}

\* callback_rc_active and _capture_rc_home
InvalidateActiveTrajectory ==
    /\ active' = {}
    /\ UNCHANGED <<caches, lastAssembled, counts, runtime, slots, workers, shutdown>>

-----------------------------------------------------------------------------
(* _frame_assembly_worker *)

Complete == {s \in lidar \cap tracks : s > lastAssembled}

\* the newest complete stamp none of whose inputs came after its deadline
Selected(late) == {s \in Complete \ late : \A t \in Complete \ late : t <= s}

\* _select_runtime_snapshot_locked() and the publication of the frame
PublishFrame(s, mode) ==
    LET changed  == mode # runtime.mode
        snapshot == [mode    |-> mode,
                     version |-> runtime.version + (IF changed THEN 1 ELSE 0)]
        frame    == [sequence |-> Len(frames) + 1, stamp |-> s,
                     generation |-> generation, snapshot |-> snapshot]
    IN  /\ changed => runtime.version < MaxVersion
        /\ runtime' = snapshot
        /\ active' = IF changed THEN {} ELSE active
        /\ inferenceSlot' = IF changed THEN Cleared(inferenceSlot) ELSE inferenceSlot
        /\ perceptionSlot' =
             Published(IF changed THEN Cleared(perceptionSlot) ELSE perceptionSlot, frame)

AssembleFrame(late, mode) ==
    /\ ~shutdown
    /\ \E s \in Selected(late) :
          /\ lastAssembled' = s
          /\ frames' = Append(frames, s)
          /\ PublishFrame(s, mode)
    /\ UNCHANGED <<caches, generation, lastCommitted, workers, shutdown>>

\* the tracks cannot be predicted to the stamp: the number of the frame is used up
SkipUnpredictable(late) ==
    /\ ~shutdown
    /\ \E s \in Selected(late) :
          /\ lastAssembled' = s
          /\ frames' = Append(frames, s)
    /\ UNCHANGED <<caches, generation, lastCommitted, runtime, slots, workers, active, shutdown>>

\* _report_incomplete_sync_locked() gives up waiting for the newest stamp
SkipIncomplete ==
    /\ ~shutdown
    /\ \E s \in lidar :
          /\ s > lastAssembled /\ \A t \in lidar : t <= s
          /\ lastAssembled' = s
    /\ UNCHANGED <<caches, counts, runtime, slots, workers, active, shutdown>>

-----------------------------------------------------------------------------
(* _preprocessing_worker *)

IsCurrent(work) == work.snapshot = runtime

GoesIdle(worker) == [worker EXCEPT !.pc = "idle", !.work = {}]

\* Faulty variant: only the runtime mode is looked at again.
SameMode(work)     == IsCurrent(work)
StillWanted(work)  == IsCurrent(work) /\ work.generation = generation

PreTake ==
    /\ preprocessing.pc = "idle"
    /\ Takable(perceptionSlot, preprocessing.last) # {}
    /\ preprocessing' = [pc |-> "started", work |-> perceptionSlot.payload,
                         last |-> perceptionSlot.version]
    /\ perceptionSlot' = [perceptionSlot EXCEPT !.payload = {}]
    /\ UNCHANGED <<caches, lastAssembled, counts, runtime, inferenceSlot, inference,
                   active, shutdown>>

PreStart(timely) ==
    /\ preprocessing.pc = "started"
    /\ preprocessing' =
          IF timely /\ \A work \in preprocessing.work : IsCurrent(work)
          THEN [preprocessing EXCEPT !.pc = "computing"] ELSE GoesIdle(preprocessing)
    /\ UNCHANGED <<caches, lastAssembled, counts, runtime, slots, inference, active, shutdown>>

\* the preparation may raise, or take too long
PrePrepare(succeeds) ==
    /\ preprocessing.pc = "computing"
    /\ preprocessing' = IF succeeds THEN [preprocessing EXCEPT !.pc = "handing"]
                        ELSE GoesIdle(preprocessing)
    /\ UNCHANGED <<caches, lastAssembled, counts, runtime, slots, inference, active, shutdown>>

PrePublish ==
    /\ preprocessing.pc = "handing"
    /\ \E work \in preprocessing.work :
          inferenceSlot' = IF ~shutdown /\ StillWanted(work)
                           THEN Published(inferenceSlot, work) ELSE inferenceSlot
    /\ preprocessing' = GoesIdle(preprocessing)
    /\ UNCHANGED <<caches, lastAssembled, counts, runtime, perceptionSlot, inference,
                   active, shutdown>>

PreEnd ==
    /\ shutdown /\ preprocessing.pc = "idle"
    /\ preprocessing' = [preprocessing EXCEPT !.pc = "ended"]
    /\ UNCHANGED <<caches, lastAssembled, counts, runtime, slots, inference, active, shutdown>>

Preprocess ==
    \/ PreTake \/ PrePublish \/ PreEnd
    \/ \E timely \in BOOLEAN : PreStart(timely)
    \/ \E succeeds \in BOOLEAN : PrePrepare(succeeds)

-----------------------------------------------------------------------------
(* _inference_worker *)

InfTake ==
    /\ inference.pc = "idle"
    /\ Takable(inferenceSlot, inference.last) # {}
    /\ inference' = [pc |-> "started", work |-> inferenceSlot.payload,
                     last |-> inferenceSlot.version]
    /\ inferenceSlot' = [inferenceSlot EXCEPT !.payload = {}]
    /\ UNCHANGED <<caches, lastAssembled, counts, runtime, perceptionSlot, preprocessing,
                   active, shutdown>>

InfStart(timely) ==
    /\ inference.pc = "started"
    /\ inference' =
          IF timely /\ \A work \in inference.work : IsCurrent(work)
          THEN [inference EXCEPT !.pc = "computing"] ELSE GoesIdle(inference)
    /\ UNCHANGED <<caches, lastAssembled, counts, runtime, slots, preprocessing, active, shutdown>>

InfRun(succeeds) ==
    /\ inference.pc = "computing"
    /\ inference' = IF succeeds THEN [inference EXCEPT !.pc = "handing"] ELSE GoesIdle(inference)
    /\ UNCHANGED <<caches, lastAssembled, counts, runtime, slots, preprocessing, active, shutdown>>

\* Faulty variant: a result of another generation may be committed.
IgnoresGeneration(work) == IsCurrent(work) /\ work.sequence > lastCommitted

\* is_current() and result_is_committable(), the age apart
Committable(work) ==
    /\ IsCurrent(work)
    /\ work.generation = generation
    /\ work.sequence > lastCommitted

Commit(timely) ==
    /\ inference.pc = "handing"
    /\ \E work \in inference.work :
          IF timely /\ ~shutdown /\ Committable(work)
          THEN /\ lastCommitted' = work.sequence
               /\ active' = IF work.snapshot.mode = "HOVER" THEN active ELSE {work}
          ELSE UNCHANGED <<lastCommitted, active>>
    /\ inference' = GoesIdle(inference)
    /\ UNCHANGED <<caches, lastAssembled, generation, frames, runtime, slots, preprocessing,
                   shutdown>>

InfEnd ==
    /\ shutdown /\ inference.pc = "idle"
    /\ inference' = [inference EXCEPT !.pc = "ended"]
    /\ UNCHANGED <<caches, lastAssembled, counts, runtime, slots, preprocessing, active, shutdown>>

Infer ==
    \/ InfTake \/ InfEnd
    \/ \E timely \in BOOLEAN : InfStart(timely) \/ Commit(timely)
    \/ \E succeeds \in BOOLEAN : InfRun(succeeds)

-----------------------------------------------------------------------------
(* Shutdown *)

Shutdown ==
    /\ ~shutdown
    /\ shutdown' = TRUE
    /\ UNCHANGED <<caches, lastAssembled, counts, runtime, slots, workers, active>>

NotifyWorkersShutdown ==
    /\ shutdown
    /\ perceptionSlot.payload # {} \/ inferenceSlot.payload # {}
    /\ perceptionSlot' = Cleared(perceptionSlot)
    /\ inferenceSlot' = Cleared(inferenceSlot)
    /\ UNCHANGED <<caches, lastAssembled, counts, runtime, workers, active, shutdown>>

Terminated ==
    /\ preprocessing.pc = "ended" /\ inference.pc = "ended"
    /\ UNCHANGED vars

Callback ==
    \/ \E s \in Stamps : CallbackLidar(s) \/ CallbackTracks(s)
    \/ OtherStreamMovesBackward
    \/ InvalidateActiveTrajectory

Assemble ==
    \/ \E late \in SUBSET Complete :
          \/ \E mode \in Modes : AssembleFrame(late, mode)
          \/ SkipUnpredictable(late)
    \/ SkipIncomplete

Next ==
    \/ Callback \/ Assemble \/ Preprocess \/ Infer
    \/ Shutdown \/ NotifyWorkersShutdown \/ Terminated

Safety == Init /\ [][Next]_vars

\* Each worker thread is scheduled, and preparing inputs and running the network
\* terminate.  Nothing obliges messages to arrive or frames to be complete.
Spec == Safety /\ WF_vars(Preprocess) /\ WF_vars(Infer)

-----------------------------------------------------------------------------
(* Properties *)

\* the stamp of the frame committed last
CommittedStamp == IF lastCommitted \in 1..Len(frames) THEN frames[lastCommitted] ELSE 0

Authority == INSTANCE TrajectoryAuthority
    WITH timeline <- generation,
         epoch    <- runtime.version,
         newest   <- CommittedStamp,
         active   <- {[stamp |-> work.stamp, timeline |-> work.generation,
                       epoch |-> work.snapshot.version] : work \in active}

\* The trajectory installed is always one of the present time line and mode
\* epoch, and trajectories are committed for newer and newer frames, whatever
\* the two workers still carry from before a reset or a mode change.
ImplementsAuthority == Authority!Spec

TypeOK ==
    /\ lidar \subseteq Stamps /\ tracks \subseteq Stamps
    /\ lastAssembled \in Stamps \cup {0}
    /\ generation \in Nat
    /\ frames \in Seq(Stamps)
    /\ lastCommitted \in {-1} \cup 1..Len(frames)
    /\ runtime \in Snapshot
    /\ perceptionSlot \in Slot /\ inferenceSlot \in Slot
    /\ preprocessing \in Worker /\ inference \in Worker
    /\ active \subseteq Work
    /\ shutdown \in BOOLEAN

\* Frames are numbered in the order of their stamps, and the assembly never
\* waits for a stamp the lidar has already passed: after a reset, or after a
\* stream has jumped back, a new frame can be complete again.
ResyncPossible ==
    /\ \A i, j \in 1..Len(frames) : i < j => frames[i] < frames[j]
    /\ lastAssembled # 0 => \E s \in lidar : s >= lastAssembled

\* What lies in a slot belongs to the present generation and mode epoch: no
\* publisher puts back what a reset or a mode change has just cleared.
SlotsHoldCurrentWork ==
    \A slot \in {perceptionSlot, inferenceSlot} : \A work \in slot.payload :
        work.generation = generation /\ IsCurrent(work)

\* A slot with work in it does not stay so: the worker takes it, or it is
\* cleared, while the node runs; the version a worker remembers never hides newer work.
PendingWorkIsTaken ==
    /\ (perceptionSlot.payload # {}) ~> (perceptionSlot.payload = {} \/ shutdown)
    /\ (inferenceSlot.payload # {}) ~> (inferenceSlot.payload = {} \/ shutdown)
=============================================================================

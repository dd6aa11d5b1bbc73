---------------------- MODULE PerceptionPipelineProofs ----------------------
(***************************************************************************)
(* Theorems about the perception pipeline, for every set of stamps, cache  *)
(* duration and number of resets and mode changes.                         *)
(***************************************************************************)
EXTENDS PerceptionPipeline, TLAPS

USE DEF caches, counts, slots, workers

-----------------------------------------------------------------------------
(* Slots and workers *)

LEMMA SlotOperations ==
    ASSUME NEW slot \in Slot
    PROVE  /\ Cleared(slot) \in Slot /\ Cleared(slot).payload = {}
           /\ [slot EXCEPT !.payload = {}] \in Slot
           /\ [slot EXCEPT !.payload = {}].payload = {}
           /\ \A work \in Work : /\ Published(slot, work) \in Slot
                                 /\ Published(slot, work).payload = {work}
BY DEF Slot, Cleared, Published

LEMMA WorkerOperations ==
    ASSUME NEW worker \in Worker
    PROVE  /\ GoesIdle(worker) \in Worker /\ GoesIdle(worker).work = {}
           /\ \A pc \in {"computing", "handing", "ended"} :
                 /\ [worker EXCEPT !.pc = pc] \in Worker
                 /\ [worker EXCEPT !.pc = pc].work = worker.work
BY DEF Worker, GoesIdle

LEMMA TakenWork ==
    ASSUME NEW slot \in Slot
    PROVE  [pc |-> "started", work |-> slot.payload, last |-> slot.version] \in Worker
BY DEF Slot, Worker

-----------------------------------------------------------------------------
(* The inductive invariant *)

\* work carried through the pipeline is of this generation, and then it is the
\* frame its number says, or of an earlier one
Known(work) ==
    /\ work.generation <= generation
    /\ work.generation = generation
          => work.sequence \in 1..Len(frames) /\ frames[work.sequence] = work.stamp

Carried == perceptionSlot.payload \cup inferenceSlot.payload
             \cup preprocessing.work \cup inference.work

FramesInv ==
    /\ \A i, j \in 1..Len(frames) : i < j => frames[i] < frames[j]
    /\ \A i \in 1..Len(frames) : frames[i] <= lastAssembled
    /\ lastAssembled # 0 => \E s \in lidar : s >= lastAssembled

CarriedInv == \A work \in Carried : Known(work)

PipelineInv == TypeOK /\ FramesInv /\ CarriedInv /\ SlotsHoldCurrentWork

\* how a step may treat the numbering of frames
Keeps    == UNCHANGED <<generation, frames>>
Extends  == UNCHANGED generation /\ \E s \in Stamps : frames' = Append(frames, s)
Restarts == generation' = generation + 1

LEMMA KnownStays ==
    ASSUME TypeOK, NEW work \in Work, Known(work), Keeps \/ Extends \/ Restarts
    PROVE  Known(work)'
<1>1. generation \in Nat /\ work.generation \in Nat /\ frames \in Seq(Stamps)
  BY DEF TypeOK, Work
<1>2. CASE Keeps
  BY <1>2 DEF Known, Keeps
<1>3. CASE Extends
  <2>1. PICK s \in Stamps : frames' = Append(frames, s)
    BY <1>3 DEF Extends
  <2>2. /\ Len(frames') = Len(frames) + 1
        /\ \A i \in 1..Len(frames) : i \in 1..Len(frames') /\ frames'[i] = frames[i]
    BY <1>1, <2>1
  <2> QED  BY <1>3, <2>2 DEF Known, Extends
<1>4. CASE Restarts
  BY <1>1, <1>4 DEF Known, Restarts
<1> QED  BY <1>2, <1>3, <1>4

LEMMA CarriedWork == ASSUME TypeOK PROVE Carried \subseteq Work
BY DEF TypeOK, Slot, Worker, Carried

LEMMA CarriedStays ==
    ASSUME TypeOK, CarriedInv, Carried' \subseteq Carried, Keeps \/ Extends \/ Restarts
    PROVE  CarriedInv'
BY CarriedWork, KnownStays DEF CarriedInv

LEMMA InitInv == Init => PipelineInv
<1> SUFFICES ASSUME Init PROVE PipelineInv
  OBVIOUS
<1>1. TypeOK
  <2>1. [mode |-> "HOVER", version |-> 0] \in Snapshot
    BY DEF Snapshot, Modes
  <2>2. [version |-> 0, payload |-> {}] \in Slot
    BY DEF Slot
  <2>3. [pc |-> "idle", work |-> {}, last |-> 0] \in Worker
    BY DEF Worker
  <2>4. frames \in Seq(Stamps) /\ lastCommitted \in {-1} \cup 1..Len(frames)
    BY DEF Init
  <2> QED  BY <2>1, <2>2, <2>3, <2>4 DEF Init, TypeOK
<1>2. FramesInv
  BY DEF Init, FramesInv
<1>3. CarriedInv /\ SlotsHoldCurrentWork
  BY DEF Init, CarriedInv, Carried, SlotsHoldCurrentWork
<1> QED  BY <1>1, <1>2, <1>3 DEF PipelineInv

-----------------------------------------------------------------------------
(* Callbacks *)

LEMMA ResetKeepsInv ==
    ASSUME PipelineInv, ResetPipeline, lidar' \subseteq Stamps, tracks' \subseteq Stamps
    PROVE  PipelineInv'
<1>1. TypeOK
  BY DEF PipelineInv
<1>2. perceptionSlot' \in Slot /\ perceptionSlot'.payload = {}
      /\ inferenceSlot' \in Slot /\ inferenceSlot'.payload = {}
  BY <1>1, SlotOperations DEF ResetPipeline, TypeOK
<1>3. TypeOK'
  BY <1>1, <1>2 DEF TypeOK, ResetPipeline, NoFrameAssembled, NothingCommitted
<1>4. FramesInv'
  BY DEF ResetPipeline, FramesInv, NoFrameAssembled
<1>5. CarriedInv'
  <2>1. Carried' \subseteq Carried /\ Restarts
    BY <1>2 DEF Carried, ResetPipeline, Restarts
  <2> QED  BY <1>1, <2>1, CarriedStays DEF PipelineInv
<1>6. SlotsHoldCurrentWork'
  BY <1>2 DEF SlotsHoldCurrentWork
<1> QED  BY <1>3, <1>4, <1>5, <1>6 DEF PipelineInv

LEMMA AppendedStamps ==
    ASSUME NEW cache \in SUBSET Stamps, NEW s \in Stamps
    PROVE  Appended(cache, s) \in SUBSET Stamps /\ s \in Appended(cache, s)
<1>1. s \in Nat /\ CacheDuration \in Nat
  BY StampsAssumption, DurationAssumption
<1>2. s >= s - CacheDuration
  BY <1>1
<1>3. s \in Appended(cache, s)
  BY <1>2 DEF Appended
<1>4. Appended(cache, s) \subseteq cache \cup {s}
  BY DEF Appended
<1> QED  BY <1>3, <1>4

LEMMA CallbackKeepsInv == ASSUME PipelineInv, Callback PROVE PipelineInv'
<1>1. TypeOK
  BY DEF PipelineInv
<1>2. ASSUME NEW s \in Stamps, CallbackLidar(s) PROVE PipelineInv'
  <2>1. CASE ~MovesBackward(lidar, s)
    <3>1. lidar' = Appended(lidar, s)
          /\ UNCHANGED <<tracks, lastAssembled, counts, runtime, slots, workers,
                         active, shutdown>>
      BY <1>2, <2>1 DEF CallbackLidar
    <3>2. lidar' \in SUBSET Stamps /\ s \in lidar'
      BY <1>1, <3>1, AppendedStamps DEF TypeOK
    <3>3. TypeOK'
      BY <1>1, <3>1, <3>2 DEF TypeOK
    <3>4. FramesInv'
      <4>1. \A t \in lidar : t <= s
        BY <1>1, <2>1, StampsAssumption DEF MovesBackward, TypeOK
      <4>2. lastAssembled # 0 => lastAssembled <= s
        BY <1>1, <4>1, StampsAssumption DEF PipelineInv, FramesInv, TypeOK
      <4> QED  BY <3>1, <3>2, <4>2 DEF PipelineInv, FramesInv
    <3>5. CarriedInv' /\ SlotsHoldCurrentWork'
      BY <3>1 DEF PipelineInv, CarriedInv, Carried, Known, SlotsHoldCurrentWork, IsCurrent
    <3> QED  BY <3>3, <3>4, <3>5 DEF PipelineInv
  <2>2. CASE MovesBackward(lidar, s)
    BY <1>2, <2>2, ResetKeepsInv DEF CallbackLidar
  <2> QED  BY <2>1, <2>2
<1>3. ASSUME NEW s \in Stamps, CallbackTracks(s) PROVE PipelineInv'
  <2>1. CASE ~MovesBackward(tracks, s)
    <3>1. tracks' = Appended(tracks, s)
          /\ UNCHANGED <<lidar, lastAssembled, counts, runtime, slots, workers,
                         active, shutdown>>
      BY <1>3, <2>1 DEF CallbackTracks
    <3>2. TypeOK'
      BY <1>1, <3>1, AppendedStamps DEF TypeOK
    <3>3. FramesInv' /\ CarriedInv' /\ SlotsHoldCurrentWork'
      BY <3>1 DEF PipelineInv, FramesInv, CarriedInv, Carried, Known, SlotsHoldCurrentWork,
                  IsCurrent
    <3> QED  BY <3>2, <3>3 DEF PipelineInv
  <2>2. CASE MovesBackward(tracks, s)
    BY <1>3, <2>2, ResetKeepsInv DEF CallbackTracks
  <2> QED  BY <2>1, <2>2
<1>4. CASE OtherStreamMovesBackward
  BY <1>4, ResetKeepsInv DEF OtherStreamMovesBackward
<1>5. CASE InvalidateActiveTrajectory
  <2>1. TypeOK'
    BY <1>1, <1>5 DEF TypeOK, InvalidateActiveTrajectory
  <2>2. FramesInv' /\ CarriedInv' /\ SlotsHoldCurrentWork'
    BY <1>5 DEF InvalidateActiveTrajectory, PipelineInv, FramesInv, CarriedInv, Carried,
                Known, SlotsHoldCurrentWork, IsCurrent
  <2> QED  BY <2>1, <2>2 DEF PipelineInv
<1> QED  BY <1>2, <1>3, <1>4, <1>5 DEF Callback

-----------------------------------------------------------------------------
(* Assembly *)

LEMMA FrameStamps ==
    ASSUME PipelineInv, NEW i \in 1..Len(frames)
    PROVE  /\ frames[i] \in Stamps /\ frames[i] \in Nat /\ frames[i] > 0
           /\ lastAssembled \in Nat /\ frames[i] <= lastAssembled
<1>1. frames \in Seq(Stamps) /\ lastAssembled \in Nat
  BY StampsAssumption DEF PipelineInv, TypeOK
<1>2. frames[i] \in Stamps
  BY <1>1
<1>3. frames[i] <= lastAssembled
  BY DEF PipelineInv, FramesInv
<1>4. \A s \in Stamps : s \in Nat /\ s > 0
  BY StampsAssumption
<1> QED  BY <1>1, <1>2, <1>3, <1>4

\* a selected stamp lies beyond every frame of the generation
LEMMA SelectedIsNew ==
    ASSUME PipelineInv, NEW late, NEW s \in Selected(late)
    PROVE  /\ s \in Stamps /\ s \in lidar /\ s \in Nat /\ s > 0
           /\ \A i \in 1..Len(frames) : frames[i] \in Nat /\ frames[i] < s
<1>1. s \in lidar /\ s > lastAssembled
  BY DEF Selected, Complete
<1>2. s \in Stamps
  BY <1>1 DEF PipelineInv, TypeOK
<1>3. s \in Nat /\ s > 0
  BY <1>2, StampsAssumption
<1>4. ASSUME NEW i \in 1..Len(frames) PROVE frames[i] \in Nat /\ frames[i] < s
  BY <1>1, <1>3, FrameStamps
<1> QED  BY <1>1, <1>2, <1>3, <1>4

\* numbering the frame of a selected stamp
LEMMA NumberingKeepsInv ==
    ASSUME PipelineInv, NEW late, NEW s \in Selected(late),
           lastAssembled' = s, frames' = Append(frames, s),
           UNCHANGED <<caches, generation>>
    PROVE  /\ FramesInv' /\ Extends
           /\ frames' \in Seq(Stamps) /\ Len(frames') = Len(frames) + 1
           /\ frames'[Len(frames) + 1] = s
<1>1. frames \in Seq(Stamps) /\ Len(frames) \in Nat
  BY DEF PipelineInv, TypeOK
<1>2. /\ s \in Stamps /\ s \in lidar /\ s \in Nat /\ s > 0
      /\ \A i \in 1..Len(frames) : frames[i] \in Nat /\ frames[i] < s
  BY SelectedIsNew
<1>3. /\ frames' \in Seq(Stamps) /\ Len(frames') = Len(frames) + 1
      /\ frames'[Len(frames) + 1] = s
      /\ \A i \in 1..Len(frames) : frames'[i] = frames[i]
  BY <1>1, <1>2
<1>4. \A i \in 1..Len(frames') : i \in 1..Len(frames) \/ i = Len(frames) + 1
  BY <1>1, <1>3
<1>5. ASSUME NEW i \in 1..Len(frames'), NEW j \in 1..Len(frames'), i < j
      PROVE  frames'[i] < frames'[j]
  <2>1. i \in 1..Len(frames)
    BY <1>1, <1>3, <1>5
  <2>2. CASE j \in 1..Len(frames)
    BY <1>3, <1>5, <2>1, <2>2 DEF PipelineInv, FramesInv
  <2>3. CASE j = Len(frames) + 1
    BY <1>2, <1>3, <2>1, <2>3
  <2> QED  BY <1>4, <2>2, <2>3
<1>6. ASSUME NEW i \in 1..Len(frames') PROVE frames'[i] <= lastAssembled'
  BY <1>2, <1>3, <1>4
<1>7. \E t \in lidar' : t >= lastAssembled'
  BY <1>2
<1> QED  BY <1>2, <1>3, <1>5, <1>6, <1>7 DEF FramesInv, Extends

\* what publishing a frame does to the runtime, the slots and the trajectory
LEMMA PublishedFrame ==
    ASSUME TypeOK, NEW s \in Stamps, NEW mode \in Modes, PublishFrame(s, mode)
    PROVE  /\ runtime' \in Snapshot
           /\ perceptionSlot' \in Slot
           /\ \E frame \in Work :
                 /\ perceptionSlot'.payload = {frame}
                 /\ frame.sequence = Len(frames) + 1 /\ frame.stamp = s
                 /\ frame.generation = generation /\ frame.snapshot = runtime'
           /\ \/ UNCHANGED <<runtime, inferenceSlot, active>>
              \/ /\ runtime'.version = runtime.version + 1
                 /\ inferenceSlot' \in Slot /\ inferenceSlot'.payload = {}
                 /\ active' = {}
<1> DEFINE version == runtime.version + (IF mode # runtime.mode THEN 1 ELSE 0)
           snapshot == [mode |-> mode, version |-> version]
           frame == [sequence |-> Len(frames) + 1, stamp |-> s,
                     generation |-> generation, snapshot |-> snapshot]
<1>1. runtime \in Snapshot /\ runtime.version \in Nat /\ generation \in Nat
      /\ Len(frames) \in Nat /\ perceptionSlot \in Slot /\ inferenceSlot \in Slot
  BY DEF TypeOK, Snapshot
<1>2. snapshot \in Snapshot
  BY <1>1 DEF Snapshot
<1>3. frame \in Work
  <2>1. Len(frames) + 1 \in Nat
    BY <1>1
  <2> HIDE DEF snapshot
  <2> QED  BY <1>1, <1>2, <2>1 DEF Work
<1>4. /\ frame.sequence = Len(frames) + 1 /\ frame.stamp = s
      /\ frame.generation = generation /\ frame.snapshot = snapshot
  OBVIOUS
<1>5. CASE mode = runtime.mode
  <2>1. snapshot = runtime
    BY <1>1, <1>5 DEF Snapshot
  <2>2. /\ runtime' = snapshot /\ active' = active /\ inferenceSlot' = inferenceSlot
        /\ perceptionSlot' = Published(perceptionSlot, frame)
    BY <1>5 DEF PublishFrame
  <2> HIDE DEF snapshot, frame
  <2>3. perceptionSlot' \in Slot /\ perceptionSlot'.payload = {frame}
    BY <1>1, <1>3, <2>2, SlotOperations
  <2> QED  BY <1>2, <1>3, <1>4, <2>1, <2>2, <2>3
<1>6. CASE mode # runtime.mode
  <2>1. snapshot.version = runtime.version + 1
    BY <1>6
  <2>2. /\ runtime' = snapshot /\ active' = {} /\ inferenceSlot' = Cleared(inferenceSlot)
        /\ perceptionSlot' = Published(Cleared(perceptionSlot), frame)
    BY <1>6 DEF PublishFrame
  <2> HIDE DEF snapshot, frame
  <2>3. Cleared(perceptionSlot) \in Slot
    BY <1>1, SlotOperations
  <2>4. perceptionSlot' \in Slot /\ perceptionSlot'.payload = {frame}
    BY <1>3, <2>2, <2>3, SlotOperations
  <2>5. inferenceSlot' \in Slot /\ inferenceSlot'.payload = {}
    BY <1>1, <2>2, SlotOperations
  <2> QED  BY <1>2, <1>3, <1>4, <2>1, <2>2, <2>4, <2>5
<1> QED  BY <1>5, <1>6

LEMMA FrameKeepsInv ==
    ASSUME PipelineInv, NEW late, NEW mode \in Modes, AssembleFrame(late, mode)
    PROVE  PipelineInv'
<1>1. TypeOK
  BY DEF PipelineInv
<1>2. PICK s \in Selected(late) :
          lastAssembled' = s /\ frames' = Append(frames, s) /\ PublishFrame(s, mode)
  BY DEF AssembleFrame
<1>3. UNCHANGED <<caches, generation, lastCommitted, workers, shutdown>>
  BY DEF AssembleFrame
<1>4. s \in Stamps
  BY SelectedIsNew
<1>5. /\ FramesInv' /\ Extends
      /\ frames' \in Seq(Stamps) /\ Len(frames') = Len(frames) + 1
      /\ frames'[Len(frames) + 1] = s
  BY <1>2, <1>3, NumberingKeepsInv
<1>6. PICK frame \in Work :
          /\ perceptionSlot'.payload = {frame}
          /\ frame.sequence = Len(frames) + 1 /\ frame.stamp = s
          /\ frame.generation = generation /\ frame.snapshot = runtime'
  BY <1>1, <1>2, <1>4, PublishedFrame
<1>7. /\ runtime' \in Snapshot /\ perceptionSlot' \in Slot /\ inferenceSlot' \in Slot
      /\ inferenceSlot'.payload \subseteq inferenceSlot.payload
      /\ runtime' = runtime \/ inferenceSlot'.payload = {}
      /\ active' \subseteq active
  BY <1>1, <1>2, <1>4, PublishedFrame DEF TypeOK
<1>8. Len(frames) \in Nat
  BY <1>1 DEF TypeOK
<1>9. TypeOK'
  BY <1>1, <1>2, <1>3, <1>4, <1>5, <1>7, <1>8 DEF TypeOK
<1>10. CarriedInv'
  <2>1. Known(frame)'
    BY <1>1, <1>3, <1>5, <1>6, <1>8 DEF Known, TypeOK
  <2>2. ASSUME NEW work \in Carried PROVE Known(work)'
    <3>1. work \in Work /\ Known(work)
      BY <1>1, CarriedWork DEF PipelineInv, CarriedInv
    <3> QED  BY <1>1, <1>5, <3>1, KnownStays
  <2>3. Carried' \subseteq Carried \cup {frame}
    BY <1>3, <1>6, <1>7 DEF Carried
  <2> QED  BY <2>1, <2>2, <2>3 DEF CarriedInv
<1>11. SlotsHoldCurrentWork'
  <2>1. frame.generation = generation' /\ frame.snapshot = runtime'
    BY <1>3, <1>6
  <2>2. ASSUME NEW work \in inferenceSlot'.payload
        PROVE  work.generation = generation' /\ work.snapshot = runtime'
    BY <1>3, <1>7 DEF PipelineInv, SlotsHoldCurrentWork, IsCurrent
  <2> QED  BY <1>6, <2>1, <2>2 DEF SlotsHoldCurrentWork, IsCurrent
<1> QED  BY <1>5, <1>9, <1>10, <1>11 DEF PipelineInv

LEMMA SkipKeepsInv ==
    ASSUME PipelineInv, SkipIncomplete \/ \E late \in SUBSET Complete : SkipUnpredictable(late)
    PROVE  PipelineInv'
<1>1. TypeOK
  BY DEF PipelineInv
<1>2. CASE SkipIncomplete
  <2>1. PICK s \in lidar : s > lastAssembled /\ lastAssembled' = s
    BY <1>2 DEF SkipIncomplete
  <2>2. UNCHANGED <<caches, counts, runtime, slots, workers, active, shutdown>>
    BY <1>2 DEF SkipIncomplete
  <2>3. s \in Stamps /\ s \in Nat /\ lastAssembled \in Nat
    BY <1>1, StampsAssumption DEF TypeOK
  <2>4. TypeOK'
    BY <1>1, <2>1, <2>2, <2>3 DEF TypeOK
  <2>5. FramesInv'
    <3>1. \A i \in 1..Len(frames) : frames[i] <= s
      BY <2>1, <2>3, FrameStamps
    <3> QED  BY <2>1, <2>2, <2>3, <3>1 DEF PipelineInv, FramesInv
  <2>6. CarriedInv' /\ SlotsHoldCurrentWork'
    BY <2>2 DEF PipelineInv, CarriedInv, Carried, Known, SlotsHoldCurrentWork, IsCurrent
  <2> QED  BY <2>4, <2>5, <2>6 DEF PipelineInv
<1>3. ASSUME NEW late \in SUBSET Complete, SkipUnpredictable(late) PROVE PipelineInv'
  <2>1. PICK s \in Selected(late) : lastAssembled' = s /\ frames' = Append(frames, s)
    BY <1>3 DEF SkipUnpredictable
  <2>2. UNCHANGED <<caches, generation, lastCommitted, runtime, slots, workers, active,
                    shutdown>>
    BY <1>3 DEF SkipUnpredictable
  <2>3. /\ FramesInv' /\ Extends
        /\ frames' \in Seq(Stamps) /\ Len(frames') = Len(frames) + 1
    BY <2>1, <2>2, NumberingKeepsInv
  <2>4. s \in Stamps /\ Len(frames) \in Nat
    BY <1>1, SelectedIsNew DEF TypeOK
  <2>5. TypeOK'
    BY <1>1, <2>1, <2>2, <2>3, <2>4 DEF TypeOK
  <2>6. CarriedInv'
    <3>1. Carried' \subseteq Carried
      BY <2>2 DEF Carried
    <3> QED  BY <1>1, <2>3, <3>1, CarriedStays DEF PipelineInv
  <2>7. SlotsHoldCurrentWork'
    BY <2>2 DEF PipelineInv, SlotsHoldCurrentWork, IsCurrent
  <2> QED  BY <2>3, <2>5, <2>6, <2>7 DEF PipelineInv
<1> QED  BY <1>2, <1>3

-----------------------------------------------------------------------------
(* The two workers, and shutdown *)

\* a step that assembles nothing and publishes wanted work only
LEMMA WorkKeepsInv ==
    ASSUME PipelineInv, TypeOK',
           UNCHANGED <<caches, lastAssembled, generation, frames, runtime>>,
           Carried' \subseteq Carried,
           \A work \in perceptionSlot'.payload \cup inferenceSlot'.payload :
               \/ work \in perceptionSlot.payload \cup inferenceSlot.payload
               \/ StillWanted(work)
    PROVE  PipelineInv'
<1>1. FramesInv'
  BY DEF PipelineInv, FramesInv
<1>2. CarriedInv'
  BY CarriedStays DEF PipelineInv, Keeps
<1>3. SlotsHoldCurrentWork'
  BY DEF PipelineInv, SlotsHoldCurrentWork, StillWanted, IsCurrent
<1> QED  BY <1>1, <1>2, <1>3 DEF PipelineInv

LEMMA PreprocessKeepsInv == ASSUME PipelineInv, Preprocess PROVE PipelineInv'
<1>1. TypeOK /\ perceptionSlot \in Slot /\ inferenceSlot \in Slot /\ preprocessing \in Worker
  BY DEF PipelineInv, TypeOK
<1>2. CASE PreTake
  <2>1. preprocessing' \in Worker /\ perceptionSlot' \in Slot /\ perceptionSlot'.payload = {}
        /\ preprocessing'.work = perceptionSlot.payload
    BY <1>1, <1>2, SlotOperations, TakenWork DEF PreTake
  <2>2. UNCHANGED <<caches, lastAssembled, counts, runtime, inferenceSlot, inference,
                    active, shutdown>>
    BY <1>2 DEF PreTake
  <2>3. TypeOK'
    BY <1>1, <2>1, <2>2 DEF TypeOK
  <2>4. Carried' \subseteq Carried
    BY <2>1, <2>2 DEF Carried
  <2> QED  BY <2>1, <2>2, <2>3, <2>4, WorkKeepsInv
<1>3. ASSUME preprocessing' \in Worker, preprocessing'.work \subseteq preprocessing.work,
             UNCHANGED <<caches, lastAssembled, counts, runtime, slots, inference,
                         active, shutdown>>
      PROVE  PipelineInv'
  <2>1. TypeOK'
    BY <1>1, <1>3 DEF TypeOK
  <2>2. Carried' \subseteq Carried
    BY <1>3 DEF Carried
  <2> QED  BY <1>3, <2>1, <2>2, WorkKeepsInv
<1>4. ASSUME NEW timely \in BOOLEAN, PreStart(timely) PROVE PipelineInv'
  BY <1>1, <1>3, <1>4, WorkerOperations DEF PreStart
<1>5. ASSUME NEW succeeds \in BOOLEAN, PrePrepare(succeeds) PROVE PipelineInv'
  BY <1>1, <1>3, <1>5, WorkerOperations DEF PrePrepare
<1>6. CASE PreEnd
  BY <1>1, <1>3, <1>6, WorkerOperations DEF PreEnd
<1>7. CASE PrePublish
  <2>1. PICK work \in preprocessing.work :
            inferenceSlot' = IF ~shutdown /\ StillWanted(work)
                             THEN Published(inferenceSlot, work) ELSE inferenceSlot
    BY <1>7 DEF PrePublish
  <2>2. UNCHANGED <<caches, lastAssembled, counts, runtime, perceptionSlot, inference,
                    active, shutdown>>
        /\ preprocessing' = GoesIdle(preprocessing)
    BY <1>7 DEF PrePublish
  <2>3. work \in Work
    BY <1>1 DEF Worker
  <2>4. inferenceSlot' \in Slot
        /\ \/ inferenceSlot' = inferenceSlot
           \/ inferenceSlot'.payload = {work} /\ StillWanted(work)
    BY <1>1, <2>1, <2>3, SlotOperations
  <2>5. preprocessing' \in Worker /\ preprocessing'.work = {}
    BY <1>1, <2>2, WorkerOperations
  <2>6. TypeOK'
    BY <1>1, <2>2, <2>4, <2>5 DEF TypeOK
  <2>7. Carried' \subseteq Carried
    BY <2>2, <2>4, <2>5 DEF Carried
  <2> QED  BY <2>2, <2>4, <2>6, <2>7, WorkKeepsInv
<1> QED  BY <1>2, <1>4, <1>5, <1>6, <1>7 DEF Preprocess

LEMMA InferKeepsInv == ASSUME PipelineInv, Infer PROVE PipelineInv'
<1>1. TypeOK /\ inferenceSlot \in Slot /\ inference \in Worker
  BY DEF PipelineInv, TypeOK
<1>2. CASE InfTake
  <2>1. inference' \in Worker /\ inferenceSlot' \in Slot /\ inferenceSlot'.payload = {}
        /\ inference'.work = inferenceSlot.payload
    BY <1>1, <1>2, SlotOperations, TakenWork DEF InfTake
  <2>2. UNCHANGED <<caches, lastAssembled, counts, runtime, perceptionSlot, preprocessing,
                    active, shutdown>>
    BY <1>2 DEF InfTake
  <2>3. TypeOK'
    BY <1>1, <2>1, <2>2 DEF TypeOK
  <2>4. Carried' \subseteq Carried
    BY <2>1, <2>2 DEF Carried
  <2> QED  BY <2>1, <2>2, <2>3, <2>4, WorkKeepsInv
<1>3. ASSUME inference' \in Worker, inference'.work \subseteq inference.work,
             UNCHANGED <<caches, lastAssembled, counts, runtime, slots, preprocessing,
                         active, shutdown>>
      PROVE  PipelineInv'
  <2>1. TypeOK'
    BY <1>1, <1>3 DEF TypeOK
  <2>2. Carried' \subseteq Carried
    BY <1>3 DEF Carried
  <2> QED  BY <1>3, <2>1, <2>2, WorkKeepsInv
<1>4. ASSUME NEW timely \in BOOLEAN, InfStart(timely) PROVE PipelineInv'
  BY <1>1, <1>3, <1>4, WorkerOperations DEF InfStart
<1>5. ASSUME NEW succeeds \in BOOLEAN, InfRun(succeeds) PROVE PipelineInv'
  BY <1>1, <1>3, <1>5, WorkerOperations DEF InfRun
<1>6. CASE InfEnd
  BY <1>1, <1>3, <1>6, WorkerOperations DEF InfEnd
<1>7. ASSUME NEW timely \in BOOLEAN, Commit(timely) PROVE PipelineInv'
  <2>1. UNCHANGED <<caches, lastAssembled, generation, frames, runtime, slots, preprocessing,
                    shutdown>>
        /\ inference' = GoesIdle(inference)
    BY <1>7 DEF Commit
  <2>2. inference' \in Worker /\ inference'.work = {}
    BY <1>1, <2>1, WorkerOperations
  <2>3. lastCommitted' \in {-1} \cup 1..Len(frames) /\ active' \subseteq Work
    <3>1. PICK work \in inference.work :
              IF timely /\ ~shutdown /\ Committable(work)
              THEN /\ lastCommitted' = work.sequence
                   /\ active' = IF work.snapshot.mode = "HOVER" THEN active ELSE {work}
              ELSE UNCHANGED <<lastCommitted, active>>
      BY <1>7 DEF Commit
    <3>2. work \in Work /\ Known(work)
      BY <1>1 DEF Worker, PipelineInv, CarriedInv, Carried
    <3> QED  BY <1>1, <3>1, <3>2 DEF TypeOK, Committable, Known
  <2>4. TypeOK'
    BY <1>1, <2>1, <2>2, <2>3 DEF TypeOK
  <2>5. Carried' \subseteq Carried
    BY <2>1, <2>2 DEF Carried
  <2> QED  BY <2>1, <2>4, <2>5, WorkKeepsInv
<1> QED  BY <1>2, <1>4, <1>5, <1>6, <1>7 DEF Infer

LEMMA ShutdownKeepsInv ==
    ASSUME PipelineInv, Shutdown \/ NotifyWorkersShutdown \/ UNCHANGED vars
    PROVE  PipelineInv'
<1>1. TypeOK /\ perceptionSlot \in Slot /\ inferenceSlot \in Slot
  BY DEF PipelineInv, TypeOK
<1>2. CASE Shutdown
  <2>1. TypeOK'
    BY <1>1, <1>2 DEF TypeOK, Shutdown
  <2>2. Carried' \subseteq Carried
    BY <1>2 DEF Shutdown, Carried
  <2> QED  BY <1>2, <2>1, <2>2, WorkKeepsInv DEF Shutdown
<1>3. CASE NotifyWorkersShutdown
  <2>1. /\ perceptionSlot' \in Slot /\ perceptionSlot'.payload = {}
        /\ inferenceSlot' \in Slot /\ inferenceSlot'.payload = {}
    BY <1>1, <1>3, SlotOperations DEF NotifyWorkersShutdown
  <2>2. UNCHANGED <<caches, lastAssembled, counts, runtime, workers, active, shutdown>>
    BY <1>3 DEF NotifyWorkersShutdown
  <2>3. TypeOK'
    BY <1>1, <2>1, <2>2 DEF TypeOK
  <2>4. Carried' \subseteq Carried
    BY <2>1, <2>2 DEF Carried
  <2> QED  BY <2>1, <2>2, <2>3, <2>4, WorkKeepsInv
<1>4. CASE UNCHANGED vars
  <2>1. TypeOK'
    BY <1>1, <1>4 DEF TypeOK, vars
  <2>2. Carried' \subseteq Carried
    BY <1>4 DEF vars, Carried
  <2> QED  BY <1>4, <2>1, <2>2, WorkKeepsInv DEF vars
<1> QED  BY <1>2, <1>3, <1>4

LEMMA AssembleKeepsInv == ASSUME PipelineInv, Assemble PROVE PipelineInv'
BY FrameKeepsInv, SkipKeepsInv DEF Assemble

LEMMA NextKeepsInv == PipelineInv /\ [Next]_vars => PipelineInv'
BY CallbackKeepsInv, AssembleKeepsInv, PreprocessKeepsInv, InferKeepsInv, ShutdownKeepsInv
   DEF Next, Terminated

THEOREM Inductive == Safety => []PipelineInv
BY InitInv, NextKeepsInv, PTL DEF Safety

-----------------------------------------------------------------------------
(* What follows *)

\* Every variable keeps its type; what is committed last is the number of a
\* frame of this generation, whatever a worker carries (TypeOK).
THEOREM TypeCorrect == Safety => []TypeOK
<1>1. PipelineInv => TypeOK
  BY DEF PipelineInv
<1> QED  BY <1>1, Inductive, PTL

\* Frames are numbered in the order of their stamps, and the assembly never
\* waits for a stamp the lidar has passed, however often the clocks jump back.
THEOREM Resync == Safety => []ResyncPossible
<1>1. PipelineInv => ResyncPossible
  BY DEF PipelineInv, FramesInv, ResyncPossible
<1> QED  BY <1>1, Inductive, PTL

\* No publisher puts back into a slot what a reset or a mode change cleared.
THEOREM SlotsCurrent == Safety => []SlotsHoldCurrentWork
<1>1. PipelineInv => SlotsHoldCurrentWork
  BY DEF PipelineInv
<1> QED  BY <1>1, Inductive, PTL

\* frames already numbered, and the one committed last, keep their stamp
LEMMA CommittedStampStays ==
    ASSUME TypeOK, NEW s \in Stamps, frames' = Append(frames, s), UNCHANGED lastCommitted
    PROVE  CommittedStamp' = CommittedStamp
<1>1. frames \in Seq(Stamps) /\ Len(frames) \in Nat /\ lastCommitted \in {-1} \cup 1..Len(frames)
  BY DEF TypeOK
<1>2. /\ Len(frames') = Len(frames) + 1
      /\ \A i \in 1..Len(frames) : i \in 1..Len(frames') /\ frames'[i] = frames[i]
  BY <1>1
<1>3. CASE lastCommitted = -1
  BY <1>1, <1>2, <1>3 DEF CommittedStamp
<1>4. CASE lastCommitted \in 1..Len(frames)
  BY <1>2, <1>4 DEF CommittedStamp
<1> QED  BY <1>1, <1>3, <1>4

\* a commit accepts a plan of a newer frame, of this time line and mode epoch
LEMMA CommitAccepts ==
    ASSUME PipelineInv, NEW timely \in BOOLEAN, Commit(timely)
    PROVE  Authority!Accept \/ UNCHANGED Authority!authority
<1>1. PICK work \in inference.work :
          IF timely /\ ~shutdown /\ Committable(work)
          THEN /\ lastCommitted' = work.sequence
               /\ active' = IF work.snapshot.mode = "HOVER" THEN active ELSE {work}
          ELSE UNCHANGED <<lastCommitted, active>>
  BY DEF Commit
<1>2. UNCHANGED <<generation, frames, runtime>>
  BY DEF Commit
<1>3. CASE UNCHANGED <<lastCommitted, active>>
  BY <1>2, <1>3 DEF Authority!authority, CommittedStamp
<1>4. CASE /\ Committable(work) /\ lastCommitted' = work.sequence
           /\ active' = IF work.snapshot.mode = "HOVER" THEN active ELSE {work}
  <2>1. /\ work.sequence \in 1..Len(frames) /\ frames[work.sequence] = work.stamp
        /\ work.generation = generation /\ work.snapshot = runtime
        /\ work.sequence > lastCommitted
    BY <1>4 DEF PipelineInv, CarriedInv, Carried, Known, Committable, IsCurrent
  <2>2. CommittedStamp' = work.stamp
    BY <1>2, <1>4, <2>1 DEF CommittedStamp
  <2>3. work.stamp \in Nat /\ work.stamp > 0
    BY <2>1, FrameStamps
  <2>4. work.stamp > CommittedStamp
    <3>1. CASE lastCommitted \in 1..Len(frames)
      BY <2>1, <3>1 DEF CommittedStamp, PipelineInv, FramesInv
    <3>2. CASE lastCommitted \notin 1..Len(frames)
      BY <2>3, <3>2 DEF CommittedStamp
    <3> QED  BY <3>1, <3>2
  <2>5. CASE active' = active
    BY <1>2, <2>2, <2>3, <2>4, <2>5 DEF Authority!Accept
  <2>6. CASE active' = {work}
    BY <1>2, <2>1, <2>2, <2>3, <2>4, <2>6 DEF Authority!Accept, Authority!Plan
  <2> QED  BY <1>4, <2>5, <2>6
<1> QED  BY <1>1, <1>3, <1>4

LEMMA StepImplements ==
    ASSUME PipelineInv, [Next]_vars PROVE [Authority!Next]_(Authority!authority)
<1>1. TypeOK
  BY DEF PipelineInv
<1>2. CASE UNCHANGED <<generation, frames, lastCommitted, runtime, active>>
  BY <1>2 DEF Authority!authority, CommittedStamp
<1>3. CASE ResetPipeline
  BY <1>3 DEF ResetPipeline, NothingCommitted, CommittedStamp, Authority!Next,
              Authority!NewTimeline
<1>4. CASE Callback
  <2>1. CASE InvalidateActiveTrajectory
    BY <2>1 DEF InvalidateActiveTrajectory, CommittedStamp, Authority!Next, Authority!Withdraw
  <2> QED  BY <1>2, <1>3, <1>4, <2>1 DEF Callback, CallbackLidar, CallbackTracks,
                                        OtherStreamMovesBackward
<1>5. CASE Assemble
  <2>1. ASSUME NEW late \in SUBSET Complete, NEW mode \in Modes, AssembleFrame(late, mode)
        PROVE  Authority!NewEpoch \/ UNCHANGED Authority!authority
    <3>1. PICK s \in Selected(late) : frames' = Append(frames, s) /\ PublishFrame(s, mode)
      BY <2>1 DEF AssembleFrame
    <3>2. s \in Stamps
      BY SelectedIsNew
    <3>3. \/ UNCHANGED <<runtime, active>>
          \/ runtime'.version = runtime.version + 1 /\ active' = {}
      BY <1>1, <3>1, <3>2, PublishedFrame
    <3>4. CommittedStamp' = CommittedStamp /\ UNCHANGED generation
      BY <1>1, <2>1, <3>1, <3>2, CommittedStampStays DEF AssembleFrame
    <3> QED  BY <3>3, <3>4 DEF Authority!NewEpoch, Authority!authority
  <2>2. ASSUME NEW late \in SUBSET Complete, SkipUnpredictable(late)
        PROVE  UNCHANGED Authority!authority
    <3>1. PICK s \in Selected(late) : frames' = Append(frames, s)
      BY <2>2 DEF SkipUnpredictable
    <3>2. s \in Stamps
      BY SelectedIsNew
    <3>3. CommittedStamp' = CommittedStamp /\ UNCHANGED <<generation, runtime, active>>
      BY <1>1, <2>2, <3>1, <3>2, CommittedStampStays DEF SkipUnpredictable
    <3> QED  BY <3>3 DEF Authority!authority
  <2>3. CASE SkipIncomplete
    BY <1>2, <2>3 DEF SkipIncomplete
  <2> QED  BY <1>5, <2>1, <2>2, <2>3 DEF Assemble, Authority!Next
<1>6. CASE Preprocess
  BY <1>2, <1>6 DEF Preprocess, PreTake, PreStart, PrePrepare, PrePublish, PreEnd
<1>7. CASE Infer
  <2>1. ASSUME NEW timely \in BOOLEAN, Commit(timely)
        PROVE  [Authority!Next]_(Authority!authority)
    BY <2>1, CommitAccepts DEF Authority!Next
  <2> QED  BY <1>2, <1>7, <2>1 DEF Infer, InfTake, InfStart, InfRun, InfEnd
<1>8. CASE Shutdown \/ NotifyWorkersShutdown \/ Terminated \/ UNCHANGED vars
  BY <1>2, <1>8 DEF Shutdown, NotifyWorkersShutdown, Terminated, vars
<1> QED  BY <1>4, <1>5, <1>6, <1>7, <1>8 DEF Next

\* The pipeline implements the abstract authority: only plans of the present
\* time line and mode epoch are installed, for newer and newer frames, although
\* the workers check and hand on without holding the lock in between.
THEOREM Refinement == Safety => ImplementsAuthority
<1>1. Init => Authority!Init
  BY DEF Init, Authority!Init, CommittedStamp
<1>2. PipelineInv /\ [Next]_vars => [Authority!Next]_(Authority!authority)
  BY StepImplements
<1> QED  BY <1>1, <1>2, Inductive, PTL DEF Safety, ImplementsAuthority, Authority!Spec

-----------------------------------------------------------------------------
(* The stages in order *)

\* of the present generation, what is in A is newer than what is in B
Newer(A, B) ==
    \A a \in A, b \in B :
        a.generation = generation /\ b.generation = generation => b.sequence < a.sequence

\* No frame overtakes another one on its way through slots and workers, and what is on
\* its way is newer than what has been committed.
StagesInOrder ==
    /\ Newer(perceptionSlot.payload, preprocessing.work)
    /\ Newer(perceptionSlot.payload, inferenceSlot.payload)
    /\ Newer(perceptionSlot.payload, inference.work)
    /\ Newer(preprocessing.work, inferenceSlot.payload)
    /\ Newer(preprocessing.work, inference.work)
    /\ Newer(inferenceSlot.payload, inference.work)
    /\ \A work \in Carried : work.generation = generation => lastCommitted < work.sequence

\* a step that only takes work away
LEMMA OrderOfLess ==
    ASSUME StagesInOrder, UNCHANGED <<generation, lastCommitted>>,
           perceptionSlot'.payload \subseteq perceptionSlot.payload,
           inferenceSlot'.payload \subseteq inferenceSlot.payload,
           preprocessing'.work \subseteq preprocessing.work,
           inference'.work \subseteq inference.work
    PROVE  StagesInOrder'
BY DEF StagesInOrder, Newer, Carried

LEMMA ResetKeepsOrder == ASSUME PipelineInv, ResetPipeline PROVE StagesInOrder'
<1>1. TypeOK
  BY DEF PipelineInv
<1>2. Carried' \subseteq Carried /\ generation' = generation + 1
  BY <1>1, SlotOperations DEF ResetPipeline, TypeOK, Carried
<1>3. \A work \in Carried' : work.generation # generation'
  <2>1. \A work \in Carried : work.generation \in Nat /\ work.generation <= generation
    BY <1>1, CarriedWork DEF PipelineInv, CarriedInv, Known, Work
  <2> QED  BY <1>1, <1>2, <2>1 DEF TypeOK
<1> QED  BY <1>3 DEF StagesInOrder, Newer, Carried

\* a new frame has a larger number than everything under way
LEMMA FrameKeepsOrder ==
    ASSUME PipelineInv, StagesInOrder, NEW late, NEW mode \in Modes, AssembleFrame(late, mode)
    PROVE  StagesInOrder'
<1>1. TypeOK
  BY DEF PipelineInv
<1>2. PICK s \in Selected(late) : PublishFrame(s, mode)
  BY DEF AssembleFrame
<1>3. UNCHANGED <<generation, lastCommitted, workers>>
  BY DEF AssembleFrame
<1>4. s \in Stamps
  BY SelectedIsNew
<1>5. PICK frame \in Work :
          perceptionSlot'.payload = {frame} /\ frame.sequence = Len(frames) + 1
  BY <1>1, <1>2, <1>4, PublishedFrame
<1>6. inferenceSlot'.payload \subseteq inferenceSlot.payload
  BY <1>1, <1>2, <1>4, PublishedFrame
<1>7. ASSUME NEW work \in Carried, work.generation = generation
      PROVE  work.sequence < frame.sequence
  <2>1. work.sequence \in 1..Len(frames) /\ Len(frames) \in Nat
    BY <1>1, <1>7 DEF PipelineInv, CarriedInv, Known, TypeOK
  <2> QED  BY <1>5, <2>1
<1>8. lastCommitted < frame.sequence
  BY <1>1, <1>5 DEF TypeOK
<1> QED  BY <1>3, <1>5, <1>6, <1>7, <1>8 DEF StagesInOrder, Newer, Carried

LEMMA PreprocessKeepsOrder ==
    ASSUME PipelineInv, StagesInOrder, Preprocess PROVE StagesInOrder'
<1>1. /\ TypeOK /\ perceptionSlot \in Slot /\ inferenceSlot \in Slot
      /\ preprocessing \in Worker /\ UNCHANGED <<generation, lastCommitted, inference>>
  BY DEF PipelineInv, TypeOK, Preprocess, PreTake, PreStart, PrePrepare, PrePublish, PreEnd,
         counts
<1>2. CASE PreTake
  <2>1. /\ perceptionSlot'.payload = {} /\ preprocessing'.work = perceptionSlot.payload
        /\ UNCHANGED inferenceSlot
    BY <1>1, <1>2, SlotOperations DEF PreTake
  <2> QED  BY <1>1, <2>1 DEF StagesInOrder, Newer, Carried
<1>3. ASSUME NEW timely \in BOOLEAN, NEW succeeds \in BOOLEAN,
             PreStart(timely) \/ PrePrepare(succeeds) \/ PreEnd
      PROVE  StagesInOrder'
  <2>1. preprocessing'.work \subseteq preprocessing.work /\ UNCHANGED slots
    BY <1>1, <1>3, WorkerOperations DEF PreStart, PrePrepare, PreEnd
  <2> QED  BY <1>1, <2>1, OrderOfLess DEF slots
<1>4. CASE PrePublish
  <2>1. PICK work \in preprocessing.work :
            inferenceSlot' = IF ~shutdown /\ StillWanted(work)
                             THEN Published(inferenceSlot, work) ELSE inferenceSlot
    BY <1>4 DEF PrePublish
  <2>2. work \in Work
    BY <1>1 DEF Worker
  <2>3. inferenceSlot'.payload = {work} \/ inferenceSlot'.payload = inferenceSlot.payload
    BY <1>1, <2>1, <2>2, SlotOperations
  <2>4. preprocessing'.work = {} /\ UNCHANGED perceptionSlot
    BY <1>1, <1>4, WorkerOperations DEF PrePublish
  <2> QED  BY <1>1, <2>3, <2>4 DEF StagesInOrder, Newer, Carried
<1> QED  BY <1>2, <1>3, <1>4 DEF Preprocess

LEMMA InferKeepsOrder ==
    ASSUME PipelineInv, StagesInOrder, Infer PROVE StagesInOrder'
<1>1. /\ TypeOK /\ inferenceSlot \in Slot /\ inference \in Worker
      /\ UNCHANGED <<generation, perceptionSlot, preprocessing>>
  BY DEF PipelineInv, TypeOK, Infer, InfTake, InfStart, InfRun, Commit, InfEnd, counts, slots
<1>2. CASE InfTake
  <2>1. /\ inferenceSlot'.payload = {} /\ inference'.work = inferenceSlot.payload
        /\ UNCHANGED lastCommitted
    BY <1>1, <1>2, SlotOperations DEF InfTake, counts
  <2> QED  BY <1>1, <2>1 DEF StagesInOrder, Newer, Carried
<1>3. ASSUME NEW timely \in BOOLEAN, NEW succeeds \in BOOLEAN,
             InfStart(timely) \/ InfRun(succeeds) \/ InfEnd
      PROVE  StagesInOrder'
  <2>1. inference'.work \subseteq inference.work /\ UNCHANGED <<slots, lastCommitted>>
    BY <1>1, <1>3, WorkerOperations DEF InfStart, InfRun, InfEnd, counts
  <2> QED  BY <1>1, <2>1, OrderOfLess DEF slots
<1>4. ASSUME NEW timely \in BOOLEAN, Commit(timely) PROVE StagesInOrder'
  <2>1. PICK work \in inference.work :
            \/ lastCommitted' = work.sequence /\ work.generation = generation
            \/ UNCHANGED lastCommitted
    BY <1>4 DEF Commit, Committable
  <2>2. inference'.work = {} /\ UNCHANGED inferenceSlot
    BY <1>1, <1>4, WorkerOperations DEF Commit, slots
  <2> QED  BY <1>1, <2>1, <2>2 DEF StagesInOrder, Newer, Carried
<1> QED  BY <1>2, <1>3, <1>4 DEF Infer

LEMMA NextKeepsOrder == PipelineInv /\ StagesInOrder /\ [Next]_vars => StagesInOrder'
<1> SUFFICES ASSUME PipelineInv, StagesInOrder, [Next]_vars PROVE StagesInOrder'
  OBVIOUS
<1>1. ASSUME UNCHANGED <<generation, lastCommitted, slots, workers>> PROVE StagesInOrder'
  BY <1>1, OrderOfLess DEF slots, workers
<1>2. CASE Callback
  BY <1>1, <1>2, ResetKeepsOrder DEF Callback, CallbackLidar, CallbackTracks,
     OtherStreamMovesBackward, InvalidateActiveTrajectory, counts
<1>3. CASE Assemble
  BY <1>1, <1>3, FrameKeepsOrder DEF Assemble, SkipUnpredictable, SkipIncomplete, counts
<1>4. CASE NotifyWorkersShutdown
  <2>1. /\ perceptionSlot'.payload = {} /\ inferenceSlot'.payload = {}
        /\ UNCHANGED <<generation, lastCommitted, workers>>
    BY <1>4, SlotOperations DEF NotifyWorkersShutdown, PipelineInv, TypeOK, counts
  <2> QED  BY <2>1, OrderOfLess DEF workers
<1> QED
  BY <1>1, <1>2, <1>3, <1>4, PreprocessKeepsOrder, InferKeepsOrder
     DEF Next, Shutdown, Terminated, vars, counts

\* Frames reach the commit in their order, whatever the threads take, drop, fail at or
\* publish late: the sequence number compared before a commit refuses nothing that the
\* generation and the mode do not.
THEOREM NothingOvertakes == Safety => []StagesInOrder
<1>1. Init => StagesInOrder
  BY DEF Init, StagesInOrder, Newer, Carried
<1> QED  BY <1>1, NextKeepsOrder, Inductive, PTL DEF Safety

-----------------------------------------------------------------------------
(* Versions of slots *)

\* a worker has seen no version that is still to come, and none whose work is still there
Unseen(slot, last) == last <= slot.version /\ (slot.payload # {} => last < slot.version)

VersionInv ==
    Unseen(perceptionSlot, preprocessing.last) /\ Unseen(inferenceSlot, inference.last)

\* What is in a slot is what its worker will take next.
NothingHidden ==
    /\ Takable(perceptionSlot, preprocessing.last) = perceptionSlot.payload
    /\ Takable(inferenceSlot, inference.last) = inferenceSlot.payload

LEMMA SlotVersions ==
    ASSUME NEW slot \in Slot, NEW last \in Nat, Unseen(slot, last)
    PROVE  /\ Unseen(Cleared(slot), last)
           /\ \A work \in Work : Unseen(Published(slot, work), last)
           /\ Unseen([slot EXCEPT !.payload = {}], slot.version)
BY DEF Slot, Unseen, Cleared, Published

LEMMA WorkerRemembers ==
    ASSUME NEW worker \in Worker
    PROVE  /\ GoesIdle(worker).last = worker.last
           /\ \A pc \in {"computing", "handing", "ended"} :
                 [worker EXCEPT !.pc = pc].last = worker.last
BY DEF Worker, GoesIdle

LEMMA NextKeepsVersions == PipelineInv /\ VersionInv /\ [Next]_vars => VersionInv'
<1> SUFFICES ASSUME PipelineInv, VersionInv, [Next]_vars PROVE VersionInv'
  OBVIOUS
<1>1. /\ perceptionSlot \in Slot /\ inferenceSlot \in Slot
      /\ preprocessing \in Worker /\ inference \in Worker
      /\ preprocessing.last \in Nat /\ inference.last \in Nat
      /\ perceptionSlot.version \in Nat /\ inferenceSlot.version \in Nat
  BY DEF PipelineInv, TypeOK, Slot, Worker
<1>2. Unseen(perceptionSlot, preprocessing.last) /\ Unseen(inferenceSlot, inference.last)
  BY DEF VersionInv
<1>3. ASSUME perceptionSlot' = Cleared(perceptionSlot), UNCHANGED workers,
             inferenceSlot' = Cleared(inferenceSlot)
      PROVE  VersionInv'
  BY <1>1, <1>2, <1>3, SlotVersions DEF VersionInv, workers
<1>4. ASSUME UNCHANGED slots, preprocessing'.last = preprocessing.last,
             inference'.last = inference.last
      PROVE  VersionInv'
  BY <1>4 DEF VersionInv, slots
<1>5. CASE Callback
  BY <1>3, <1>4, <1>5 DEF Callback, CallbackLidar, CallbackTracks,
     OtherStreamMovesBackward, InvalidateActiveTrajectory, ResetPipeline, workers
<1>6. ASSUME NEW late, NEW mode \in Modes, AssembleFrame(late, mode) PROVE VersionInv'
  <2>1. PICK s \in Selected(late) : PublishFrame(s, mode)
    BY <1>6 DEF AssembleFrame
  <2> DEFINE former == IF mode # runtime.mode THEN Cleared(perceptionSlot) ELSE perceptionSlot
  <2>2. /\ \E frame : perceptionSlot' = Published(former, frame)
        /\ inferenceSlot' = Cleared(inferenceSlot) \/ inferenceSlot' = inferenceSlot
    BY <2>1 DEF PublishFrame
  <2>3. former \in Slot /\ Unseen(former, preprocessing.last)
    BY <1>1, <1>2, SlotOperations, SlotVersions
  <2>4. Unseen(perceptionSlot', preprocessing.last)
    <3>1. perceptionSlot'.version = former.version + 1 /\ former.version \in Nat
      BY <2>2, <2>3 DEF Published, Slot
    <3> HIDE DEF former
    <3> QED  BY <1>1, <2>3, <3>1 DEF Unseen
  <2>5. Unseen(inferenceSlot', inference.last)
    BY <1>1, <1>2, <2>2, SlotVersions
  <2> QED  BY <1>6, <2>4, <2>5 DEF VersionInv, AssembleFrame, workers
<1>7. CASE Assemble
  BY <1>4, <1>6, <1>7 DEF Assemble, SkipUnpredictable, SkipIncomplete, workers
<1>8. CASE Preprocess
  <2>1. CASE PreTake
    BY <1>1, <1>2, <2>1, SlotVersions DEF PreTake, VersionInv
  <2>2. ASSUME NEW timely \in BOOLEAN, NEW succeeds \in BOOLEAN,
               PreStart(timely) \/ PrePrepare(succeeds) \/ PreEnd
        PROVE  VersionInv'
    BY <1>1, <1>4, <2>2, WorkerRemembers DEF PreStart, PrePrepare, PreEnd
  <2>3. CASE PrePublish
    <3>1. PICK work \in preprocessing.work :
              inferenceSlot' = IF ~shutdown /\ StillWanted(work)
                               THEN Published(inferenceSlot, work) ELSE inferenceSlot
      BY <2>3 DEF PrePublish
    <3>2. work \in Work
      BY <1>1 DEF Worker
    <3>3. Unseen(inferenceSlot', inference.last)
      BY <1>1, <1>2, <3>1, <3>2, SlotVersions
    <3> QED  BY <1>1, <1>2, <2>3, <3>3, WorkerRemembers DEF PrePublish, VersionInv
  <2> QED  BY <1>8, <2>1, <2>2, <2>3 DEF Preprocess
<1>9. CASE Infer
  <2>1. CASE InfTake
    BY <1>1, <1>2, <2>1, SlotVersions DEF InfTake, VersionInv
  <2>2. ASSUME NEW timely \in BOOLEAN, NEW succeeds \in BOOLEAN,
               InfStart(timely) \/ InfRun(succeeds) \/ InfEnd \/ Commit(timely)
        PROVE  VersionInv'
    BY <1>1, <1>4, <2>2, WorkerRemembers DEF InfStart, InfRun, InfEnd, Commit
  <2> QED  BY <1>9, <2>1, <2>2 DEF Infer
<1>10. CASE Shutdown \/ Terminated \/ UNCHANGED vars
  BY <1>4, <1>10 DEF Shutdown, Terminated, vars, workers
<1>11. CASE NotifyWorkersShutdown
  BY <1>3, <1>11 DEF NotifyWorkersShutdown
<1> QED  BY <1>5, <1>7, <1>8, <1>9, <1>10, <1>11 DEF Next

\* The version a worker remembers never hides work from it: take_after() returns what
\* has been published, however often slots are cleared, and the worker need only be
\* scheduled for the work to be taken (PendingWorkIsTaken).
THEOREM PublishedWorkIsSeen == Safety => []NothingHidden
<1>1. Init => VersionInv
  BY DEF Init, VersionInv, Unseen
<1>2. VersionInv /\ PipelineInv => NothingHidden
  <2> SUFFICES ASSUME VersionInv, PipelineInv PROVE NothingHidden
    OBVIOUS
  <2>1. /\ perceptionSlot.version \in Nat /\ inferenceSlot.version \in Nat
        /\ preprocessing.last \in Nat /\ inference.last \in Nat
    BY DEF PipelineInv, TypeOK, Slot, Worker
  <2> QED  BY <2>1 DEF VersionInv, Unseen, NothingHidden, Takable
<1> QED  BY <1>1, <1>2, NextKeepsVersions, Inductive, PTL DEF Safety
=============================================================================

-------------------------- MODULE ControlLoopProofs --------------------------
(***************************************************************************)
(* Theorems about the control loop, for every length of a trajectory,      *)
(* refresh timeout and bound.                                              *)
(***************************************************************************)
EXTENDS ControlLoop, TLAPS

USE DEF planner, samples, history

-----------------------------------------------------------------------------
(* The inductive invariant *)

InCall == IF calls["inference"].pc = "idle" THEN 0 ELSE 1

\* the inference thread, while it is in control_pub, may send one sample more
\* than the timer; the repetition of the first sample makes up for it, and is all
\* that the clock may lag behind
OnTime(ref) ==
    /\ ref.repeat => ref.clock = 0
    /\ ref.clock + InCall <= timerSamples + (IF ref.repeat THEN 1 ELSE 0)
    /\ timerSamples <= ref.clock + (IF ref.repeat THEN 0 ELSE 1)

ClockInv == \A ref \in reference : OnTime(ref)
OneReference == \A a, b \in reference : a = b

LoopInv == TypeOK /\ ClockInv /\ OneReference

\* A trajectory that a call at that time cannot find executable, nor a later one.
Over(ref, time) == ref.clock + 1 > Duration \/ time - ref.committed > RefreshTimeout

ReferenceInv == \A ref \in reference : ref.epoch = epoch /\ mode # "HOVER" /\ ref.committed <= now

PastInv ==
    /\ sampledAt <= now
    /\ \A pose \in latch : pose <= now
    /\ \A t \in Deciding : calls[t].read <= now

\* A thread that waits and has not been overtaken has read after whatever was decided.
ReadInv ==
    \A t \in Deciding \ overtaken :
       /\ calls[t].read >= sampledAt
       /\ \A ref \in reference : calls[t].read >= ref.committed
       /\ \A pose \in latch : calls[t].read >= pose

LatchInv ==
    \A pose \in latch :
       ~outdated => pose >= sampledAt /\ \A ref \in reference : Over(ref, pose)

PoseInv == ReferenceInv /\ PastInv /\ ReadInv /\ LatchInv

LEMMA Bounds ==
    /\ Duration \in Nat \ {0} /\ RefreshTimeout \in Nat \ {0}
    /\ MaxTime \in Nat /\ MaxStamp \in Nat /\ MaxTimeline \in Nat /\ MaxEpoch \in Nat
BY LoopAssumption

LEMMA InitInv == Init => LoopInv
<1> SUFFICES ASSUME Init PROVE LoopInv
  OBVIOUS
<1>1. NoCall \in Call
  BY Bounds DEF NoCall, Call, Time
<1>2. TypeOK
  <2>1. outdated \in BOOLEAN /\ overtaken \subseteq Threads
    BY DEF Init
  <2> QED  BY <1>1, <2>1, Bounds DEF Init, TypeOK, Time, Modes, Outputs
<1>3. ClockInv /\ OneReference
  BY DEF Init, ClockInv, OneReference
<1> QED  BY <1>2, <1>3 DEF LoopInv

\* a step that installs nothing new and keeps the two threads where they are
LEMMA PlannerKeepsInv ==
    ASSUME LoopInv, Tick \/ Reset \/ ModeChanges \/ InvalidateActiveTrajectory
    PROVE  LoopInv'
<1>1. TypeOK /\ timerSamples \in Nat
  BY DEF LoopInv, TypeOK
<1>2. /\ reference' \subseteq reference
      /\ UNCHANGED <<latch, calls, output, samples, history>>
  BY DEF Tick, Reset, ModeChanges, InvalidateActiveTrajectory, Withdrawn
<1>3. /\ now' \in Time /\ timeline' \in 0..MaxTimeline /\ epoch' \in 0..MaxEpoch
      /\ newest' \in 0..MaxStamp /\ mode' \in Modes
  BY <1>1, Bounds DEF TypeOK, Time, Tick, Reset, ModeChanges, InvalidateActiveTrajectory
<1>4. TypeOK'
  BY <1>1, <1>2, <1>3 DEF TypeOK
<1>5. ClockInv' /\ OneReference'
  BY <1>2 DEF LoopInv, ClockInv, OneReference, OnTime, InCall
<1> QED  BY <1>4, <1>5 DEF LoopInv

LEMMA CommitKeepsInv == ASSUME LoopInv, Commit PROVE LoopInv'
<1>1. TypeOK /\ calls \in [Threads -> Call] /\ "inference" \in Threads
  BY DEF LoopInv, TypeOK, Threads
<1>2. newest' \in 1..MaxStamp
  BY <1>1, Bounds DEF Commit, TypeOK
<1>3. UNCHANGED <<now, timeline, epoch, mode, output, sampledAt>>
  BY DEF Commit
<1>4. CASE mode = "HOVER"
  <2>1. UNCHANGED <<reference, latch, calls, timerSamples, history>>
    BY <1>4 DEF Commit
  <2>2. TypeOK'
    BY <1>1, <1>2, <1>3, <2>1, Bounds DEF TypeOK
  <2> QED  BY <2>1, <2>2 DEF LoopInv, ClockInv, OneReference, OnTime, InCall
<1>5. CASE mode # "HOVER"
  <2> DEFINE ref == [stamp |-> newest', timeline |-> timeline, epoch |-> epoch,
                     clock |-> 0, repeat |-> TRUE, committed |-> now]
  <2>1. /\ reference' = {ref} /\ latch' = {} /\ timerSamples' = 0
        /\ calls' = [calls EXCEPT !["inference"].pc = "called"]
    BY <1>5 DEF Commit, DroppedLatch
  <2>2. ref \in Reference
    BY <1>1, <1>2, Bounds DEF TypeOK, Reference, Time
  <2>3. ref.clock = 0 /\ ref.repeat = TRUE
    OBVIOUS
  <2> HIDE DEF ref
  <2>4. calls' \in [Threads -> Call] /\ overtaken' \subseteq Threads /\ outdated' \in BOOLEAN
    BY <1>1, <1>5, <2>1 DEF Call, TypeOK, Commit, Deciding
  <2>5. TypeOK'
    BY <1>1, <1>2, <1>3, <2>1, <2>2, <2>4, Bounds DEF TypeOK
  <2>6. InCall' \in {0, 1}
    BY DEF InCall
  <2>7. ClockInv' /\ OneReference'
    BY <2>1, <2>3, <2>6 DEF ClockInv, OnTime, OneReference
  <2> QED  BY <2>5, <2>7 DEF LoopInv
<1> QED  BY <1>4, <1>5

\* a thread goes on, or ends its call, without sending a sample
LEMMA CallKeepsInv ==
    ASSUME LoopInv, NEW t \in Threads, NEW call \in Call,
           calls' = [calls EXCEPT ![t] = call],
           t = "inference" /\ calls[t].pc = "idle" => call.pc = "idle",
           latch' \subseteq Time, output' \in Outputs,
           overtaken' \subseteq Threads, outdated' \in BOOLEAN,
           UNCHANGED <<now, planner, reference, samples>>
    PROVE  LoopInv'
<1>1. TypeOK /\ calls \in [Threads -> Call] /\ timerSamples \in Nat
      /\ "inference" \in Threads
  BY DEF LoopInv, TypeOK, Threads
<1>2. TypeOK'
  BY <1>1 DEF TypeOK
<1>3. InCall \in {0, 1} /\ InCall' \in {0, 1} /\ InCall' <= InCall
  BY <1>1 DEF InCall
<1>4. ClockInv'
  <2> SUFFICES ASSUME NEW ref \in reference PROVE OnTime(ref)'
    BY DEF ClockInv
  <2>1. OnTime(ref) /\ ref.clock \in Nat
    BY <1>1, Bounds DEF LoopInv, ClockInv, TypeOK, Reference
  <2> QED  BY <1>1, <1>3, <2>1 DEF OnTime
<1>5. OneReference'
  BY DEF LoopInv, OneReference
<1> QED  BY <1>2, <1>4, <1>5 DEF LoopInv

LEMMA FollowKeepsInv ==
    ASSUME LoopInv, NEW t \in Threads, calls[t].pc = "deciding", Follow(t),
           calls' = [calls EXCEPT ![t] = NoCall],
           overtaken' \subseteq Threads, outdated' \in BOOLEAN, UNCHANGED <<now, planner>>
    PROVE  LoopInv'
<1>1. /\ TypeOK /\ calls \in [Threads -> Call] /\ timerSamples \in Nat
      /\ "inference" \in Threads /\ NoCall \in Call
  BY Bounds DEF LoopInv, TypeOK, Threads, NoCall, Call, Time
<1>2. PICK ref \in reference :
          /\ Executable(ref, calls[t].read)
          /\ reference' = {[ref EXCEPT !.clock = NextClock(ref), !.repeat = FALSE]}
  BY DEF Follow
<1>3. /\ ref \in Reference /\ OnTime(ref) /\ ref.clock \in 0..Duration
      /\ ref.repeat \in BOOLEAN
  BY <1>1 DEF TypeOK, LoopInv, ClockInv, Reference
<1> DEFINE next == [ref EXCEPT !.clock = NextClock(ref), !.repeat = FALSE]
<1>4. NextClock(ref) \in 0..Duration
  BY <1>2, <1>3, Bounds DEF NextClock, Executable
<1>5. next \in Reference /\ next.clock = NextClock(ref) /\ next.repeat = FALSE
  BY <1>3, <1>4 DEF Reference
<1> HIDE DEF next
<1>6. reference' = {next}
  BY <1>2 DEF next
<1>7. TypeOK'
  BY <1>1, <1>5, <1>6 DEF TypeOK, Follow, Outputs
<1>8. OnTime(next)'
  <2>1. CASE t = "timer"
    <3>1. InCall' = InCall /\ InCall \in {0, 1}
      BY <1>1, <2>1 DEF InCall
    <3>2. CASE timerSamples <= Duration
      <4>1. timerSamples' = timerSamples + 1
        BY <2>1, <3>2 DEF Follow
      <4> QED  BY <1>1, <1>3, <1>5, <3>1, <4>1 DEF OnTime, NextClock
    <3>3. CASE timerSamples > Duration
      <4>1. timerSamples <= ref.clock + 1 /\ ref.clock + 1 <= Duration
        BY <1>1, <1>2, <1>3 DEF OnTime, Executable
      <4> QED  BY <1>1, <1>3, <3>3, <4>1, Bounds
    <3> QED  BY <1>1, <3>2, <3>3, Bounds
  <2>2. CASE t = "inference"
    <3>1. InCall' = 0 /\ InCall = 1 /\ timerSamples' = timerSamples
      BY <1>1, <2>2 DEF InCall, Follow, NoCall
    <3> QED  BY <1>1, <1>3, <1>5, <3>1 DEF OnTime, NextClock
  <2> QED  BY <2>1, <2>2 DEF Threads
<1> QED  BY <1>6, <1>7, <1>8 DEF LoopInv, ClockInv, OneReference

LEMMA ControlPubKeepsInv ==
    ASSUME LoopInv, NEW t \in Threads, ControlPub(t) PROVE LoopInv'
<1>1. /\ calls[t] \in Call /\ calls \in [Threads -> Call] /\ NoCall \in Call
      /\ now \in Time /\ latch \subseteq Time /\ output \in Outputs
      /\ overtaken \subseteq Threads /\ outdated \in BOOLEAN
  BY Bounds DEF LoopInv, TypeOK, NoCall, Call, Time
<1>2. NoCall.pc = "idle"
  BY DEF NoCall
<1>3. CASE Branch(t)
  <2>1. PICK pc \in {"static", "reading", "idle"} : calls' = [calls EXCEPT ![t].pc = pc]
    BY <1>3 DEF Branch
  <2> DEFINE call == [calls[t] EXCEPT !.pc = pc]
  <2>2. call \in Call /\ calls' = [calls EXCEPT ![t] = call]
    BY <1>1, <2>1 DEF Call
  <2>3. ~(t = "inference" /\ calls[t].pc = "idle")
    BY <1>3 DEF Branch
  <2> QED  BY <1>1, <1>3, <2>2, <2>3, CallKeepsInv DEF Branch
<1>4. CASE DropLatch(t)
  <2> DEFINE call == [calls[t] EXCEPT !.pc = "sending"]
  <2>1. call \in Call /\ calls' = [calls EXCEPT ![t] = call]
    BY <1>1, <1>4 DEF Call, DropLatch
  <2> QED  BY <1>1, <1>4, <2>1, CallKeepsInv DEF DropLatch, DroppedLatch
<1>5. CASE SendStatic(t)
  BY <1>1, <1>2, <1>5, CallKeepsInv DEF SendStatic, Outputs
<1>6. CASE Read(t)
  <2> DEFINE call == [calls[t] EXCEPT !.read = now, !.pc = "deciding"]
  <2>1. call \in Call /\ calls' = [calls EXCEPT ![t] = call]
    BY <1>1, <1>6 DEF Call, Read
  <2> QED  BY <1>1, <1>6, <2>1, CallKeepsInv DEF Read
<1>7. CASE Decide(t)
  <2>1. overtaken' \subseteq Threads
    BY <1>1, <1>7 DEF Decide, Deciding
  <2>2. CASE Hover(t)
    <3>1. latch' \subseteq Time
      BY <1>1, <2>2 DEF Hover, LatchedHover, Call
    <3>2. outdated' \in BOOLEAN
      BY <2>2 DEF Hover
    <3> QED  BY <1>1, <1>2, <1>7, <2>1, <2>2, <3>1, <3>2, CallKeepsInv DEF Decide, Hover, Outputs
  <2>3. CASE Arrived(t)
    BY <1>1, <1>2, <1>7, <2>1, <2>3, CallKeepsInv DEF Decide, Arrived, Outputs, DroppedLatch
  <2>4. CASE Follow(t)
    <3>1. outdated' \in BOOLEAN
      BY <2>4 DEF Follow
    <3> QED  BY <1>7, <2>1, <2>4, <3>1, FollowKeepsInv DEF Decide
  <2> QED  BY <1>7, <2>2, <2>3, <2>4 DEF Decide
<1> QED  BY <1>3, <1>4, <1>5, <1>6, <1>7 DEF ControlPub

LEMMA NextKeepsInv == LoopInv /\ [Next]_vars => LoopInv'
<1>1. ASSUME LoopInv, UNCHANGED vars PROVE LoopInv'
  BY <1>1 DEF vars, LoopInv, TypeOK, ClockInv, OneReference, OnTime, InCall
<1> QED  BY <1>1, PlannerKeepsInv, CommitKeepsInv, ControlPubKeepsInv DEF Next

THEOREM Inductive == Safety => []LoopInv
BY InitInv, NextKeepsInv, PTL DEF Safety

-----------------------------------------------------------------------------
(* The pose latched *)

LEMMA PoseTypes ==
    ASSUME LoopInv
    PROVE  /\ now \in Nat /\ sampledAt \in Nat /\ latch \subseteq Nat
           /\ Duration \in Nat /\ RefreshTimeout \in Nat
           /\ calls \in [Threads -> Call]
           /\ \A t \in Threads : calls[t].read \in Nat
           /\ \A ref \in reference : /\ ref \in Reference
                                     /\ ref.committed \in Nat /\ ref.clock \in Nat
<1>1. Time \subseteq Nat
  BY Bounds DEF Time
<1>2. TypeOK
  BY DEF LoopInv
<1>3. now \in Nat /\ sampledAt \in Nat /\ latch \subseteq Nat /\ calls \in [Threads -> Call]
  BY <1>1, <1>2 DEF TypeOK
<1>4. ASSUME NEW t \in Threads PROVE calls[t].read \in Nat
  <2>1. calls[t] \in Call
    BY <1>3
  <2> QED  BY <1>1, <2>1 DEF Call
<1>5. ASSUME NEW ref \in reference
      PROVE  ref \in Reference /\ ref.committed \in Nat /\ ref.clock \in Nat
  <2>1. ref \in Reference
    BY <1>2 DEF TypeOK
  <2>2. ref.committed \in Time /\ ref.clock \in 0..Duration
    BY <2>1 DEF Reference
  <2>3. ref.committed \in Nat
    BY <1>1, <2>2, Zenon
  <2>4. ref.clock \in Nat
    BY <2>2, Bounds
  <2> QED  BY <2>1, <2>3, <2>4, Zenon
<1> QED  BY <1>3, <1>4, <1>5, Bounds

LEMMA PlannerKeepsPose ==
    ASSUME LoopInv, PoseInv, Tick \/ Reset \/ ModeChanges \/ InvalidateActiveTrajectory
    PROVE  PoseInv'
<1>1. UNCHANGED <<latch, calls, samples, history>>
  BY DEF Tick, Reset, ModeChanges, InvalidateActiveTrajectory
<1>2. Deciding' = Deciding /\ Deciding \subseteq Threads
  BY <1>1 DEF Deciding
<1>3. CASE Tick
  <2>1. now' = now + 1 /\ UNCHANGED <<planner, reference>>
    BY <1>3 DEF Tick
  <2>2. ReferenceInv'
    BY <2>1, PoseTypes DEF PoseInv, ReferenceInv
  <2>3. PastInv'
    <3>1. sampledAt <= now + 1
      BY PoseTypes DEF PoseInv, PastInv
    <3>2. \A pose \in latch : pose <= now + 1
      BY PoseTypes DEF PoseInv, PastInv
    <3>3. \A t \in Deciding : calls[t].read <= now + 1
      BY <1>2, PoseTypes DEF PoseInv, PastInv
    <3> QED  BY <1>1, <1>2, <2>1, <3>1, <3>2, <3>3 DEF PastInv
  <2>4. ReadInv' /\ LatchInv'
    BY <1>1, <1>2, <2>1 DEF PoseInv, ReadInv, LatchInv, Over
  <2> QED  BY <2>2, <2>3, <2>4 DEF PoseInv
<1>4. CASE Reset \/ ModeChanges \/ InvalidateActiveTrajectory
  <2>1. reference' = {} /\ now' = now
    BY <1>4 DEF Reset, ModeChanges, InvalidateActiveTrajectory, Withdrawn
  <2>2. ReferenceInv' /\ PastInv' /\ ReadInv' /\ LatchInv'
    BY <1>1, <1>2, <2>1 DEF PoseInv, ReferenceInv, PastInv, ReadInv, LatchInv, Over
  <2> QED  BY <2>2 DEF PoseInv
<1> QED  BY <1>3, <1>4

LEMMA CommitKeepsPose == ASSUME LoopInv, PoseInv, Commit PROVE PoseInv'
<1>1. UNCHANGED <<now, epoch, mode, sampledAt>> /\ calls["inference"].pc = "idle"
  BY DEF Commit
<1>2. CASE mode = "HOVER"
  <2>1. UNCHANGED <<reference, latch, calls, history>>
    BY <1>2 DEF Commit
  <2>2. ReferenceInv' /\ PastInv' /\ ReadInv' /\ LatchInv'
    BY <1>1, <2>1 DEF PoseInv, ReferenceInv, PastInv, ReadInv, LatchInv, Over, Deciding
  <2> QED  BY <2>2 DEF PoseInv
<1>3. CASE mode # "HOVER"
  <2> DEFINE ref == [stamp |-> newest', timeline |-> timeline, epoch |-> epoch,
                     clock |-> 0, repeat |-> TRUE, committed |-> now]
  <2>1. /\ reference' = {ref} /\ latch' = {}
        /\ calls' = [calls EXCEPT !["inference"].pc = "called"]
        /\ overtaken' = overtaken \cup Deciding
    BY <1>3 DEF Commit, DroppedLatch
  <2>2. ref.epoch = epoch /\ ref.committed = now
    OBVIOUS
  <2> HIDE DEF ref
  <2>3. Deciding' \subseteq Deciding /\ \A t \in Deciding' : calls'[t] = calls[t]
    BY <2>1, PoseTypes DEF Deciding
  <2>4. ReferenceInv'
    BY <1>1, <1>3, <2>1, <2>2, PoseTypes DEF ReferenceInv
  <2>5. PastInv'
    BY <1>1, <2>1, <2>3 DEF PoseInv, PastInv
  <2>6. ReadInv' /\ LatchInv'
    BY <2>1, <2>3 DEF ReadInv, LatchInv
  <2> QED  BY <2>4, <2>5, <2>6 DEF PoseInv
<1> QED  BY <1>2, <1>3

\* a thread goes on with its call, or ends it, and decides nothing about a trajectory
LEMMA CallKeepsPose ==
    ASSUME LoopInv, PoseInv, NEW t \in Threads, NEW call \in Call,
           calls' = [calls EXCEPT ![t] = call], call.pc # "deciding",
           \/ UNCHANGED <<latch, outdated>>
           \/ latch' = {},
           UNCHANGED <<now, planner, reference, samples, overtaken>>
    PROVE  PoseInv'
<1>1. Deciding' \subseteq Deciding /\ \A u \in Deciding' : calls'[u] = calls[u]
  BY PoseTypes DEF Deciding
<1>2. latch' \subseteq latch /\ (latch' # {} => UNCHANGED <<latch, outdated>>)
  OBVIOUS
<1>3. ReferenceInv'
  BY DEF PoseInv, ReferenceInv
<1>4. PastInv'
  BY <1>1, <1>2 DEF PoseInv, PastInv
<1>5. ReadInv'
  BY <1>1, <1>2 DEF PoseInv, ReadInv
<1>6. LatchInv'
  BY <1>2 DEF PoseInv, LatchInv, Over
<1> QED  BY <1>3, <1>4, <1>5, <1>6 DEF PoseInv

LEMMA ReadKeepsPose == ASSUME LoopInv, PoseInv, NEW t \in Threads, Read(t) PROVE PoseInv'
<1>1. /\ calls' = [calls EXCEPT ![t].read = now, ![t].pc = "deciding"]
      /\ UNCHANGED <<now, planner, reference, latch, samples, history>>
  BY DEF Read
<1>2. /\ calls'[t].read = now
      /\ \A u \in Threads \ {t} : calls'[u] = calls[u]
  <2>1. calls[t] \in Call /\ t \in DOMAIN calls
    BY PoseTypes
  <2> QED  BY <1>1, <2>1, PoseTypes DEF Call
<1>3. Deciding' \subseteq Deciding \cup {t} /\ Deciding' \subseteq Threads
  BY <1>2 DEF Deciding
<1>4. ReferenceInv' /\ LatchInv'
  BY <1>1 DEF PoseInv, ReferenceInv, LatchInv, Over
<1>5. PastInv'
  BY <1>1, <1>2, <1>3, PoseTypes DEF PoseInv, PastInv
<1>6. ReadInv'
  <2> SUFFICES ASSUME NEW u \in Deciding' \ overtaken
               PROVE  /\ calls'[u].read >= sampledAt
                      /\ \A ref \in reference : calls'[u].read >= ref.committed
                      /\ \A pose \in latch : calls'[u].read >= pose
    BY <1>1 DEF ReadInv
  <2>1. CASE u = t
    BY <1>2, <2>1, PoseTypes DEF PoseInv, ReferenceInv, PastInv
  <2>2. CASE u # t
    BY <1>2, <1>3, <2>2 DEF PoseInv, ReadInv
  <2> QED  BY <2>1, <2>2
<1> QED  BY <1>4, <1>5, <1>6 DEF PoseInv

\* A call that has not been overtaken hovers at a pose from after the last sample, and
\* sends no sample past a pose that is younger.
LEMMA DecideKeepsPose == ASSUME LoopInv, PoseInv, NEW t \in Threads, Decide(t) PROVE PoseInv'
<1>1. /\ t \in Deciding
      /\ calls' = [calls EXCEPT ![t] = NoCall]
      /\ overtaken' = (overtaken \cup Deciding) \ {t}
      /\ UNCHANGED <<now, planner>>
  BY DEF Decide, Deciding
<1>2. Deciding' \subseteq Deciding \ {t} /\ \A u \in Deciding' : calls'[u] = calls[u]
  BY <1>1, PoseTypes DEF Deciding, NoCall
<1>3. ReadInv'
  BY <1>1, <1>2 DEF ReadInv
<1> DEFINE read == calls[t].read
<1>4. read \in Nat /\ read <= now
  BY <1>1, PoseTypes DEF PoseInv, PastInv
<1>5. t \notin overtaken => /\ read >= sampledAt
                            /\ \A ref \in reference : read >= ref.committed
                            /\ \A pose \in latch : read >= pose
  BY <1>1 DEF PoseInv, ReadInv
<1>6. CASE Hover(t)
  <2>1. UNCHANGED <<reference, samples>>
    BY <1>6 DEF Hover
  <2>2. ReferenceInv'
    BY <1>1, <2>1 DEF PoseInv, ReferenceInv
  <2>3. CASE latch # {}
    <3>1. UNCHANGED latch /\ (outdated' <=> outdated)
      BY <1>6, <2>3 DEF Hover, LatchedHover
    <3>2. PastInv' /\ LatchInv'
      BY <1>1, <1>2, <2>1, <3>1 DEF PoseInv, PastInv, LatchInv, Over
    <3> QED  BY <1>3, <2>2, <3>2 DEF PoseInv
  <2>4. CASE latch = {}
    <3>1. latch' = {read} /\ (outdated' <=> t \in overtaken)
      BY <1>6, <2>4 DEF Hover, LatchedHover
    <3>2. PastInv'
      BY <1>1, <1>2, <1>4, <2>1, <3>1 DEF PoseInv, PastInv
    <3>3. LatchInv'
      <4>1. ASSUME t \notin overtaken, NEW ref \in reference PROVE Over(ref, read)
        <5>1. ~Executable(ref, read) /\ read >= ref.committed
          BY <1>5, <1>6, <4>1 DEF Hover
        <5>2. mode # "HOVER" /\ ref.epoch = epoch
          BY DEF PoseInv, ReferenceInv
        <5> QED  BY <1>4, <5>1, <5>2, PoseTypes DEF Executable, Over
      <4> SUFFICES ASSUME ~outdated'
                   PROVE  read >= sampledAt /\ \A ref \in reference : Over(ref, read)
        BY <2>1, <3>1 DEF LatchInv, Over
      <4> QED  BY <1>5, <3>1, <4>1
    <3> QED  BY <1>3, <2>2, <3>2, <3>3 DEF PoseInv
  <2> QED  BY <2>3, <2>4
<1>7. CASE Arrived(t)
  <2>1. UNCHANGED <<reference, samples>> /\ latch' = {}
    BY <1>7 DEF Arrived, DroppedLatch
  <2>2. ReferenceInv' /\ PastInv' /\ LatchInv'
    BY <1>1, <1>2, <2>1 DEF PoseInv, ReferenceInv, PastInv, LatchInv
  <2> QED  BY <1>3, <2>2 DEF PoseInv
<1>8. CASE Follow(t)
  <2>1. PICK ref \in reference :
            /\ Executable(ref, read)
            /\ reference' = {[ref EXCEPT !.clock = NextClock(ref), !.repeat = FALSE]}
    BY <1>8 DEF Follow
  <2>2. /\ sampledAt' = now /\ UNCHANGED latch
        /\ outdated' <=> (latch # {} /\ (outdated \/ t \in overtaken))
    BY <1>8 DEF Follow
  <2> DEFINE next == [ref EXCEPT !.clock = NextClock(ref), !.repeat = FALSE]
  <2>3. next.epoch = ref.epoch /\ next.committed = ref.committed
    BY PoseTypes DEF Reference
  <2> HIDE DEF next
  <2>4. reference' = {next}
    BY <2>1 DEF next
  <2>5. ReferenceInv'
    BY <1>1, <2>3, <2>4 DEF PoseInv, ReferenceInv
  <2>6. PastInv'
    BY <1>1, <1>2, <2>2, PoseTypes DEF PoseInv, PastInv
  <2>7. LatchInv'
    <3> SUFFICES ASSUME NEW pose \in latch, ~outdated' PROVE FALSE
      BY <2>2 DEF LatchInv
    <3>0. ~outdated /\ t \notin overtaken
      BY <2>2
    <3>1. Over(ref, pose) /\ read >= pose
      BY <1>5, <3>0 DEF PoseInv, LatchInv
    <3>2. ref.clock + 1 <= Duration /\ read - ref.committed <= RefreshTimeout
      BY <1>4, <2>1, PoseTypes DEF Executable
    <3>3. pose \in Nat
      BY PoseTypes
    <3> QED  BY <1>4, <3>1, <3>2, <3>3, PoseTypes DEF Over
  <2> QED  BY <1>3, <2>5, <2>6, <2>7 DEF PoseInv
<1> QED  BY <1>6, <1>7, <1>8 DEF Decide

LEMMA ControlPubKeepsPose ==
    ASSUME LoopInv, PoseInv, NEW t \in Threads, ControlPub(t) PROVE PoseInv'
<1>1. calls \in [Threads -> Call] /\ calls[t] \in Call /\ NoCall \in Call /\ NoCall.pc = "idle"
  BY PoseTypes, Bounds DEF NoCall, Call, Time
<1>2. CASE Branch(t)
  <2>1. PICK pc \in {"static", "reading", "idle"} : calls' = [calls EXCEPT ![t].pc = pc]
    BY <1>2 DEF Branch
  <2> DEFINE call == [calls[t] EXCEPT !.pc = pc]
  <2>2. call \in Call /\ calls' = [calls EXCEPT ![t] = call] /\ call.pc # "deciding"
    BY <1>1, <2>1 DEF Call
  <2> QED  BY <1>2, <2>2, CallKeepsPose DEF Branch
<1>3. CASE DropLatch(t)
  <2> DEFINE call == [calls[t] EXCEPT !.pc = "sending"]
  <2>1. call \in Call /\ calls' = [calls EXCEPT ![t] = call] /\ call.pc # "deciding"
    BY <1>1, <1>3 DEF Call, DropLatch
  <2> QED  BY <1>3, <2>1, CallKeepsPose DEF DropLatch, DroppedLatch
<1>4. CASE SendStatic(t)
  BY <1>1, <1>4, CallKeepsPose DEF SendStatic
<1> QED  BY <1>2, <1>3, <1>4, ReadKeepsPose, DecideKeepsPose DEF ControlPub

LEMMA PoseInductive == Safety => []PoseInv
<1>1. Init => PoseInv
  BY Bounds DEF Init, PoseInv, ReferenceInv, PastInv, ReadInv, LatchInv, Deciding, NoCall
<1>2. ASSUME LoopInv, PoseInv, UNCHANGED vars PROVE PoseInv'
  BY <1>2 DEF vars, PoseInv, ReferenceInv, PastInv, ReadInv, LatchInv, Over, Deciding
<1>3. LoopInv /\ PoseInv /\ [Next]_vars => PoseInv'
  BY <1>2, PlannerKeepsPose, CommitKeepsPose, ControlPubKeepsPose DEF Next
<1> QED  BY <1>1, <1>3, Inductive, PTL DEF Safety

-----------------------------------------------------------------------------
(* What follows *)

\* The control loop's variables keep their types; in particular the trajectory is
\* never sampled beyond its end (TypeOK).
THEOREM TypeCorrect == Safety => []TypeOK
<1>1. LoopInv => TypeOK
  BY DEF LoopInv
<1> QED  BY <1>1, Inductive, PTL

\* The trajectory's clock never runs ahead of the timer, although the inference
\* thread sends samples too, and stays at most the repeated sample behind it.
THEOREM ClockFollowsTimer == Safety => []TrajectoryClock
<1>1. LoopInv => TrajectoryClock
  <2> SUFFICES ASSUME LoopInv, NEW ref \in reference
               PROVE  ref.clock \in {timerSamples - 1, timerSamples}
    BY DEF TrajectoryClock
  <2>1. OnTime(ref) /\ ref.clock \in Nat /\ timerSamples \in Nat
    BY Bounds DEF LoopInv, ClockInv, TypeOK, Reference
  <2> QED  BY <2>1 DEF OnTime, InCall
<1> QED  BY <1>1, Inductive, PTL

\* The vehicle hovers at a pose from before the last sample only where a call was
\* overtaken between its reading of pose and time and its lock.
THEOREM OldPoseNeedsOvertaking == Safety => []HoverPoseCurrent
<1>1. PoseInv => HoverPoseCurrent
  BY DEF PoseInv, LatchInv, HoverPoseCurrent
<1> QED  BY <1>1, PoseInductive, PTL

\* sampling moves a trajectory's clock and nothing that says whose it is
LEMMA StepImplements ==
    ASSUME LoopInv, [Next]_vars PROVE [Authority!Next]_(Authority!authority)
<1>1. CASE UNCHANGED <<timeline, epoch, newest, reference>>
  BY <1>1 DEF Authority!authority
<1>2. CASE Tick \/ UNCHANGED vars
  BY <1>1, <1>2 DEF Tick, vars
<1>3. CASE Reset
  BY <1>3 DEF Reset, Authority!Next, Authority!NewTimeline
<1>4. CASE ModeChanges
  BY <1>4 DEF ModeChanges, Withdrawn, Authority!Next, Authority!NewEpoch
<1>5. CASE InvalidateActiveTrajectory
  BY <1>5 DEF InvalidateActiveTrajectory, Authority!Next, Authority!Withdraw
<1>6. CASE Commit
  <2>1. newest' \in Nat /\ newest' > newest /\ UNCHANGED <<timeline, epoch>>
    BY <1>6, Bounds DEF Commit, LoopInv, TypeOK
  <2>2. CASE mode = "HOVER"
    BY <1>6, <2>1, <2>2 DEF Commit, Authority!Next, Authority!Accept
  <2>3. CASE mode # "HOVER"
    <3> DEFINE ref == [stamp |-> newest', timeline |-> timeline, epoch |-> epoch,
                       clock |-> 0, repeat |-> TRUE, committed |-> now]
    <3>1. reference' = {ref}
      BY <1>6, <2>3 DEF Commit
    <3>2. ref.stamp = newest' /\ ref.timeline = timeline /\ ref.epoch = epoch
      OBVIOUS
    <3> HIDE DEF ref
    <3> QED  BY <2>1, <3>1, <3>2 DEF Authority!Next, Authority!Accept, Authority!Plan
  <2> QED  BY <2>2, <2>3
<1>7. ASSUME NEW t \in Threads, ControlPub(t)
      PROVE  [Authority!Next]_(Authority!authority)
  <2>1. CASE UNCHANGED reference
    BY <1>1, <1>7, <2>1 DEF ControlPub, Branch, DropLatch, SendStatic, Read, Decide
  <2>2. CASE Decide(t) /\ Follow(t)
    <3>1. PICK ref \in reference :
              reference' = {[ref EXCEPT !.clock = NextClock(ref), !.repeat = FALSE]}
      BY <2>2 DEF Follow
    <3> DEFINE next == [ref EXCEPT !.clock = NextClock(ref), !.repeat = FALSE]
    <3>2. next.stamp = ref.stamp /\ next.timeline = ref.timeline /\ next.epoch = ref.epoch
      BY DEF LoopInv, TypeOK, Reference
    <3>3. reference' = {next} /\ reference = {ref}
      BY <3>1 DEF LoopInv, OneReference
    <3> HIDE DEF next
    <3>4. UNCHANGED <<timeline, epoch, newest>>
      BY <2>2 DEF Decide
    <3> QED  BY <3>2, <3>3, <3>4 DEF Authority!authority
  <2> QED  BY <1>7, <2>1, <2>2 DEF ControlPub, Branch, DropLatch, SendStatic, Read, Decide,
                                   Hover, Arrived
<1> QED  BY <1>2, <1>3, <1>4, <1>5, <1>6, <1>7 DEF Next

\* The plan control_pub may follow is the one the planner's authority has accepted
\* last and not withdrawn.
THEOREM Refinement == Safety => ImplementsAuthority
<1>1. Init => Authority!Init
  BY DEF Init, Authority!Init
<1>2. LoopInv /\ [Next]_vars => [Authority!Next]_(Authority!authority)
  BY StepImplements
<1> QED  BY <1>1, <1>2, Inductive, PTL DEF Safety, ImplementsAuthority, Authority!Spec
=============================================================================

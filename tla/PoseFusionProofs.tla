-------------------------- MODULE PoseFusionProofs --------------------------
(***************************************************************************)
(* Theorems about the pose filter's buffer, for every buffer size, rate of *)
(* the IMU and delay of the odometry; where it has to come in time, the    *)
(* statement says so.                                                      *)
(***************************************************************************)
EXTENDS PoseFusion, SequenceTheorems, TLAPS

-----------------------------------------------------------------------------
(* The inductive invariant *)

Last == sys_seq[Len(sys_seq)]

Ordered(s) == \A i, j \in 1..Len(s) : i < j => s[j].stamp - s[i].stamp >= j - i
Dense(s)   == \A i \in 2..Len(s) : s[i].stamp - s[i-1].stamp <= MaxImuGap

\* What was measured between two frames was measured between two neighbours; the
\* search for the latter is thereby no induction.
Covered(s) ==
    \A o \in Nat : Len(s) >= 1 /\ s[1].stamp <= o /\ o < s[Len(s)].stamp =>
       \E i \in 2..Len(s) : s[i-1].stamp <= o /\ o < s[i].stamp

GoodSeq(s) == Ordered(s) /\ Dense(s) /\ Covered(s)
SeqInv     == GoodSeq(sys_seq)

ClockInv ==
    /\ imu <= now /\ now - imu <= MaxImuGap /\ odom <= now
    /\ handled <= now

\* The state kept with a frame was predicted to the frame before it, for the front
\* frame the one that was dropped last.
Chained(s) == \A i \in 2..Len(s) : s[i].before.at = s[i-1].stamp
FrontStep(s, gap) == s # <<>> /\ gap # 0 => s[1].before.at + gap = s[1].stamp
StepInv    == ~madeUp => Chained(sys_seq) /\ FrontStep(sys_seq, frontGap)

NewestInv ==
    /\ sys_seq # <<>> => Last.stamp = imu
    /\ sys_seq # <<>> /\ ~madeUp => X_state.at = imu
    /\ sys_seq = <<>> => X_state.at = 0 /\ frontGap = 0

\* Frames since the odometry was handled have the newest correction in them.
SeenInv ==
    /\ odom = 0 => sys_seq = <<>>
    /\ inTime => /\ X_state.seen \subseteq 1..odom
                 /\ \A i \in 1..Len(sys_seq) :
                       sys_seq[i].stamp > handled => sys_seq[i].before.seen = X_state.seen

\* Messages since the odometry are in the buffer, and its front is that odometry's
\* frame or the first one since, or as far back as the buffer reaches.
ReachInv ==
    inTime =>
       /\ odom # 0 /\ imu > handled => Len(sys_seq) >= 1
       /\ odom # 0 /\ imu > handled + MaxImuGap => Len(sys_seq) >= 2
       /\ sys_seq # <<>> => sys_seq[1].stamp <= handled + MaxImuGap \/ Len(sys_seq) = SeqSize

TimelyInv == inTime => ~madeUp /\ timely = X_state

FusionInv ==
    /\ FusionTypeOK /\ SeqInv /\ ClockInv /\ StepInv /\ NewestInv
    /\ SeenInv /\ ReachInv /\ TimelyInv

LEMMA Bounds ==
    SeqSize \in Nat /\ SeqSize >= 2 /\ MaxImuGap \in Nat \ {0} /\ MaxTime \in Nat
BY SensorAssumption

-----------------------------------------------------------------------------
(* The buffer *)

LEMMA FrameTypes ==
    ASSUME NEW s \in Seq(Frame), NEW i \in 1..Len(s)
    PROVE  s[i] \in Frame /\ s[i].stamp \in Nat /\ s[i].before.at \in Nat
           /\ s[i].before.seen \in SUBSET Nat
<1>1. s[i] \in Frame
  BY ElementOfSeq
<1> QED  BY <1>1 DEF Frame, State

LEMMA Apart ==
    ASSUME NEW s \in Seq(Frame), GoodSeq(s),
           NEW i \in 1..Len(s), NEW j \in 1..Len(s), i <= j
    PROVE  s[j].stamp - s[i].stamp >= j - i
<1>1. s[i].stamp \in Nat /\ s[j].stamp \in Nat /\ Len(s) \in Nat
  BY FrameTypes, LenProperties
<1>2. i < j => s[j].stamp - s[i].stamp >= j - i
  BY DEF GoodSeq, Ordered
<1> QED  BY <1>1, <1>2

LEMMA GoodAppend ==
    ASSUME NEW s \in Seq(Frame), GoodSeq(s), NEW f \in Frame,
           s # <<>> => /\ f.stamp > s[Len(s)].stamp
                       /\ f.stamp - s[Len(s)].stamp <= MaxImuGap
    PROVE  GoodSeq(Append(s, f))
<1> DEFINE t == Append(s, f)
           n == Len(s)
<1>1. n \in Nat /\ Len(t) = n + 1 /\ t[n+1] = f /\ \A i \in 1..n : t[i] = s[i]
  BY AppendProperties, LenProperties
<1>2. f.stamp \in Nat /\ \A i \in 1..n : s[i].stamp \in Nat
  BY FrameTypes DEF Frame
<1>3. n >= 1 => s # <<>>
  BY EmptySeq, <1>1
<1> HIDE DEF t
<1>4. Ordered(t)
  <2> SUFFICES ASSUME NEW i \in 1..n+1, NEW j \in 1..n+1, i < j
               PROVE  t[j].stamp - t[i].stamp >= j - i
    BY <1>1 DEF Ordered
  <2>1. CASE j \in 1..n
    <3>1. i \in 1..n /\ i <= j
      BY <1>1, <2>1
    <3>2. s[j].stamp - s[i].stamp >= j - i
      BY <2>1, <3>1, Apart
    <3> QED  BY <1>1, <2>1, <3>1, <3>2
  <2>2. CASE j = n + 1
    <3>1. i \in 1..n /\ n \in 1..n /\ i <= n
      BY <1>1, <2>2
    <3>2. s[n].stamp - s[i].stamp >= n - i /\ f.stamp > s[n].stamp
      BY <1>1, <1>3, <3>1, Apart
    <3>3. s[n].stamp \in Nat /\ s[i].stamp \in Nat /\ t[i] = s[i] /\ t[j] = f
      BY <1>1, <1>2, <2>2, <3>1
    <3> QED  BY <1>1, <1>2, <2>2, <3>2, <3>3
  <2> QED  BY <1>1, <2>1, <2>2
<1>5. Dense(t)
  <2> SUFFICES ASSUME NEW i \in 2..n+1 PROVE t[i].stamp - t[i-1].stamp <= MaxImuGap
    BY <1>1 DEF Dense
  <2>1. CASE i \in 2..n
    BY <1>1, <2>1 DEF GoodSeq, Dense
  <2>2. CASE i = n + 1
    BY <1>1, <1>3, <2>2
  <2> QED  BY <1>1, <2>1, <2>2
<1>7. Covered(t)
  <2> SUFFICES ASSUME NEW o \in Nat, t[1].stamp <= o, o < f.stamp
               PROVE  \E i \in 2..n+1 : t[i-1].stamp <= o /\ o < t[i].stamp
    BY <1>1 DEF Covered
  <2>1. n >= 1
    BY <1>1, <1>2
  <2>2. CASE o < s[n].stamp
    <3>1. PICK i \in 2..n : s[i-1].stamp <= o /\ o < s[i].stamp
      BY <1>1, <2>1, <2>2 DEF GoodSeq, Covered
    <3>2. i \in 2..n+1 /\ t[i-1] = s[i-1] /\ t[i] = s[i]
      BY <1>1
    <3> QED  BY <3>1, <3>2
  <2>3. CASE s[n].stamp <= o
    <3>1. n + 1 \in 2..n+1 /\ t[(n+1)-1] = s[n] /\ t[n+1] = f
      BY <1>1, <2>1
    <3> QED  BY <2>3, <3>1
  <2> QED  BY <1>1, <1>2, <2>1, <2>2, <2>3
<1> QED  BY <1>4, <1>5, <1>7 DEF GoodSeq, t

LEMMA GoodSubSeq ==
    ASSUME NEW s \in Seq(Frame), GoodSeq(s), NEW r \in 1..Len(s)
    PROVE  /\ SubSeq(s, r, Len(s)) \in Seq(Frame)
           /\ Len(SubSeq(s, r, Len(s))) = Len(s) - r + 1
           /\ \A i \in 1..Len(s)-r+1 : SubSeq(s, r, Len(s))[i] = s[r+i-1]
           /\ GoodSeq(SubSeq(s, r, Len(s)))
<1> DEFINE n == Len(s)
           t == SubSeq(s, r, n)
           m == n - r + 1
<1>1. n \in Nat /\ r \in Nat /\ m \in 1..n
  BY LenProperties
<1>2. t \in Seq(Frame) /\ Len(t) = m /\ \A i \in 1..m : t[i] = s[r+i-1]
  <2>1. \A i \in r..n : s[i] \in Frame
    BY ElementOfSeq
  <2> QED  BY <1>1, <2>1, SubSeqProperties
<1>3. \A i \in 1..n : s[i].stamp \in Nat
  BY FrameTypes
<1> HIDE DEF t
<1>4. \A i \in 1..m : r+i-1 \in 1..n /\ r+i-1 >= r
  BY <1>1
<1>5. Ordered(t)
  <2> SUFFICES ASSUME NEW i \in 1..m, NEW j \in 1..m, i < j
               PROVE  t[j].stamp - t[i].stamp >= j - i
    BY <1>2 DEF Ordered
  <2>1. r+i-1 \in 1..n /\ r+j-1 \in 1..n /\ r+i-1 <= r+j-1
    BY <1>1, <1>4
  <2>2. s[r+j-1].stamp - s[r+i-1].stamp >= (r+j-1) - (r+i-1)
    BY <2>1, Apart
  <2>3. t[i] = s[r+i-1] /\ t[j] = s[r+j-1]
    BY <1>2
  <2>4. (r+j-1) - (r+i-1) = j - i
    BY <1>1
  <2> QED  BY <2>2, <2>3, <2>4
<1>6. \A i \in 2..m : r+i-1 \in 2..n /\ t[i] = s[r+i-1] /\ t[i-1] = s[(r+i-1)-1]
  <2> SUFFICES ASSUME NEW i \in 2..m
               PROVE  r+i-1 \in 2..n /\ t[i] = s[r+i-1] /\ t[i-1] = s[(r+i-1)-1]
    OBVIOUS
  <2>1. i \in 1..m /\ i-1 \in 1..m /\ r+(i-1)-1 = (r+i-1)-1
    BY <1>1
  <2>2. t[i] = s[r+i-1] /\ t[i-1] = s[r+(i-1)-1]
    BY <1>2, <2>1
  <2> QED  BY <1>1, <2>1, <2>2
<1>7. Dense(t)
  BY <1>2, <1>6 DEF GoodSeq, Dense
<1>8. Covered(t)
  <2> SUFFICES ASSUME NEW o \in Nat, t[1].stamp <= o, o < t[m].stamp
               PROVE  \E i \in 2..m : t[i-1].stamp <= o /\ o < t[i].stamp
    BY <1>2 DEF Covered
  <2>1. t[1] = s[r] /\ t[m] = s[n]
    BY <1>1, <1>2
  <2>2. s[1].stamp <= s[r].stamp
    <3>1. s[r].stamp - s[1].stamp >= r - 1
      BY <1>1, Apart
    <3> QED  BY <1>1, <1>3, <3>1
  <2>3. s[1].stamp <= o /\ o < s[n].stamp
    BY <1>1, <1>3, <2>1, <2>2
  <2>4. PICK k \in 2..n : s[k-1].stamp <= o /\ o < s[k].stamp
    BY <1>1, <2>3 DEF GoodSeq, Covered
  <2>5. r < k
    <3>1. SUFFICES ASSUME k <= r PROVE FALSE
      BY <1>1
    <3>2. s[r].stamp - s[k].stamp >= r - k
      BY <1>1, <3>1, Apart
    <3>3. s[k].stamp \in Nat /\ s[r].stamp \in Nat /\ s[r].stamp < s[k].stamp
      <4>1. k \in 1..n /\ r \in 1..n
        BY <1>1
      <4>2. s[k].stamp \in Nat /\ s[r].stamp \in Nat
        BY <1>3, <4>1
      <4> QED  BY <2>1, <2>4, <4>2
    <3> QED  BY <1>1, <3>1, <3>2, <3>3
  <2> DEFINE i == k - r + 1
  <2>6. i \in 2..m /\ r+i-1 = k
    BY <1>1, <2>5
  <2>7. t[i] = s[k] /\ t[i-1] = s[k-1]
    BY <1>6, <2>6
  <2> QED  BY <2>4, <2>6, <2>7
<1> QED  BY <1>2, <1>5, <1>7, <1>8 DEF GoodSeq, t, m

-----------------------------------------------------------------------------
(* Steps of the clock and of the IMU *)

LEMMA InitInv == Init => FusionInv
<1> SUFFICES ASSUME Init PROVE FusionInv
  OBVIOUS
<1>1. sys_seq = <<>> /\ Len(sys_seq) = 0 /\ sys_seq \in Seq(Frame)
  BY EmptySeq DEF Init
<1>2. FusionTypeOK
  <2>1. X_state \in State /\ timely \in State
    BY DEF Init, State
  <2>2. inTime \in BOOLEAN /\ madeUp \in BOOLEAN
    BY DEF Init
  <2> QED  BY <1>1, <2>1, <2>2, Bounds DEF Init, FusionTypeOK
<1>3. SeqInv
  BY <1>1 DEF SeqInv, GoodSeq, Ordered, Dense, Covered
<1>4. ClockInv /\ NewestInv /\ StepInv /\ TimelyInv
  BY <1>1, Bounds DEF Init, ClockInv, NewestInv, StepInv, Chained, FrontStep, TimelyInv
<1>5. SeenInv /\ ReachInv
  BY <1>1, Bounds DEF Init, SeenInv, ReachInv
<1> QED  BY <1>2, <1>3, <1>4, <1>5 DEF FusionInv

LEMMA TickKeepsInv == ASSUME FusionInv, Tick \/ UNCHANGED vars PROVE FusionInv'
<1>1. UNCHANGED <<imu, odom, sys_seq, frontGap, X_state, Z, handled, inTime, madeUp, timely>>
  BY DEF Tick, vars, kept, history
<1>2. FusionTypeOK' /\ ClockInv'
  BY <1>1, Bounds DEF FusionInv, FusionTypeOK, ClockInv, Tick, vars
<1>3. SeqInv' /\ StepInv' /\ NewestInv' /\ SeenInv' /\ ReachInv' /\ TimelyInv'
  BY <1>1 DEF FusionInv, SeqInv, StepInv, NewestInv, SeenInv, ReachInv, TimelyInv, Last
<1> QED  BY <1>2, <1>3 DEF FusionInv

\* A frame is kept: the buffer without its front frame, if it is full, and the new one.
LEMMA KeptFrames ==
    ASSUME FusionTypeOK, SeqInv, NEW f \in Frame,
           sys_seq # <<>> => /\ f.stamp > Last.stamp
                             /\ f.stamp - Last.stamp <= MaxImuGap
    PROVE  /\ Kept(f) \in Seq(Frame) /\ GoodSeq(Kept(f))
           /\ Len(Kept(f)) <= SeqSize /\ Kept(f)[Len(Kept(f))] = f
           /\ \/ /\ Len(Kept(f)) = Len(sys_seq) + 1
                 /\ \A i \in 1..Len(sys_seq) : Kept(f)[i] = sys_seq[i]
              \/ /\ Len(Kept(f)) = SeqSize /\ Len(sys_seq) = SeqSize
                 /\ \A i \in 1..SeqSize-1 : Kept(f)[i] = sys_seq[i+1]
<1> DEFINE n == Len(sys_seq)
<1>1. sys_seq \in Seq(Frame) /\ n \in Nat /\ n <= SeqSize /\ SeqSize \in Nat /\ SeqSize >= 2
  BY LenProperties, Bounds DEF FusionTypeOK
<1>2. CASE n < SeqSize
  <2>1. Kept(f) = Append(sys_seq, f)
    BY <1>2 DEF Kept
  <2>2. GoodSeq(Kept(f))
    BY <1>1, <2>1, GoodAppend DEF SeqInv, Last
  <2>3. /\ Kept(f) \in Seq(Frame) /\ Len(Kept(f)) = n + 1 /\ Kept(f)[n+1] = f
        /\ \A i \in 1..n : Kept(f)[i] = sys_seq[i]
    BY <1>1, <2>1, AppendProperties
  <2> QED  BY <1>1, <1>2, <2>2, <2>3
<1>3. CASE n = SeqSize
  <2> DEFINE t == Tail(sys_seq)
  <2>1. sys_seq # <<>>
    BY <1>1, <1>3, EmptySeq
  <2>2. t = SubSeq(sys_seq, 2, n)
    BY <1>1, <2>1, TailIsSubSeq
  <2>3. 2 \in 1..n
    BY <1>1, <1>3
  <2>4. /\ t \in Seq(Frame) /\ Len(t) = n - 1 /\ GoodSeq(t)
        /\ \A i \in 1..n-1 : t[i] = sys_seq[i+1]
    <3>1. /\ t \in Seq(Frame) /\ Len(t) = n - 2 + 1 /\ GoodSeq(t)
          /\ \A i \in 1..n-2+1 : t[i] = sys_seq[2+i-1]
      BY <1>1, <2>2, <2>3, GoodSubSeq DEF SeqInv
    <3> QED  BY <1>1, <3>1
  <2> HIDE DEF t
  <2>5. Kept(f) = Append(t, f)
    BY <1>1, <1>3 DEF Kept, t
  <2>6. t[Len(t)] = Last
    BY <1>1, <1>3, <2>4 DEF Last
  <2>7. GoodSeq(Kept(f))
    BY <2>1, <2>4, <2>5, <2>6, GoodAppend
  <2>8. /\ Kept(f) \in Seq(Frame) /\ Len(Kept(f)) = n /\ Kept(f)[n] = f
        /\ \A i \in 1..n-1 : Kept(f)[i] = t[i]
    BY <1>1, <2>4, <2>5, AppendProperties
  <2> QED  BY <1>1, <1>3, <2>4, <2>7, <2>8
<1> QED  BY <1>1, <1>2, <1>3

LEMMA NonEmpty == ASSUME FusionTypeOK PROVE sys_seq # <<>> <=> Len(sys_seq) >= 1
<1>1. sys_seq \in Seq(Frame)
  BY DEF FusionTypeOK
<1> QED  BY <1>1, EmptySeq

\* A frame kept with a state for the frame before it leaves the others as they are.
LEMMA KeptSteps ==
    ASSUME FusionTypeOK, SeqInv, NEW f \in Frame, NEW gap \in Nat,
           Chained(sys_seq), FrontStep(sys_seq, frontGap), sys_seq = <<>> => frontGap = 0,
           sys_seq # <<>> => /\ f.stamp > Last.stamp
                             /\ f.stamp - Last.stamp <= MaxImuGap
                             /\ f.before.at = Last.stamp,
           gap = IF Len(sys_seq) < SeqSize THEN frontGap ELSE Gap(2)
    PROVE  Chained(Kept(f)) /\ FrontStep(Kept(f), gap)
<1> DEFINE n == Len(sys_seq)
           t == Kept(f)
           m == Len(t)
<1>1. /\ sys_seq \in Seq(Frame) /\ n \in Nat /\ n <= SeqSize /\ SeqSize \in Nat
      /\ SeqSize >= 2 /\ frontGap \in Nat
  BY LenProperties, Bounds DEF FusionTypeOK
<1>2. /\ t \in Seq(Frame) /\ t[m] = f
      /\ \/ m = n + 1 /\ \A i \in 1..n : t[i] = sys_seq[i]
         \/ m = SeqSize /\ n = SeqSize /\ \A i \in 1..SeqSize-1 : t[i] = sys_seq[i+1]
  BY KeptFrames
<1>3. n < SeqSize => m = n + 1 /\ \A i \in 1..n : t[i] = sys_seq[i]
  BY <1>1, <1>2
<1>4. n = SeqSize => m = SeqSize /\ \A i \in 1..SeqSize-1 : t[i] = sys_seq[i+1]
  <2>1. Len(t) <= SeqSize
    BY KeptFrames
  <2> QED  BY <1>1, <1>2, <2>1
<1>5. sys_seq = <<>> <=> n = 0
  BY <1>1, EmptySeq
<1> HIDE DEF t
<1>6. CASE n < SeqSize
  <2>1. gap = frontGap
    BY <1>6
  <2>2. Chained(t)
    <3> SUFFICES ASSUME NEW i \in 2..n+1 PROVE t[i].before.at = t[i-1].stamp
      BY <1>3, <1>6 DEF Chained
    <3>1. CASE i \in 2..n
      <4>1. t[i] = sys_seq[i] /\ t[i-1] = sys_seq[i-1]
        BY <1>1, <1>3, <1>6, <3>1
      <4> QED  BY <3>1, <4>1 DEF Chained
    <3>2. CASE i = n + 1
      <4>1. n >= 1 /\ t[i] = f /\ t[i-1] = sys_seq[n] /\ sys_seq # <<>>
        BY <1>1, <1>2, <1>3, <1>5, <1>6, <3>2
      <4> QED  BY <4>1 DEF Last
    <3> QED  BY <1>1, <3>1, <3>2
  <2>3. FrontStep(t, gap)
    <3>1. CASE n = 0
      BY <1>5, <2>1, <3>1 DEF FrontStep
    <3>2. CASE n >= 1
      BY <1>1, <1>3, <1>5, <1>6, <2>1, <3>2 DEF FrontStep
    <3> QED  BY <1>1, <3>1, <3>2
  <2> QED  BY <2>2, <2>3 DEF t
<1>7. CASE n = SeqSize
  <2>1. gap = sys_seq[2].stamp - sys_seq[1].stamp
    BY <1>1, <1>7 DEF Gap
  <2>2. Chained(t)
    <3> SUFFICES ASSUME NEW i \in 2..SeqSize PROVE t[i].before.at = t[i-1].stamp
      BY <1>4, <1>7 DEF Chained
    <3>1. CASE i < SeqSize
      <4>1. i \in 1..SeqSize-1 /\ i-1 \in 1..SeqSize-1 /\ i+1 \in 2..n
        BY <1>1, <1>7, <3>1
      <4>2. t[i] = sys_seq[i+1] /\ t[i-1] = sys_seq[(i+1)-1]
        BY <1>1, <1>4, <1>7, <4>1
      <4> QED  BY <4>1, <4>2 DEF Chained
    <3>2. CASE i = SeqSize
      <4>1. i-1 \in 1..SeqSize-1 /\ (i-1)+1 = n
        BY <1>1, <1>7, <3>2
      <4>2. t[i] = f /\ t[i-1] = sys_seq[n] /\ sys_seq # <<>>
        BY <1>1, <1>2, <1>4, <1>5, <1>7, <3>2, <4>1
      <4> QED  BY <4>2 DEF Last
    <3> QED  BY <1>1, <3>1, <3>2
  <2>3. FrontStep(t, gap)
    <3>1. 1 \in 1..SeqSize-1 /\ 1 \in 1..n /\ 2 \in 1..n /\ 2 \in 2..n /\ 2 - 1 = 1 /\ 1 + 1 = 2
      BY <1>1, <1>7
    <3>2. t[1] = sys_seq[2]
      BY <1>4, <1>7, <3>1
    <3>3. sys_seq[2].before.at = sys_seq[1].stamp
      BY <3>1 DEF Chained
    <3>4. sys_seq[1].stamp \in Nat /\ sys_seq[2].stamp \in Nat
      BY <1>1, <3>1, FrameTypes
    <3> QED  BY <2>1, <3>2, <3>3, <3>4 DEF FrontStep
  <2> QED  BY <2>2, <2>3 DEF t
<1> QED  BY <1>1, <1>6, <1>7

\* An IMU message after the first odometry moves the estimate by the time since the
\* last one, and the first one to its stamp.
LEMMA ImuPredicts ==
    ASSUME FusionInv, Imu, odom # 0
    PROVE  /\ Predicted \in State /\ Predicted.seen = X_state.seen
           /\ sys_seq = <<>> \/ ~madeUp =>
                 Predicted = [at |-> now, seen |-> X_state.seen] /\ X_state.at < now
<1>1. /\ X_state = [at |-> X_state.at, seen |-> X_state.seen]
      /\ X_state.at \in Nat /\ X_state.seen \in SUBSET Nat
      /\ now \in Nat /\ imu \in Nat /\ imu < now
  BY DEF FusionInv, FusionTypeOK, State, Imu
<1>2. CASE sys_seq = <<>>
  <2>1. Predicted = [X_state EXCEPT !.at = now] /\ X_state.at = 0
    BY <1>2 DEF Predicted, FusionInv, NewestInv
  <2>2. Predicted = [at |-> now, seen |-> X_state.seen]
    BY <1>1, <2>1
  <2> QED  BY <1>1, <2>1, <2>2 DEF State
<1>3. CASE sys_seq # <<>>
  <2>1. Last.stamp = imu
    BY <1>3 DEF FusionInv, NewestInv
  <2>2. Predicted = [X_state EXCEPT !.at = @ + (now - imu)]
    BY <1>3, <2>1 DEF Predicted, Last
  <2>3. Predicted = [at |-> X_state.at + (now - imu), seen |-> X_state.seen]
    BY <1>1, <2>2
  <2>4. X_state.at + (now - imu) \in Nat
    BY <1>1
  <2>5. Predicted \in State /\ Predicted.seen = X_state.seen
    BY <1>1, <2>3, <2>4 DEF State
  <2>6. ASSUME ~madeUp PROVE Predicted = [at |-> now, seen |-> X_state.seen] /\ X_state.at < now
    <3>1. X_state.at = imu
      BY <1>3, <2>6 DEF FusionInv, NewestInv
    <3>2. X_state.at + (now - imu) = now
      BY <1>1, <3>1
    <3> QED  BY <1>1, <2>3, <3>1, <3>2
  <2> QED  BY <1>3, <2>5, <2>6
<1> QED  BY <1>2, <1>3

LEMMA ImuKeepsInv == ASSUME FusionInv, Imu PROVE FusionInv'
<1>1. FusionTypeOK /\ SeqInv /\ ClockInv /\ StepInv /\ NewestInv /\ SeenInv /\ ReachInv /\ TimelyInv
  BY DEF FusionInv
<1>2. /\ imu' = now /\ imu < now /\ UNCHANGED <<now, odom, Z, handled, inTime, madeUp>>
      /\ timely' = IF inTime THEN X_state' ELSE timely
  BY DEF Imu, history, Follows
<1>3. /\ now \in Nat /\ imu \in Nat /\ odom \in Nat /\ MaxImuGap \in Nat \ {0}
      /\ handled \in Nat /\ now - imu <= MaxImuGap /\ odom <= now
  BY <1>1, Bounds DEF FusionTypeOK, ClockInv
<1>4. ClockInv'
  BY <1>1, <1>2, <1>3 DEF ClockInv
<1>5. CASE odom = 0
  <2>1. UNCHANGED <<sys_seq, frontGap, X_state>> /\ sys_seq = <<>>
    BY <1>1, <1>5 DEF Imu, SeenInv, kept
  <2>2. FusionTypeOK' /\ TimelyInv'
    BY <1>1, <1>2, <1>3, <2>1 DEF FusionTypeOK, TimelyInv
  <2>3. Len(sys_seq) = 0
    BY <2>1, EmptySeq
  <2>4. SeqInv' /\ StepInv' /\ NewestInv' /\ SeenInv' /\ ReachInv'
    BY <1>1, <1>2, <1>5, <2>1, <2>3
       DEF SeqInv, StepInv, NewestInv, SeenInv, ReachInv, Last
  <2> QED  BY <1>4, <2>2, <2>4 DEF FusionInv
<1>6. CASE odom # 0
  <2> DEFINE f == [stamp |-> now, before |-> X_state]
             n == Len(sys_seq)
             m == Len(sys_seq')
  <2>1. /\ sys_seq' = Kept(f) /\ X_state' = Predicted
        /\ frontGap' = IF n < SeqSize THEN frontGap ELSE Gap(2)
    BY <1>6 DEF Imu
  <2>2. /\ X_state' \in State /\ X_state'.seen = X_state.seen
        /\ sys_seq = <<>> \/ ~madeUp => X_state'.at = now
    BY <1>6, <2>1, ImuPredicts
  <2>3. f \in Frame /\ f.stamp = now /\ f.before = X_state
    BY <1>1, <1>3 DEF FusionTypeOK, Frame
  <2>4. sys_seq # <<>> => f.stamp > Last.stamp /\ f.stamp - Last.stamp <= MaxImuGap
    BY <1>1, <1>2, <1>3, <2>3 DEF NewestInv
  <2> HIDE DEF f
  <2>5. /\ sys_seq' \in Seq(Frame) /\ GoodSeq(sys_seq')
        /\ m <= SeqSize /\ sys_seq'[m] = f
        /\ \/ m = n + 1 /\ \A i \in 1..n : sys_seq'[i] = sys_seq[i]
           \/ m = SeqSize /\ n = SeqSize /\ \A i \in 1..SeqSize-1 : sys_seq'[i] = sys_seq[i+1]
    BY <1>1, <2>1, <2>3, <2>4, KeptFrames
  <2>6. /\ n \in Nat /\ m \in Nat /\ n <= SeqSize /\ SeqSize >= 2 /\ SeqSize \in Nat
        /\ sys_seq \in Seq(Frame)
    BY <1>1, <2>5, LenProperties, Bounds DEF FusionTypeOK
  <2>7. frontGap' \in Nat
    <3>1. CASE n < SeqSize
      BY <1>1, <2>1, <3>1 DEF FusionTypeOK
    <3>2. CASE n = SeqSize
      <4>1. 1 \in 1..n /\ 2 \in 1..n /\ 1 <= 2
        BY <2>6, <3>2
      <4>2. /\ sys_seq[2].stamp - sys_seq[1].stamp >= 2 - 1
            /\ sys_seq[1].stamp \in Nat /\ sys_seq[2].stamp \in Nat
        BY <1>1, <2>6, <4>1, Apart, FrameTypes DEF SeqInv
      <4> QED  BY <2>1, <2>6, <3>2, <4>2 DEF Gap
    <3> QED  BY <2>6, <3>1, <3>2
  <2>8. FusionTypeOK' /\ SeqInv'
    <3>1. timely' \in State /\ handled' \in Nat /\ inTime' \in BOOLEAN /\ madeUp' \in BOOLEAN
      BY <1>1, <1>2, <2>2 DEF FusionTypeOK
    <3> QED  BY <1>1, <1>2, <1>3, <2>2, <2>5, <2>7, <3>1 DEF FusionTypeOK, SeqInv
  <2>9. sys_seq' # <<>>
    BY <2>5, <2>6, EmptySeq
  <2>10. NewestInv'
    BY <1>2, <2>2, <2>3, <2>5, <2>9 DEF NewestInv, Last
  <2>11. StepInv'
    <3> SUFFICES ASSUME ~madeUp PROVE Chained(sys_seq') /\ FrontStep(sys_seq', frontGap')
      BY <1>2 DEF StepInv
    <3>1. sys_seq # <<>> => f.before.at = Last.stamp
      BY <1>1, <2>3 DEF NewestInv
    <3>2. Chained(sys_seq) /\ FrontStep(sys_seq, frontGap) /\ (sys_seq = <<>> => frontGap = 0)
      BY <1>1 DEF StepInv, NewestInv
    <3> QED  BY <1>1, <2>1, <2>3, <2>4, <2>7, <3>1, <3>2, KeptSteps
  <2>12. SeenInv'
    <3>1. \A i \in 1..m : sys_seq'[i] = f \/ \E j \in 1..n : sys_seq'[i] = sys_seq[j]
      <4> SUFFICES ASSUME NEW i \in 1..m, i # m
                   PROVE  \E j \in 1..n : sys_seq'[i] = sys_seq[j]
        BY <2>5
      <4>1. CASE m = n + 1 /\ \A k \in 1..n : sys_seq'[k] = sys_seq[k]
        BY <2>6, <4>1
      <4>2. CASE m = SeqSize /\ n = SeqSize /\ \A k \in 1..SeqSize-1 : sys_seq'[k] = sys_seq[k+1]
        <5>1. i \in 1..SeqSize-1 /\ i + 1 \in 1..n
          BY <2>6, <4>2
        <5> QED  BY <4>2, <5>1
      <4> QED  BY <2>5, <4>1, <4>2
    <3>2. inTime => \A i \in 1..m : sys_seq'[i].stamp > handled =>
                                       sys_seq'[i].before.seen = X_state.seen
      BY <1>1, <2>3, <3>1 DEF SeenInv
    <3> QED  BY <1>1, <1>2, <1>6, <2>2, <3>2 DEF SeenInv
  <2>13. ReachInv'
    <3> SUFFICES ASSUME inTime PROVE ReachInv'
      BY <1>2 DEF ReachInv
    <3>1. m >= 1
      BY <2>5, <2>6
    <3>2. imu' > handled + MaxImuGap => m >= 2
      <4> SUFFICES ASSUME now > handled + MaxImuGap PROVE m >= 2
        BY <1>2
      <4>1. imu > handled
        BY <1>3
      <4> QED  BY <1>1, <1>6, <2>5, <2>6, <4>1 DEF ReachInv
    <3>3. sys_seq'[1].stamp <= handled + MaxImuGap \/ m = SeqSize
      <4>1. CASE n = 0
        <5>1. ~(imu > handled) /\ m = 1
          BY <1>1, <1>6, <2>5, <2>6, <4>1 DEF ReachInv
        <5>2. sys_seq'[1].stamp = now
          BY <2>3, <2>5, <5>1
        <5> QED  BY <1>3, <5>1, <5>2
      <4>2. CASE n >= 1
        <5>1. sys_seq[1].stamp <= handled + MaxImuGap \/ n = SeqSize
          BY <1>1, <4>2, NonEmpty DEF ReachInv
        <5>2. m = SeqSize \/ sys_seq'[1] = sys_seq[1]
          BY <2>5, <2>6, <4>2
        <5> QED  BY <2>5, <2>6, <5>1, <5>2
      <4> QED  BY <2>6, <4>1, <4>2
    <3> QED  BY <1>2, <3>1, <3>2, <3>3 DEF ReachInv
  <2>14. TimelyInv'
    BY <1>1, <1>2 DEF TimelyInv
  <2> QED  BY <1>4, <2>8, <2>10, <2>11, <2>12, <2>13, <2>14 DEF FusionInv
<1> QED  BY <1>5, <1>6

-----------------------------------------------------------------------------
(* The frame of a correction *)

\* The nearer one of two neighbours is nearest.
LEMMA NearerNeighbour ==
    ASSUME NEW a \in Nat, NEW b \in Nat, NEW c \in Nat, NEW x \in Nat, NEW o \in Nat,
           a <= o, o < b, c <= a \/ b <= c,
           x = IF o - a > b - o THEN b ELSE a
    PROVE  (IF x < o THEN o - x ELSE x - o) <= (IF c < o THEN o - c ELSE c - o)
OBVIOUS

LEMMA StampsGrow ==
    ASSUME FusionInv, NEW i \in 1..Len(sys_seq), NEW j \in 1..Len(sys_seq), i <= j
    PROVE  sys_seq[i].stamp \in Nat /\ sys_seq[j].stamp \in Nat /\ sys_seq[i].stamp <= sys_seq[j].stamp
<1>1. sys_seq \in Seq(Frame) /\ GoodSeq(sys_seq)
  BY DEF FusionInv, FusionTypeOK, SeqInv
<1>2. sys_seq[j].stamp - sys_seq[i].stamp >= j - i
  BY <1>1, Apart
<1>3. sys_seq[i].stamp \in Nat /\ sys_seq[j].stamp \in Nat
  BY <1>1, FrameTypes
<1> QED  BY <1>2, <1>3

\* However late the odometry is, the search finds the frame nearest to it.
LEMMA NearestFrame ==
    ASSUME FusionInv, Len(sys_seq) >= 2, NEW o \in Nat
    PROVE  /\ ProperFrame(o) \in 1..Len(sys_seq)
           /\ \A i \in 1..Len(sys_seq) :
                 Distance(sys_seq[ProperFrame(o)], o) <= Distance(sys_seq[i], o)
<1> DEFINE n == Len(sys_seq)
<1>1. sys_seq \in Seq(Frame) /\ GoodSeq(sys_seq) /\ n \in Nat /\ n >= 2
  BY LenProperties DEF FusionInv, FusionTypeOK, SeqInv
<1>2. \A i \in 1..n : sys_seq[i].stamp \in Nat
  BY <1>1, FrameTypes
<1>3. \A i, j \in 1..n : i <= j => sys_seq[i].stamp <= sys_seq[j].stamp
  BY StampsGrow
<1>4. 1 \in 1..n /\ n \in 1..n
  BY <1>1
<1>5. CASE Around(o) = {} /\ o <= sys_seq[1].stamp
  <2>1. ProperFrame(o) = 1
    BY <1>5 DEF ProperFrame, OutsideFrame
  <2>2. ASSUME NEW i \in 1..n
        PROVE  Distance(sys_seq[1], o) <= Distance(sys_seq[i], o)
    <3>1. sys_seq[1].stamp <= sys_seq[i].stamp /\ sys_seq[1].stamp \in Nat /\ sys_seq[i].stamp \in Nat
      BY <1>2, <1>3, <1>4
    <3> QED  BY <1>5, <3>1 DEF Distance
  <2> QED  BY <1>4, <2>1, <2>2
<1>6. CASE Around(o) = {} /\ ~(o <= sys_seq[1].stamp)
  <2>1. ProperFrame(o) = n
    BY <1>6 DEF ProperFrame, OutsideFrame
  <2>2. sys_seq[n].stamp <= o
    <3>1. SUFFICES ASSUME o < sys_seq[n].stamp PROVE FALSE
      BY <1>2, <1>4
    <3>2. n >= 1 /\ sys_seq[1].stamp <= o /\ Covered(sys_seq)
      BY <1>1, <1>2, <1>4, <1>6 DEF GoodSeq
    <3>3. \E i \in 2..n : sys_seq[i-1].stamp <= o /\ o < sys_seq[i].stamp
      BY <3>1, <3>2 DEF Covered
    <3> QED  BY <1>6, <3>3 DEF Around
  <2>3. ASSUME NEW i \in 1..n
        PROVE  Distance(sys_seq[n], o) <= Distance(sys_seq[i], o)
    <3>1. sys_seq[i].stamp <= sys_seq[n].stamp /\ sys_seq[i].stamp \in Nat /\ sys_seq[n].stamp \in Nat
      BY <1>1, <1>2, <1>3, <1>4
    <3> QED  BY <2>2, <3>1 DEF Distance
  <2> QED  BY <1>4, <2>1, <2>3
<1>7. CASE Around(o) # {}
  <2> DEFINE i == CHOOSE i \in Around(o) : TRUE
  <2>1. i \in Around(o)
    BY <1>7
  <2> HIDE DEF i
  <2>2. i \in 2..n /\ sys_seq[i-1].stamp <= o /\ o < sys_seq[i].stamp
    BY <2>1 DEF Around
  <2>3. i - 1 \in 1..n /\ i \in 1..n /\ sys_seq[i-1].stamp \in Nat /\ sys_seq[i].stamp \in Nat
    BY <1>1, <1>2, <2>2
  <2>4. ProperFrame(o) = IF o - sys_seq[i-1].stamp > sys_seq[i].stamp - o THEN i ELSE i - 1
    BY <1>7 DEF ProperFrame, i
  <2>5. ASSUME NEW k \in 1..n
        PROVE  Distance(sys_seq[ProperFrame(o)], o) <= Distance(sys_seq[k], o)
    <3>1. sys_seq[k].stamp <= sys_seq[i-1].stamp \/ sys_seq[i].stamp <= sys_seq[k].stamp
      <4>1. k <= i - 1 \/ i <= k
        BY <1>1, <2>3
      <4> QED  BY <1>3, <2>3, <4>1
    <3>2. sys_seq[k].stamp \in Nat
      BY <1>2
    <3>3. /\ sys_seq[ProperFrame(o)].stamp \in Nat
          /\ sys_seq[ProperFrame(o)].stamp =
                IF o - sys_seq[i-1].stamp > sys_seq[i].stamp - o
                THEN sys_seq[i].stamp ELSE sys_seq[i-1].stamp
      BY <2>3, <2>4
    <3> QED  BY <2>2, <2>3, <3>1, <3>2, <3>3, NearerNeighbour DEF Distance
  <2> QED  BY <2>3, <2>4, <2>5
<1> QED  BY <1>5, <1>6, <1>7

\* Odometry in time finds two frames, of which the first is out of question.
LEMMA BufferReachesBack ==
    ASSUME FusionInv, inTime, odom # 0, NEW o \in Nat, o <= now, InTime(o)
    PROVE  /\ Len(sys_seq) \in Nat /\ Len(sys_seq) >= 2
           /\ sys_seq[1].stamp < o /\ sys_seq[2].stamp < o
           /\ Last.stamp = imu /\ imu >= o - MaxImuGap
           /\ o - MaxImuGap > handled
<1> DEFINE n == Len(sys_seq)
<1>1. /\ sys_seq \in Seq(Frame) /\ n \in Nat /\ GoodSeq(sys_seq)
      /\ now \in Nat /\ imu \in Nat /\ handled \in Nat /\ now - imu <= MaxImuGap
  BY LenProperties DEF FusionInv, FusionTypeOK, SeqInv, ClockInv
<1>2. imu >= o - MaxImuGap /\ o - MaxImuGap > handled + MaxImuGap
  BY <1>1, Bounds DEF InTime
<1>3. n >= 2
  <2>1. imu > handled + MaxImuGap
    BY <1>1, <1>2, Bounds
  <2> QED  BY <2>1 DEF FusionInv, ReachInv
<1>4. sys_seq # <<>> /\ Last.stamp = imu
  BY <1>1, <1>3, NonEmpty DEF FusionInv, NewestInv
<1>5. sys_seq[1].stamp \in Nat /\ sys_seq[2].stamp \in Nat /\ sys_seq[2].stamp - sys_seq[1].stamp <= MaxImuGap
  <2>1. 1 \in 1..n /\ 2 \in 1..n /\ 2 \in 2..n /\ 2 - 1 = 1
    BY <1>1, <1>3
  <2> QED  BY <1>1, <2>1, FrameTypes DEF GoodSeq, Dense
<1>6. sys_seq[1].stamp + MaxImuGap < o
  <2>1. CASE sys_seq[1].stamp <= handled + MaxImuGap
    BY <1>1, <1>2, <1>5, <2>1, Bounds
  <2>2. CASE n = SeqSize
    <3>1. imu - sys_seq[1].stamp >= n - 1
      <4>1. 1 \in 1..n /\ n \in 1..n /\ 1 <= n
        BY <1>1, <1>3
      <4> QED  BY <1>1, <1>4, <4>1, Apart DEF Last
    <3>2. imu <= now /\ SeqSize > (now - o) + 2 * MaxImuGap
      BY <1>1 DEF FusionInv, ClockInv, InTime
    <3> QED  BY <1>1, <1>5, <2>2, <3>1, <3>2, Bounds
  <2> QED  BY <1>4, <2>1, <2>2 DEF FusionInv, ReachInv
<1> QED  BY <1>1, <1>2, <1>3, <1>4, <1>5, <1>6, Bounds

LEMMA InTimeFrame ==
    ASSUME FusionInv, inTime, odom # 0, NEW o \in Nat, o <= now, InTime(o)
    PROVE  /\ ProperFrame(o) \in 2..Len(sys_seq)
           /\ sys_seq[ProperFrame(o)].stamp > handled
<1> DEFINE n == Len(sys_seq)
<1>1. /\ n \in Nat /\ n >= 2 /\ sys_seq[1].stamp < o /\ sys_seq[2].stamp < o
      /\ sys_seq[n].stamp = imu /\ imu >= o - MaxImuGap /\ o - MaxImuGap > handled
  BY BufferReachesBack DEF Last
<1>2. /\ sys_seq \in Seq(Frame) /\ GoodSeq(sys_seq) /\ imu \in Nat /\ handled \in Nat
  BY DEF FusionInv, FusionTypeOK, SeqInv
<1>3. \A i \in 1..n : sys_seq[i].stamp \in Nat
  BY <1>2, FrameTypes
<1>4. CASE Around(o) = {}
  <2>1. 1 \in 1..n /\ ~(o <= sys_seq[1].stamp)
    BY <1>1, <1>3
  <2>2. ProperFrame(o) = n
    BY <1>4, <2>1 DEF ProperFrame, OutsideFrame
  <2> QED  BY <1>1, <1>2, <2>2, Bounds
<1>5. CASE Around(o) # {}
  <2> DEFINE i == CHOOSE i \in Around(o) : TRUE
  <2>1. i \in Around(o)
    BY <1>5
  <2> HIDE DEF i
  <2>2. i \in 2..n /\ sys_seq[i-1].stamp <= o /\ o < sys_seq[i].stamp
    BY <2>1 DEF Around
  <2>3. i # 2
    BY <1>1, <1>3, <2>2
  <2>4. /\ i - 1 \in 2..n /\ i - 1 \in 1..n /\ i \in 1..n
        /\ sys_seq[i-1].stamp \in Nat /\ sys_seq[i].stamp \in Nat
    BY <1>1, <1>3, <2>2, <2>3
  <2>5. sys_seq[i].stamp - sys_seq[i-1].stamp <= MaxImuGap
    BY <1>2, <2>2 DEF GoodSeq, Dense
  <2>6. sys_seq[i-1].stamp > handled /\ sys_seq[i].stamp > handled
    BY <1>1, <1>2, <2>2, <2>4, <2>5, Bounds
  <2>7. ProperFrame(o) = i \/ ProperFrame(o) = i - 1
    BY <1>5 DEF ProperFrame, i
  <2> QED  BY <2>2, <2>4, <2>6, <2>7
<1> QED  BY <1>4, <1>5

-----------------------------------------------------------------------------
(* Corrections *)

\* What is left of the buffer is in order, and as long as no step was made up, the
\* estimate is predicted to the newest message again.
LEMMA CorrectionResult ==
    ASSUME FusionInv, Len(sys_seq) >= 2, NEW o \in Nat,
           NEW r \in 1..Len(sys_seq), Correct(r, o)
    PROVE  /\ sys_seq' \in Seq(Frame) /\ GoodSeq(sys_seq')
           /\ Len(sys_seq') = Len(sys_seq) - r + 1
           /\ \A i \in 1..Len(sys_seq') : sys_seq'[i] = sys_seq[r+i-1]
           /\ sys_seq'[1] = sys_seq[r] /\ sys_seq'[Len(sys_seq')] = Last
           /\ X_state' \in State /\ X_state'.seen = sys_seq[r].before.seen \cup {o}
           /\ frontGap' \in Nat /\ madeUp' \in BOOLEAN
           /\ r # 1 => madeUp' = madeUp
           /\ ~madeUp' => /\ ~madeUp /\ X_state'.at = imu /\ X_state.at = imu
                          /\ Chained(sys_seq') /\ FrontStep(sys_seq', frontGap')
<1> DEFINE n == Len(sys_seq)
           m == n - r + 1
<1>1. /\ sys_seq \in Seq(Frame) /\ GoodSeq(sys_seq) /\ n \in Nat /\ n >= 2
      /\ imu \in Nat /\ frontGap \in Nat /\ madeUp \in BOOLEAN
  BY LenProperties DEF FusionInv, FusionTypeOK, SeqInv
<1>2. /\ sys_seq' = SubSeq(sys_seq, r, n)
      /\ X_state' = RePropagated([at   |-> sys_seq[r].before.at + FirstStep(r),
                                 seen |-> sys_seq[r].before.seen \cup {o}], r)
      /\ frontGap' = IF r = 1 THEN frontGap ELSE Gap(r)
      /\ madeUp' = (madeUp \/ (r = 1 /\ Gap(2) # frontGap))
  BY DEF Correct
<1>3. r \in Nat /\ r >= 1 /\ r <= n /\ m \in 1..n /\ m \in 1..m /\ 1 \in 1..m /\ r+1-1 = r /\ r+m-1 = n
  BY <1>1
<1>4. /\ sys_seq' \in Seq(Frame) /\ Len(sys_seq') = m /\ GoodSeq(sys_seq')
      /\ \A i \in 1..m : sys_seq'[i] = sys_seq[r+i-1]
  BY <1>1, <1>2, GoodSubSeq
<1>5. sys_seq'[1] = sys_seq[r] /\ sys_seq'[m] = sys_seq[n]
  BY <1>3, <1>4
<1>6. \A i \in 1..n : sys_seq[i].stamp \in Nat /\ sys_seq[i].before.at \in Nat
                      /\ sys_seq[i].before.seen \in SUBSET Nat
  BY <1>1, FrameTypes
<1>7. \A i \in 2..n : Gap(i) \in Nat /\ Gap(i) >= 1
  <2> SUFFICES ASSUME NEW i \in 2..n PROVE Gap(i) \in Nat /\ Gap(i) >= 1
    OBVIOUS
  <2>1. i \in 1..n /\ i-1 \in 1..n /\ i-1 <= i /\ i - (i-1) = 1
    BY <1>1
  <2>2. sys_seq[i].stamp - sys_seq[i-1].stamp >= i - (i-1)
    BY <1>1, <2>1, Apart
  <2>3. sys_seq[i].stamp \in Nat /\ sys_seq[i-1].stamp \in Nat
    BY <1>6, <2>1
  <2> QED  BY <2>1, <2>2, <2>3 DEF Gap
<1>8. 2 \in 2..n /\ (r # 1 => r \in 2..n)
  BY <1>1, <1>3
<1>9. FirstStep(r) \in Nat /\ frontGap' \in Nat
  BY <1>1, <1>2, <1>7, <1>8 DEF FirstStep
<1>10. Last.stamp = imu /\ sys_seq # <<>>
  BY <1>1, NonEmpty DEF FusionInv, NewestInv
<1>11. sys_seq[r].stamp \in Nat /\ sys_seq[r].stamp <= imu
  <2>1. n \in 1..n /\ sys_seq[n].stamp = imu
    BY <1>1, <1>10 DEF Last
  <2> QED  BY <1>3, <2>1, StampsGrow
<1>12. /\ X_state' = [at   |-> sys_seq[r].before.at + FirstStep(r) + (imu - sys_seq[r].stamp),
                      seen |-> sys_seq[r].before.seen \cup {o}]
       /\ X_state' \in State
  <2>1. X_state' = [at   |-> sys_seq[r].before.at + FirstStep(r) + (imu - sys_seq[r].stamp),
                    seen |-> sys_seq[r].before.seen \cup {o}]
    BY <1>2, <1>10 DEF RePropagated, Last
  <2>2. sys_seq[r].before.at + FirstStep(r) + (imu - sys_seq[r].stamp) \in Nat
    <3>1. sys_seq[r].before.at \in Nat /\ imu - sys_seq[r].stamp \in Nat
      BY <1>1, <1>6, <1>11
    <3>2. \A a, b, c \in Nat : a + b + c \in Nat
      OBVIOUS
    <3> QED  BY <1>9, <3>1, <3>2, Zenon
  <2> QED  BY <1>6, <2>1, <2>2 DEF State
<1>13. ASSUME ~madeUp'
       PROVE  /\ ~madeUp /\ X_state'.at = imu /\ X_state.at = imu
              /\ Chained(sys_seq') /\ FrontStep(sys_seq', frontGap')
  <2>1. ~madeUp /\ (r = 1 => Gap(2) = frontGap)
    BY <1>2, <1>13
  <2>2. Chained(sys_seq) /\ FrontStep(sys_seq, frontGap) /\ X_state.at = imu
    BY <1>10, <2>1 DEF FusionInv, StepInv, NewestInv
  <2>3. sys_seq[r].before.at + FirstStep(r) = sys_seq[r].stamp
    <3>1. CASE r = 1
      <4>1. FirstStep(r) = frontGap /\ frontGap # 0
        BY <1>7, <1>8, <2>1, <3>1 DEF FirstStep
      <4> QED  BY <1>10, <2>2, <3>1, <4>1 DEF FrontStep
    <3>2. CASE r # 1
      <4>1. r \in 2..n /\ r-1 \in 1..n
        BY <1>1, <1>8, <3>2
      <4>2. sys_seq[r].before.at = sys_seq[r-1].stamp
        BY <2>2, <4>1 DEF Chained
      <4>3. FirstStep(r) = sys_seq[r].stamp - sys_seq[r-1].stamp
        BY <3>2 DEF FirstStep, Gap
      <4> QED  BY <1>6, <1>11, <4>1, <4>2, <4>3
    <3> QED  BY <3>1, <3>2
  <2>4. X_state'.at = imu
    <3>1. X_state'.at = sys_seq[r].stamp + (imu - sys_seq[r].stamp)
      BY <1>12, <2>3
    <3> QED  BY <1>1, <1>11, <3>1
  <2>5. Chained(sys_seq')
    <3> SUFFICES ASSUME NEW i \in 2..m PROVE sys_seq'[i].before.at = sys_seq'[i-1].stamp
      BY <1>4 DEF Chained
    <3>1. i \in 1..m /\ i-1 \in 1..m /\ r+i-1 \in 2..n /\ r+(i-1)-1 = (r+i-1)-1
      BY <1>1, <1>3
    <3>2. sys_seq'[i] = sys_seq[r+i-1] /\ sys_seq'[i-1] = sys_seq[r+(i-1)-1]
      BY <1>4, <3>1
    <3>3. sys_seq[r+i-1].before.at = sys_seq[(r+i-1)-1].stamp
      BY <2>2, <3>1 DEF Chained
    <3> QED  BY <3>1, <3>2, <3>3
  <2>6. FrontStep(sys_seq', frontGap')
    <3>1. CASE r = 1
      BY <1>2, <1>5, <1>10, <2>2, <3>1 DEF FrontStep
    <3>2. CASE r # 1
      <4>1. frontGap' = FirstStep(r)
        BY <1>2, <3>2 DEF FirstStep
      <4> QED  BY <1>5, <2>3, <4>1 DEF FrontStep
    <3> QED  BY <3>1, <3>2
  <2> QED  BY <2>1, <2>2, <2>4, <2>5, <2>6
<1>14. r # 1 => madeUp' = madeUp
  BY <1>1, <1>2
<1>15. madeUp' \in BOOLEAN
  BY <1>2
<1> QED  BY <1>4, <1>5, <1>9, <1>12, <1>13, <1>14, <1>15 DEF Last

\* Odometry in time is used for a correction of the newest correction's successor.
LEMMA InTimeCorrection ==
    ASSUME FusionInv, odom # 0, NEW o \in 1..MaxTime, VioOdom(o), inTime'
    PROVE  /\ inTime /\ ~madeUp /\ ~madeUp' /\ timely = X_state /\ timely' = X_state'
           /\ X_state' = [at |-> imu, seen |-> X_state.seen \cup {o}]
           /\ X_state.at = imu
<1>1. inTime /\ InTime(o) /\ o \in Nat /\ o <= now
  <2>1. inTime /\ InTime(o)
    <3>1. inTime' = (inTime /\ (odom = 0 \/ InTime(o)))
      BY DEF VioOdom
    <3> QED  BY <3>1
  <2> QED  BY <2>1, Bounds DEF VioOdom
<1>2. Len(sys_seq) \in Nat /\ Len(sys_seq) >= 2
  BY <1>1, BufferReachesBack
<1>3. Correct(ProperFrame(o), o) /\ timely' = X_state'
  BY <1>2 DEF VioOdom, TooShort, Follows
<1>4. ProperFrame(o) \in 2..Len(sys_seq)
  BY <1>1, InTimeFrame
<1>5. PICK r \in 1..Len(sys_seq) : r = ProperFrame(o)
  BY <1>2, <1>4
<1>6. ~madeUp /\ timely = X_state
  BY <1>1 DEF FusionInv, TimelyInv
<1>7. r # 1 /\ sys_seq[r].before.seen = X_state.seen
  BY <1>1, <1>2, <1>4, <1>5, InTimeFrame DEF FusionInv, SeenInv
<1>8. /\ X_state' \in State /\ X_state'.seen = sys_seq[r].before.seen \cup {o}
      /\ r # 1 => madeUp' = madeUp
      /\ ~madeUp' => X_state'.at = imu /\ X_state.at = imu
  <2>1. Correct(r, o) /\ o \in Nat /\ Len(sys_seq) >= 2
    BY <1>1, <1>2, <1>3, <1>5
  <2> QED  BY <2>1, CorrectionResult
<1> QED  BY <1>1, <1>3, <1>6, <1>7, <1>8 DEF State

LEMMA VioOdomKeepsInv == ASSUME FusionInv, NEW o \in 1..MaxTime, VioOdom(o) PROVE FusionInv'
<1> DEFINE n == Len(sys_seq)
           r == ProperFrame(o)
<1>1. FusionTypeOK /\ SeqInv /\ ClockInv /\ StepInv /\ NewestInv /\ SeenInv /\ ReachInv /\ TimelyInv
  BY DEF FusionInv
<1>2. /\ o \in Nat /\ o # 0 /\ now \in Nat /\ imu \in Nat /\ odom \in Nat /\ imu <= now
      /\ sys_seq \in Seq(Frame) /\ X_state \in State /\ timely \in State /\ MaxImuGap \in Nat
      /\ n \in Nat /\ inTime \in BOOLEAN
  BY <1>1, Bounds, LenProperties DEF FusionTypeOK, ClockInv
<1>3. /\ odom < o /\ o <= now /\ odom' = o /\ UNCHANGED <<now, imu>>
      /\ inTime' = (inTime /\ (odom = 0 \/ InTime(o)))
      /\ handled' = (IF inTime' THEN now ELSE 0)
      /\ timely' = IF inTime' THEN X_state' ELSE timely
  BY DEF VioOdom, Follows
<1>4. ClockInv' /\ (inTime' => ~(imu > handled'))
  BY <1>1, <1>2, <1>3 DEF ClockInv
<1>5. CASE odom = 0
  <2>1. X_state' = [X_state EXCEPT !.seen = {o}] /\ UNCHANGED <<sys_seq, frontGap, Z, madeUp>>
    BY <1>5 DEF VioOdom, Initialize, kept
  <2>2. sys_seq = <<>> /\ n = 0
    BY <1>1, <1>5, EmptySeq DEF SeenInv
  <2>3. X_state' \in State /\ X_state'.at = X_state.at /\ X_state'.seen = {o}
    BY <1>2, <2>1 DEF State
  <2>4. FusionTypeOK' /\ SeqInv'
    BY <1>1, <1>2, <1>3, <2>1, <2>3 DEF FusionTypeOK, SeqInv
  <2>5. StepInv' /\ NewestInv' /\ TimelyInv'
    BY <1>1, <1>3, <2>1, <2>2, <2>3 DEF StepInv, NewestInv, TimelyInv
  <2>6. SeenInv' /\ ReachInv'
    BY <1>2, <1>3, <1>4, <2>1, <2>2, <2>3 DEF SeenInv, ReachInv
  <2> QED  BY <1>4, <2>4, <2>5, <2>6 DEF FusionInv
<1>6. CASE odom # 0 /\ TooShort
  <2>1. /\ X_state' = [X_state EXCEPT !.seen = @ \cup {Z}]
        /\ UNCHANGED <<sys_seq, frontGap, Z, madeUp>>
    BY <1>6 DEF VioOdom, UpdateLatestState, kept
  <2>2. X_state' \in State /\ X_state'.at = X_state.at
    BY <1>1, <1>2, <2>1 DEF State, FusionTypeOK
  <2>3. ~inTime'
    <3>1. SUFFICES ASSUME inTime, InTime(o) PROVE FALSE
      BY <1>3, <1>6
    <3>2. n >= 2
      BY <1>2, <1>3, <1>6, <3>1, BufferReachesBack
    <3> QED  BY <1>2, <1>6, <3>2 DEF TooShort
  <2>4. FusionTypeOK' /\ SeqInv'
    BY <1>1, <1>2, <1>3, <2>1, <2>2 DEF FusionTypeOK, SeqInv
  <2>5. StepInv' /\ NewestInv'
    BY <1>1, <1>3, <2>1, <2>2 DEF StepInv, NewestInv, Last
  <2>6. SeenInv' /\ ReachInv' /\ TimelyInv'
    BY <1>2, <1>3, <2>3 DEF SeenInv, ReachInv, TimelyInv
  <2> QED  BY <1>4, <2>4, <2>5, <2>6 DEF FusionInv
<1>7. CASE odom # 0 /\ ~TooShort
  <2> DEFINE m == Len(sys_seq')
  <2>1. Correct(r, o) /\ Z' = o /\ n >= 2
    BY <1>2, <1>7 DEF VioOdom, TooShort, Correct
  <2>2. r \in 1..n
    BY <1>2, <2>1, NearestFrame
  <2> HIDE DEF r
  <2>3. /\ sys_seq' \in Seq(Frame) /\ GoodSeq(sys_seq') /\ m = n - r + 1
        /\ sys_seq'[m] = Last /\ X_state' \in State
        /\ frontGap' \in Nat /\ madeUp' \in BOOLEAN
        /\ ~madeUp' => /\ X_state'.at = imu /\ Chained(sys_seq') /\ FrontStep(sys_seq', frontGap')
    BY <1>2, <2>1, <2>2, CorrectionResult
  <2>4. m \in 1..n /\ m \in 1..m /\ 1 \in 1..m /\ n <= SeqSize /\ SeqSize \in Nat
    BY <1>1, <1>2, <2>2, <2>3, Bounds DEF FusionTypeOK
  <2>5. FusionTypeOK' /\ SeqInv'
    BY <1>1, <1>2, <1>3, <2>1, <2>3, <2>4 DEF FusionTypeOK, SeqInv
  <2>6. Last.stamp = imu /\ sys_seq' # <<>>
    BY <1>1, <1>2, <2>1, <2>3, <2>4, NonEmpty, EmptySeq DEF NewestInv
  <2>7. NewestInv' /\ StepInv'
    BY <1>3, <2>3, <2>6 DEF NewestInv, StepInv, Last
  <2>8. \A i \in 1..m : sys_seq'[i].stamp <= imu /\ sys_seq'[i].stamp \in Nat
    <3> SUFFICES ASSUME NEW i \in 1..m PROVE sys_seq'[i].stamp <= imu /\ sys_seq'[i].stamp \in Nat
      OBVIOUS
    <3>1. i <= m
      BY <2>4
    <3>2. sys_seq'[m].stamp - sys_seq'[i].stamp >= m - i
      BY <2>3, <2>4, <3>1, Apart
    <3>3. sys_seq'[m].stamp = imu /\ sys_seq'[i].stamp \in Nat
      BY <2>3, <2>6, FrameTypes
    <3> QED  BY <1>2, <2>4, <3>1, <3>2, <3>3
  <2>9. CASE ~inTime'
    <3>1. SeenInv' /\ ReachInv' /\ TimelyInv'
      BY <1>2, <1>3, <2>9 DEF SeenInv, ReachInv, TimelyInv
    <3> QED  BY <1>4, <2>5, <2>7, <3>1 DEF FusionInv
  <2>10. CASE inTime'
    <3>1. /\ inTime /\ ~madeUp' /\ timely' = X_state'
          /\ X_state' = [at |-> imu, seen |-> X_state.seen \cup {o}]
      BY <1>7, <2>10, InTimeCorrection
    <3>2. handled' = now /\ \A i \in 1..m : ~(sys_seq'[i].stamp > handled')
      BY <1>2, <1>3, <2>8, <2>10
    <3>3. X_state'.seen \subseteq 1..o
      BY <1>1, <1>2, <1>3, <3>1 DEF SeenInv
    <3>4. SeenInv' /\ TimelyInv'
      BY <1>2, <1>3, <3>1, <3>2, <3>3 DEF SeenInv, TimelyInv
    <3>5. ReachInv'
      <4>1. sys_seq'[1].stamp <= handled' + MaxImuGap
        BY <1>2, <2>4, <2>8, <3>2
      <4>2. ~(imu > handled' + MaxImuGap) /\ ~(imu > handled')
        BY <1>2, <3>2
      <4> QED  BY <1>3, <4>1, <4>2 DEF ReachInv
    <3> QED  BY <1>4, <2>5, <2>7, <3>4, <3>5 DEF FusionInv
  <2> QED  BY <2>9, <2>10
<1> QED  BY <1>5, <1>6, <1>7

-----------------------------------------------------------------------------
(* Theorems *)

LEMMA Invariance == Spec => []FusionInv
<1>1. ASSUME FusionInv, [Next]_vars PROVE FusionInv'
  <2>1. CASE Tick
    BY <1>1, <2>1, TickKeepsInv
  <2>2. CASE Imu
    BY <1>1, <2>2, ImuKeepsInv
  <2>3. ASSUME NEW o \in 1..MaxTime, VioOdom(o) PROVE FusionInv'
    BY <1>1, <2>3, VioOdomKeepsInv
  <2>4. CASE UNCHANGED vars
    BY <1>1, <2>4, TickKeepsInv
  <2> QED  BY <1>1, <2>1, <2>2, <2>3, <2>4 DEF Next, Waits
<1> QED  BY <1>1, InitInv, PTL DEF Spec

\* The buffer never exceeds its size and the estimate is well formed: no correction
\* takes it to a time before the start.
THEOREM FusionTypeCorrect == Spec => []FusionTypeOK
<1>1. FusionInv => FusionTypeOK
  BY DEF FusionInv
<1> QED  BY <1>1, Invariance, PTL

\* The estimate is for the newest IMU message, however late the odometry was that it
\* has been corrected with and whichever frame was corrected, the front frame included,
\* unless the front frame took the step of its successor where its own was another.
THEOREM EstimateStaysCurrent == Spec => []EstimateIsCurrent
<1>1. FusionInv => EstimateIsCurrent
  BY DEF FusionInv, NewestInv, EstimateIsCurrent
<1> QED  BY <1>1, Invariance, PTL

\* As long as odometry comes in time, no step is made up, so that the estimate is for
\* the newest IMU message whatever the spacing of the messages.
THEOREM InTimeEstimateIsCurrent == Spec => [](inTime /\ sys_seq # <<>> => X_state.at = imu)
<1>1. FusionInv => (inTime /\ sys_seq # <<>> => X_state.at = imu)
  BY DEF FusionInv, NewestInv, TimelyInv
<1> QED  BY <1>1, Invariance, PTL

\* Every correction is made at the frame nearest to where the odometry was measured,
\* whatever the delay and whether or not the buffer reaches back to it.
THEOREM CorrectionsFindNearest == Spec => CorrectsNearest
<1> DEFINE A == odom # 0 /\ odom' # odom =>
                   \A i \in DOMAIN sys_seq :
                      Distance(sys_seq'[1], odom') <= Distance(sys_seq[i], odom')
<1>1. ASSUME FusionInv, [Next]_vars PROVE A
  <2> SUFFICES ASSUME odom # 0, odom' # odom, NEW i \in DOMAIN sys_seq
               PROVE  Distance(sys_seq'[1], odom') <= Distance(sys_seq[i], odom')
    OBVIOUS
  <2>1. PICK o \in 1..MaxTime : VioOdom(o)
    BY <1>1 DEF Next, Tick, Imu, Waits, vars
  <2> DEFINE n == Len(sys_seq)
             r == ProperFrame(o)
  <2>2. o \in Nat /\ odom' = o
    BY <2>1, Bounds DEF VioOdom
  <2>3. n \in Nat /\ DOMAIN sys_seq = 1..n /\ sys_seq \in Seq(Frame)
    BY <1>1, LenProperties DEF FusionInv, FusionTypeOK
  <2>4. CASE n >= 2
    <3>1. r \in 1..n /\ Distance(sys_seq[r], o) <= Distance(sys_seq[i], o)
      BY <1>1, <2>2, <2>3, <2>4, NearestFrame
    <3>2. Correct(r, o)
      BY <2>1, <2>3, <2>4 DEF VioOdom, TooShort
    <3> HIDE DEF r
    <3>3. sys_seq'[1] = sys_seq[r]
      BY <1>1, <2>2, <2>4, <3>1, <3>2, CorrectionResult
    <3> QED  BY <2>2, <3>1, <3>3
  <2>5. CASE ~(n >= 2)
    <3>1. i = 1
      BY <2>3, <2>5
    <3>2. sys_seq' = sys_seq
      BY <2>1, <2>3, <2>5 DEF VioOdom, TooShort, UpdateLatestState, kept
    <3>3. sys_seq[1].stamp \in Nat
      BY <2>3, <3>1, FrameTypes
    <3> QED  BY <2>2, <3>1, <3>2, <3>3 DEF Distance
  <2> QED  BY <2>4, <2>5
<1>2. FusionInv /\ [Next]_vars => [A]_vars
  BY <1>1
<1> QED  BY <1>2, Invariance, PTL DEF Spec, CorrectsNearest

\* As long as odometry comes in time, no correction is lost and none is made with
\* anything but the odometry that has come: the filter with its buffer is the filter of
\* the abstract specification.
THEOREM ImplementsPoseFilter == Spec => ImplementsFilter
<1>1. Init => Filter!Init
  BY DEF Init, Filter!Init
<1>2. ASSUME FusionInv, [Next]_vars PROVE [Filter!Next]_(Filter!estimate)
  <2>1. CASE Tick \/ UNCHANGED vars
    BY <2>1 DEF Tick, vars, Filter!estimate
  <2>2. CASE Imu
    <3>1. inTime \in BOOLEAN /\ now \in Nat /\ timely' = IF inTime THEN X_state' ELSE timely
      BY <1>2, <2>2 DEF FusionInv, FusionTypeOK, Imu, history, Follows
    <3>2. CASE ~inTime
      BY <3>1, <3>2 DEF Filter!estimate
    <3>3. CASE inTime
      <4>1. timely = X_state /\ timely' = X_state' /\ ~madeUp
        BY <1>2, <3>1, <3>3 DEF FusionInv, TimelyInv
      <4>2. CASE odom = 0
        BY <2>2, <4>1, <4>2 DEF Imu, Filter!estimate
      <4>3. CASE odom # 0
        <5>1. X_state' = [at |-> now, seen |-> X_state.seen] /\ X_state.at < now
          BY <1>2, <2>2, <4>1, <4>3, ImuPredicts DEF Imu
        <5> QED  BY <3>1, <4>1, <5>1 DEF Filter!Next, Filter!Predict
      <4> QED  BY <4>2, <4>3
    <3> QED  BY <3>1, <3>2, <3>3
  <2>3. ASSUME NEW o \in 1..MaxTime, VioOdom(o) PROVE [Filter!Next]_(Filter!estimate)
    <3>1. inTime \in BOOLEAN /\ inTime' \in BOOLEAN /\ (inTime' => inTime) /\ odom < o
          /\ timely' = IF inTime' THEN X_state' ELSE timely
      BY <1>2, <2>3 DEF FusionInv, FusionTypeOK, VioOdom, Follows
    <3>2. CASE ~inTime'
      BY <3>1, <3>2 DEF Filter!estimate
    <3>3. CASE inTime'
      <4>1. /\ timely = X_state /\ timely' = X_state'
            /\ o \in Nat \ {0} /\ X_state.seen \subseteq 1..odom /\ odom \in Nat
            /\ X_state = [at |-> X_state.at, seen |-> X_state.seen]
        BY <1>2, <3>1, <3>3, Bounds DEF FusionInv, FusionTypeOK, SeenInv, TimelyInv, State
      <4>2. CASE odom = 0
        <5>1. X_state' = [X_state EXCEPT !.seen = {o}]
          BY <2>3, <4>2 DEF VioOdom, Initialize
        <5>2. timely'.at = timely.at /\ timely'.seen = {o} /\ timely.seen = {}
          BY <4>1, <4>2, <5>1
        <5> QED  BY <4>1, <5>2 DEF Filter!Next, Filter!Fuse
      <4>3. CASE odom # 0
        <5>1. /\ X_state' = [at |-> imu, seen |-> X_state.seen \cup {o}]
              /\ X_state.at = imu
          BY <1>2, <2>3, <3>3, <4>3, InTimeCorrection
        <5>2. timely'.at = timely.at /\ timely'.seen = timely.seen \cup {o}
          BY <4>1, <5>1
        <5>3. \A f \in timely.seen : f < o /\ f \in Nat \ {0}
          BY <3>1, <4>1
        <5> QED  BY <4>1, <5>2, <5>3 DEF Filter!Next, Filter!Fuse
      <4> QED  BY <4>2, <4>3
    <3> QED  BY <3>1, <3>2, <3>3
  <2> QED  BY <1>2, <2>1, <2>2, <2>3 DEF Next, Waits
<1> QED  BY <1>1, <1>2, Invariance, PTL DEF Spec, ImplementsFilter, Filter!Spec
=============================================================================

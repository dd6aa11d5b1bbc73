--------------------------- MODULE ScanSyncProofs ---------------------------
(***************************************************************************)
(* Theorems about the synchronization of scans and IMU messages, for every *)
(* set of sweep times and every bound on stamps, buffers and clocks set    *)
(* back.                                                                   *)
(*                                                                         *)
(* What a prediction comes to is a sum over the IMU messages of a scan, so *)
(* the argument needs an induction over a sequence.  It is made with sets: *)
(* a set of natural numbers has a least element (Least), since less-than   *)
(* is well-founded, and what holds of 0 and passes from each number to the *)
(* next holds throughout (Induction).                                      *)
(***************************************************************************)
EXTENDS ScanSync, FiniteSetTheorems, SequenceTheorems, WellFoundedInduction, TLAPS

Below == OpToRel(<, Nat)

LEMMA BelowIsLess == \A k, m \in Nat : k < m => <<k, m>> \in Below
BY DEF Below, OpToRel

LEMMA Least ==
    ASSUME NEW S, S \subseteq Nat, S # {}
    PROVE  \E m \in S : \A k \in S : m <= k
<1>1. IsWellFoundedOn(Below, Nat)
  BY NatLessThanWellFounded DEF Below
<1>2. PICK m \in S : \A k \in S : ~ (<<k, m>> \in Below)
  BY <1>1, WFMin
<1>3. ASSUME NEW k \in S PROVE m <= k
  <2>1. ~(k < m) /\ k \in Nat /\ m \in Nat
    BY <1>2, BelowIsLess
  <2> QED
    BY <2>1
<1> QED
  BY <1>2, <1>3

LEMMA Induction ==
    ASSUME NEW n \in Nat, NEW S, 0 \in S, \A i \in 1..n : i - 1 \in S => i \in S
    PROVE  \A i \in 0..n : i \in S
<1> DEFINE Missing == {i \in 0..n : i \notin S}
<1> SUFFICES ASSUME Missing # {} PROVE FALSE
  OBVIOUS
<1>1. PICK m \in Missing : \A k \in Missing : m <= k
  <2>1. Missing \subseteq Nat
    OBVIOUS
  <2> HIDE DEF Missing
  <2> QED
    BY <2>1, Least
<1>2. m \in 1..n /\ m - 1 \in 0..n /\ m \notin S
  BY <1>1
<1>3. m - 1 \notin Missing
  <2>1. ~(m <= m - 1)
    BY <1>2
  <2> QED
    BY <1>1, <2>1
<1> QED
  BY <1>2, <1>3

-----------------------------------------------------------------------------
(* Sums *)

\* sum adds the steps up, one after the other
Adds(sum, steps, n) == sum = [i \in 0..n |-> IF i = 0 THEN 0 ELSE sum[i - 1] + steps[i]]

LEMMA AddsOneMore ==
    ASSUME NEW k \in Nat, NEW steps, NEW f, Adds(f, steps, k)
    PROVE  \E g : Adds(g, steps, k + 1)
<1> DEFINE g == [i \in 0..(k + 1) |-> IF i = k + 1 THEN f[k] + steps[k + 1] ELSE f[i]]
<1>1. \A i \in 0..k : f[i] = IF i = 0 THEN 0 ELSE f[i - 1] + steps[i]
  BY DEF Adds
<1>2. ASSUME NEW i \in 0..(k + 1)
      PROVE  g[i] = IF i = 0 THEN 0 ELSE g[i - 1] + steps[i]
  <2>1. CASE i = k + 1
    BY <2>1
  <2>2. CASE i # k + 1
    <3>1. i \in 0..k /\ (i # 0 => i - 1 \in 0..(k + 1) /\ i - 1 # k + 1)
      BY <2>2
    <3> QED
      BY <1>1, <2>2, <3>1
  <2> QED
    BY <2>1, <2>2
<1>3. g = [i \in 0..(k + 1) |-> IF i = 0 THEN 0 ELSE g[i - 1] + steps[i]]
  BY <1>2
<1> QED
  BY <1>3 DEF Adds

LEMMA SumExists ==
    ASSUME NEW n \in Nat, NEW steps
    PROVE  \E sum : Adds(sum, steps, n)
<1> DEFINE S == {k \in 0..n : \E sum : Adds(sum, steps, k)}
<1>1. 0 \in S
  <2> DEFINE f == [i \in 0..0 |-> 0]
  <2>1. f = [i \in 0..0 |-> IF i = 0 THEN 0 ELSE f[i - 1] + steps[i]]
    OBVIOUS
  <2>2. Adds(f, steps, 0)
    BY <2>1 DEF Adds
  <2> QED
    BY <2>2
<1>2. ASSUME NEW i \in 1..n, i - 1 \in S PROVE i \in S
  <2>1. PICK f : Adds(f, steps, i - 1)
    BY <1>2
  <2>2. i - 1 \in Nat /\ (i - 1) + 1 = i /\ i \in 0..n
    OBVIOUS
  <2>3. \E g : Adds(g, steps, (i - 1) + 1)
    BY <2>1, <2>2, AddsOneMore
  <2> QED
    BY <2>2, <2>3
<1> HIDE DEF S
<1>3. n \in S
  BY <1>1, <1>2, Induction
<1> QED
  BY <1>3 DEF S

\* SumTo is the last of the partial sums.
LEMMA SumToAdds ==
    ASSUME NEW n \in Nat, NEW steps
    PROVE  \E sum : Adds(sum, steps, n) /\ SumTo(steps, n) = sum[n]
<1> DEFINE s == CHOOSE sum : Adds(sum, steps, n)
<1>1. Adds(s, steps, n)
  BY SumExists
<1>2. SumTo(steps, n) = s[n]
  BY DEF SumTo, Adds
<1> QED
  BY <1>1, <1>2

LEMMA PartialSums ==
    ASSUME NEW n \in Nat, NEW steps, NEW sum, Adds(sum, steps, n)
    PROVE  \A i \in 0..n : sum[i] = IF i = 0 THEN 0 ELSE sum[i - 1] + steps[i]
BY DEF Adds

LEMMA SumType ==
    ASSUME NEW n \in Nat, NEW steps, \A i \in 1..n : steps[i] \in Int
    PROVE  SumTo(steps, n) \in Int
<1>0. PICK sum : Adds(sum, steps, n) /\ SumTo(steps, n) = sum[n]
  BY SumToAdds
<1>1. SumTo(steps, n) = sum[n]
      /\ \A i \in 0..n : sum[i] = IF i = 0 THEN 0 ELSE sum[i - 1] + steps[i]
  BY <1>0, PartialSums
<1> DEFINE S == {i \in 0..n : sum[i] \in Int}
<1>2. 0 \in S
  BY <1>1
<1>3. ASSUME NEW i \in 1..n, i - 1 \in S PROVE i \in S
  BY <1>1, <1>3
<1> HIDE DEF S
<1>4. n \in S
  BY <1>2, <1>3, Induction
<1> QED
  BY <1>1, <1>4 DEF S

-----------------------------------------------------------------------------
(* What a prediction comes to *)

LEMMA StepsOf ==
    ASSUME NEW group \in Seq(Nat)
    PROVE  \A i \in 1..Len(group) :
              Steps(group)[i] = Step(IF i = 1 THEN last_imu ELSE group[i - 1], group[i])
<1> DEFINE v == <<last_imu>> \o group
<1> TAKE i \in 1..Len(group)
<1>1. Steps(group)[i] = Step(v[i], v[i + 1])
  BY DEF Steps
<1>2. v[i + 1] = group[i] /\ v[i] = IF i = 1 THEN last_imu ELSE group[i - 1]
  BY i \in 1..Len(group), Len(group) \in Nat
<1> HIDE DEF v
<1> QED
  BY <1>1, <1>2

\* steps go over a group, each from the message before, the first from first, and none
\* from before L
GoOver(steps, group, first, L) ==
    \A i \in 1..Len(group) :
        LET earlier == IF i = 1 THEN first ELSE group[i - 1]
        IN  steps[i] = IF group[i] < L THEN 0
                       ELSE IF earlier < L THEN group[i] - L ELSE group[i] - earlier

\* Steps over a group in order come to the time from L to the last message.
LEMMA StepsTelescope ==
    ASSUME NEW group \in Seq(Nat), Sorted(group), Len(group) # 0,
           NEW L \in Nat, NEW first \in Nat, first <= L, L <= group[Len(group)],
           NEW steps, GoOver(steps, group, first, L)
    PROVE  SumTo(steps, Len(group)) = group[Len(group)] - L
<1> DEFINE n == Len(group)
<1>0. /\ n \in Nat /\ n # 0 /\ L <= group[n] /\ \A i \in 1..n : group[i] \in Nat
      /\ \A i, j \in 1..n : i <= j => group[i] <= group[j]
      /\ \A i \in 1..n : LET earlier == IF i = 1 THEN first ELSE group[i - 1]
                          IN  steps[i] = IF group[i] < L THEN 0
                                         ELSE IF earlier < L THEN group[i] - L
                                              ELSE group[i] - earlier
  BY DEF Sorted, GoOver
<1>1. \E sum : Adds(sum, steps, n) /\ SumTo(steps, n) = sum[n]
  BY <1>0, SumToAdds
<1> HIDE DEF n
<1>2. PICK sum : Adds(sum, steps, n) /\ SumTo(steps, n) = sum[n]
  BY <1>1
<1>3. \A i \in 0..n : sum[i] = IF i = 0 THEN 0 ELSE sum[i - 1] + steps[i]
  BY <1>0, <1>2, PartialSums
<1> DEFINE S == {i \in 0..n : sum[i] = IF i = 0 \/ group[i] < L THEN 0 ELSE group[i] - L}
<1>4. 0 \in S
  BY <1>0, <1>3
<1>5. ASSUME NEW i \in 1..n, i - 1 \in S PROVE i \in S
  <2>1. sum[i] = sum[i - 1] + steps[i] /\ group[i] \in Nat
        /\ sum[i - 1] = IF i - 1 = 0 \/ group[i - 1] < L THEN 0 ELSE group[i - 1] - L
    BY <1>0, <1>3, <1>5
  <2>2. CASE i = 1
    BY <1>0, <2>1, <2>2
  <2>3. CASE i # 1
    <3>1. i - 1 \in 1..n /\ group[i - 1] \in Nat /\ group[i - 1] <= group[i]
      BY <1>0, <2>3
    <3>2. steps[i] = IF group[i] < L THEN 0
                     ELSE IF group[i - 1] < L THEN group[i] - L ELSE group[i] - group[i - 1]
      BY <1>0, <2>3
    <3>3. sum[i - 1] = IF group[i - 1] < L THEN 0 ELSE group[i - 1] - L
      BY <2>1, <2>3
    <3>4. sum[i] = IF group[i] < L THEN 0 ELSE group[i] - L
      BY <2>1, <3>1, <3>2, <3>3
    <3> QED
      BY <2>3, <3>4
  <2> QED
    BY <2>2, <2>3
<1> HIDE DEF S
<1>6. n \in S
  <2>1. \A i \in 1..n : i - 1 \in S => i \in S
    BY <1>5
  <2>2. \A i \in 0..n : i \in S
    BY <1>0, <1>4, <2>1, Induction
  <2> QED
    BY <1>0, <2>2
<1> QED
  BY <1>0, <1>2, <1>6 DEF S, n

\* A prediction is for the time from the end of the scan before to the end of this one.
LEMMA PredictionCovers ==
    ASSUME NEW group \in Seq(Nat), Sorted(group), last_lidar_end_time \in Nat,
           last_imu \in Nat, last_imu <= last_lidar_end_time, group # <<>>,
           last_lidar_end_time <= group[Len(group)],
           NEW end \in Nat, group[Len(group)] <= end
    PROVE  Prediction(group, end) = end - last_lidar_end_time
<1>1. group[Len(group)] \in Nat
  OBVIOUS
<1>2. Apart(group[Len(group)], end) = end - group[Len(group)]
  BY <1>1 DEF Apart
<1>3. GoOver(Steps(group), group, last_imu, last_lidar_end_time)
  BY StepsOf DEF Step, GoOver
<1>4. Len(group) # 0
  OBVIOUS
<1>5. SumTo(Steps(group), Len(group)) = group[Len(group)] - last_lidar_end_time
  BY <1>3, <1>4, StepsTelescope
<1> QED
  BY <1>1, <1>2, <1>5 DEF Prediction

LEMMA PredictionType ==
    ASSUME NEW group \in Seq(Nat), group # <<>>, last_lidar_end_time \in Nat,
           last_imu \in Nat, NEW end \in Nat
    PROVE  Prediction(group, end) \in Int
<1>1. group[Len(group)] \in Nat /\ Len(group) \in Nat /\ \A i \in 1..Len(group) : group[i] \in Nat
  OBVIOUS
<1>2. \A i \in 1..Len(group) : Steps(group)[i] \in Int
  <2> TAKE i \in 1..Len(group)
  <2>1. Steps(group)[i] = Step(IF i = 1 THEN last_imu ELSE group[i - 1], group[i])
    BY StepsOf
  <2>2. (IF i = 1 THEN last_imu ELSE group[i - 1]) \in Nat /\ group[i] \in Nat
    BY <1>1
  <2> QED
    BY <2>1, <2>2 DEF Step
<1>3. SumTo(Steps(group), Len(group)) \in Int
  BY <1>1, <1>2, SumType
<1> QED
  BY <1>1, <1>3 DEF Prediction, Apart

-----------------------------------------------------------------------------
(* The messages handed on *)

ImuInOrder == imu_buffer \in Seq(Stamps) /\ Sorted(imu_buffer)

\* The messages taken are the first ones, as many as Count says.
LEMMA CountIsPrefix ==
    ASSUME ImuInOrder, NEW end \in Nat
    PROVE  /\ Count(end) \in 0..Len(imu_buffer)
           /\ \A i \in 1..Len(imu_buffer) : Takes(i, end) <=> i <= Count(end)
<1> DEFINE n == Len(imu_buffer)
           T == {i \in 1..n : Takes(i, end)}
           Ends == {m \in Nat : m + 1 \notin T}
<1>1. n \in Nat /\ DOMAIN imu_buffer = 1..n /\ \A i \in 1..n : imu_buffer[i] \in Nat
  BY SyncAssumption DEF ImuInOrder, Stamps
<1>2. \A i \in T, j \in 1..n : j <= i => j \in T
  <2> TAKE i \in T, j \in 1..n
  <2> HAVE j <= i
  <2> DEFINE before(k) == IF k = 1 THEN 1 ELSE k - 1
  <2>1. before(j) \in 1..n /\ before(i) \in 1..n /\ before(j) <= before(i)
    BY <1>1
  <2> HIDE DEF before
  <2>2. imu_buffer[before(j)] <= imu_buffer[before(i)] /\ imu_buffer[j] <= imu_buffer[i]
    BY <1>1, <2>1 DEF ImuInOrder, Sorted
  <2>3. imu_buffer[before(i)] < end /\ imu_buffer[i] <= end
    BY DEF Takes, GoesOn, before
  <2>4. imu_buffer[before(j)] < end /\ imu_buffer[j] <= end
    BY <1>1, <2>1, <2>2, <2>3
  <2> QED
    BY <2>4 DEF Takes, GoesOn, before
<1>3. n \in Ends
  BY <1>1
<1>4. PICK k \in Ends : \A m \in Ends : k <= m
  BY <1>3, Least
<1>5. k \in 0..n
  BY <1>1, <1>3, <1>4
<1>6. \A i \in 1..n : i \in T <=> i <= k
  <2> TAKE i \in 1..n
  <2>1. ASSUME i <= k PROVE i \in T
    <3>1. i - 1 \in Nat /\ ~(k <= i - 1)
      BY <1>5, <2>1
    <3>2. i - 1 \notin Ends
      BY <1>4, <3>1
    <3> QED
      BY <3>1, <3>2
  <2>2. ASSUME i \in T, ~(i <= k) PROVE FALSE
    <3>1. k + 1 \in 1..n /\ k + 1 <= i
      BY <1>1, <1>5, <2>2
    <3>2. k + 1 \in T
      BY <1>2, <2>2, <3>1
    <3> QED
      BY <1>4, <3>2
  <2> QED
    BY <2>1, <2>2
<1>7. T = 1..k
  BY <1>1, <1>5, <1>6
<1>8. Count(end) = k
  <2>1. Count(end) = Cardinality(1..k)
    BY <1>1, <1>7 DEF Count
  <2> QED
    BY <1>5, <2>1, FS_Interval
<1> HIDE DEF Ends
<1> QED
  BY <1>5, <1>6, <1>8

LEMMA PartOf ==
    ASSUME NEW s \in Seq(Stamps), NEW from \in Nat, NEW to \in Nat,
           from <= to, to <= Len(s)
    PROVE  /\ SubSeq(s, from + 1, to) \in Seq(Stamps)
           /\ Len(SubSeq(s, from + 1, to)) = to - from
           /\ \A i \in 1..(to - from) : SubSeq(s, from + 1, to)[i] = s[from + i]
<1> DEFINE part == SubSeq(s, from + 1, to)
<1>1. from + 1 \in Int /\ to \in Int /\ to - (from + 1) + 1 = to - from
  OBVIOUS
<1>2. \A i \in (from + 1)..to : s[i] \in Stamps
  OBVIOUS
<1>3. /\ part \in Seq(Stamps)
      /\ Len(part) = IF from + 1 <= to THEN to - (from + 1) + 1 ELSE 0
      /\ \A i \in 1..(to - (from + 1) + 1) : part[i] = s[(from + 1) + i - 1]
  BY <1>1, <1>2, SubSeqProperties
<1> HIDE DEF part
<1>4. \A i \in 1..(to - from) : (from + 1) + i - 1 = from + i
  OBVIOUS
<1> QED
  BY <1>1, <1>3, <1>4 DEF part

Handed(end) == SubSeq(imu_buffer, 1, Count(end))
Left(end)   == SubSeq(imu_buffer, Count(end) + 1, Len(imu_buffer))

\* What is handed on is in order and not from after the end.
LEMMA HandedOn ==
    ASSUME ImuInOrder, NEW end \in Nat
    PROVE  /\ Handed(end) \in Seq(Stamps) /\ Sorted(Handed(end))
           /\ \A i \in 1..Len(Handed(end)) :
                 Handed(end)[i] <= end /\ \E j \in 1..Len(imu_buffer) : Handed(end)[i] = imu_buffer[j]
<1> DEFINE c == Count(end)
           n == Len(imu_buffer)
           g == Handed(end)
<1>1. /\ c \in 0..n /\ n \in Nat /\ imu_buffer \in Seq(Stamps)
      /\ \A i \in 1..n : Takes(i, end) <=> i <= c
  BY CountIsPrefix DEF ImuInOrder
<1>2. /\ g \in Seq(Stamps) /\ Len(g) = c
      /\ \A i \in 1..c : g[i] = imu_buffer[i]
  <2>1. \A i \in 1..c : 0 + i = i
    OBVIOUS
  <2>2. 0 \in Nat /\ c \in Nat /\ 0 <= c /\ c <= n /\ 0 + 1 = 1 /\ c - 0 = c
    BY <1>1
  <2> HIDE DEF c
  <2> QED
    BY <1>1, <2>1, <2>2, PartOf DEF Handed, c
<1>3. \A i \in 1..c : i \in 1..n /\ imu_buffer[i] <= end
  BY <1>1 DEF Takes
<1> HIDE DEF g, c, n
<1>4. Sorted(g)
  <2>1. \A i, j \in 1..n : i <= j => imu_buffer[i] <= imu_buffer[j]
    BY <1>1 DEF ImuInOrder, Sorted, n
  <2>2. \A i, j \in 1..c : i <= j => g[i] <= g[j]
    BY <1>2, <1>3, <2>1
  <2> QED
    BY <1>2, <2>2 DEF Sorted
<1> QED
  BY <1>2, <1>3, <1>4 DEF g, n

\* What remains is in order and not from before the end.
LEMMA RemainingAfter ==
    ASSUME ImuInOrder, NEW end \in Nat
    PROVE  /\ Left(end) \in Seq(Stamps) /\ Sorted(Left(end))
           /\ \A i \in 1..Len(Left(end)) :
                 /\ end <= Left(end)[i]
                 /\ \E j \in 1..Len(imu_buffer) : Left(end)[i] = imu_buffer[j]
<1> DEFINE c == Count(end)
           n == Len(imu_buffer)
           r == Left(end)
<1>1. /\ c \in 0..n /\ n \in Nat /\ imu_buffer \in Seq(Stamps)
      /\ \A i \in 1..n : Takes(i, end) <=> i <= c
  BY CountIsPrefix DEF ImuInOrder
<1>2. /\ r \in Seq(Stamps) /\ Len(r) = n - c
      /\ \A i \in 1..(n - c) : r[i] = imu_buffer[c + i] /\ c + i \in 1..n
  <2>1. c \in Nat /\ c <= n /\ n <= Len(imu_buffer) /\ \A i \in 1..(n - c) : c + i \in 1..n
    BY <1>1
  <2> QED
    BY <1>1, <2>1, PartOf DEF Left
<1>3. ASSUME NEW i \in 1..n, i > c PROVE end <= imu_buffer[i]
  <2>1. ~Takes(i, end)
    BY <1>1, <1>3
  <2> DEFINE b == IF i = 1 THEN 1 ELSE i - 1
  <2>2. b \in 1..n /\ b <= i
    BY <1>1
  <2>3. imu_buffer[b] \in Nat /\ imu_buffer[i] \in Nat /\ imu_buffer[b] <= imu_buffer[i]
    <3>1. \A k \in 1..n : imu_buffer[k] \in Nat
      BY <1>1, SyncAssumption DEF Stamps
    <3>2. \A j, k \in 1..n : j <= k => imu_buffer[j] <= imu_buffer[k]
      BY <1>1 DEF ImuInOrder, Sorted
    <3> QED
      BY <2>2, <3>1, <3>2
  <2>4. ~(imu_buffer[b] < end) \/ ~(imu_buffer[i] <= end)
    BY <2>1 DEF Takes, GoesOn
  <2> QED
    BY <2>3, <2>4
<1> HIDE DEF r, c, n
<1>4. Sorted(r)
  <2>1. \A i, j \in 1..n : i <= j => imu_buffer[i] <= imu_buffer[j]
    BY <1>1 DEF ImuInOrder, Sorted, n
  <2>2. ASSUME NEW i \in 1..(n - c), NEW j \in 1..(n - c), i <= j PROVE r[i] <= r[j]
    <3>1. c + i \in 1..n /\ c + j \in 1..n /\ c + i <= c + j
      BY <1>1, <1>2, <2>2
    <3> QED
      BY <1>2, <2>1, <3>1
  <2> QED
    BY <1>2, <2>2 DEF Sorted
<1>5. \A i \in 1..(n - c) : c + i > c
  BY <1>1
<1>6. \A i \in 1..(n - c) : end <= r[i] /\ \E j \in 1..n : r[i] = imu_buffer[j]
  BY <1>2, <1>3, <1>5
<1> QED
  BY <1>2, <1>4, <1>6 DEF r, n

-----------------------------------------------------------------------------
(* The inductive invariant *)

\* no message is from after the newest
NewestInv == \A i \in 1..Len(imu_buffer) : imu_buffer[i] <= last_timestamp_imu

\* While nothing is misaligned each waiting scan has its stamp, and so has the one
\* taken from the front.
AlignedInv == (~misaligned => time_buffer = lidar_buffer) /\ ScansHaveTheirStamps

\* Once a scan has been predicted to, the filter is initialized, and the last message
\* used is not from after the end it was used for.
BehindInv == estimated => init_iter_num > InitMessages /\ last_imu <= last_lidar_end_time

\* The messages that wait are not from before the end of the last scan, and its end
\* has been reached.
AheadInv ==
    estimated /\ jumps.imu = 0 =>
        /\ last_lidar_end_time <= last_timestamp_imu
        /\ \A i \in 1..Len(imu_buffer) : last_lidar_end_time <= imu_buffer[i]

SyncInv == SyncTypeOK /\ NewestInv /\ AlignedInv /\ BehindInv /\ AheadInv

LEMMA Numbers ==
    ASSUME SyncTypeOK
    PROVE  /\ last_timestamp_lidar \in Nat /\ last_timestamp_imu \in Int
           /\ last_imu \in Nat /\ last_lidar_end_time \in Nat /\ init_iter_num \in Nat
           /\ jumps.lidar \in 0..MaxJumps /\ jumps.imu \in 0..MaxJumps
           /\ InitMessages \in Nat /\ MaxJumps \in Nat /\ Stamps \subseteq Nat
           /\ imu_buffer \in Seq(Stamps) /\ imu_buffer \in Seq(Nat) /\ Len(imu_buffer) \in Nat
           /\ \A i \in 1..Len(imu_buffer) : imu_buffer[i] \in Nat
<1>1. Stamps \subseteq Nat /\ InitMessages \in Nat /\ MaxJumps \in Nat
  BY SyncAssumption DEF Stamps
<1>2. imu_buffer \in Seq(Stamps)
  BY DEF SyncTypeOK
<1>3. /\ Len(imu_buffer) \in Nat /\ imu_buffer \in [1..Len(imu_buffer) -> Stamps]
      /\ \A i \in 1..Len(imu_buffer) : imu_buffer[i] \in Nat
  <2>1. Len(imu_buffer) \in Nat /\ imu_buffer \in [1..Len(imu_buffer) -> Stamps]
    BY <1>2
  <2>2. \A i \in 1..Len(imu_buffer) : imu_buffer[i] \in Stamps
    BY <2>1
  <2> QED
    BY <1>1, <2>1, <2>2
<1>4. imu_buffer \in Seq(Nat)
  BY <1>2, <1>3
<1>5. jumps.lidar \in 0..MaxJumps /\ jumps.imu \in 0..MaxJumps
  BY DEF SyncTypeOK
<1>6. /\ last_timestamp_lidar \in Nat /\ last_timestamp_imu \in Int
      /\ last_imu \in Nat /\ last_lidar_end_time \in Nat /\ init_iter_num \in Nat
  BY <1>1 DEF SyncTypeOK
<1> QED
  BY <1>1, <1>2, <1>3, <1>4, <1>5, <1>6

LEMMA StampsAreNumbers ==
    ASSUME NEW s \in Seq(Stamps)
    PROVE  s \in Seq(Nat)
<1>1. Len(s) \in Nat /\ s \in [1..Len(s) -> Stamps]
  OBVIOUS
<1>2. \A i \in 1..Len(s) : s[i] \in Nat
  BY <1>1, SyncAssumption DEF Stamps
<1> QED
  BY <1>1, <1>2

LEMMA InitInv == Init => SyncInv
<1> SUFFICES ASSUME Init PROVE SyncInv
  OBVIOUS
<1>1. Len(lidar_buffer) = 0 /\ Len(time_buffer) = 0 /\ Len(imu_buffer) = 0
  BY DEF Init
<1>2. Sorted(imu_buffer)
  BY DEF Init, Sorted
<1>3. 0 \in Stamps /\ 0 \in 0..(InitMessages + 1) /\ 0 \in 0..MaxJumps
  BY SyncAssumption DEF Stamps
<1>4. last_lidar_end_time \in Nat
  BY SyncAssumption DEF Init
<1>5. SyncTypeOK
  <2>1. scan \in [own : Stamps, begin : Stamps, end : Nat]
    BY <1>3 DEF Init
  <2>2. jumps \in [lidar : 0..MaxJumps, imu : 0..MaxJumps]
    BY <1>3 DEF Init
  <2>3. lidar_buffer \in Seq(Stamps) /\ time_buffer \in Seq(Stamps) /\ imu_buffer \in Seq(Stamps)
    BY DEF Init
  <2>4. Len(lidar_buffer) <= Len(time_buffer)
    BY <1>1
  <2>5. last_imu \in Stamps /\ last_timestamp_lidar \in Stamps /\ last_timestamp_imu \in Stamps \cup {-1}
    BY <1>3 DEF Init
  <2>6. init_iter_num \in 0..(InitMessages + 1) /\ predicted \in Int
    BY <1>3 DEF Init
  <2>7. /\ lidar_pushed \in BOOLEAN /\ flg_first_scan \in BOOLEAN
        /\ estimated \in BOOLEAN /\ misaligned \in BOOLEAN
    BY DEF Init
  <2> QED
    BY <1>2, <1>4, <2>1, <2>2, <2>3, <2>4, <2>5, <2>6, <2>7 DEF SyncTypeOK
<1> QED
  BY <1>1, <1>5 DEF Init, SyncInv, NewestInv, AlignedInv, BehindInv, AheadInv,
     ScansHaveTheirStamps

\* A scan arrives with its stamp; the scans that waited before a clock set back are
\* cleared, their stamps are not, which `misaligned' records.
LEMMA LidarKeepsInv ==
    ASSUME SyncInv, NEW stamp \in 1..MaxStamp, LidarCbk(stamp)
    PROVE  SyncInv'
<1> DEFINE back == stamp < last_timestamp_lidar
           kept == IF back THEN <<>> ELSE lidar_buffer
<1>1. stamp \in Stamps
  BY SyncAssumption DEF Stamps
<1>2. /\ lidar_buffer' = Append(kept, stamp) /\ time_buffer' = Append(time_buffer, stamp)
      /\ UNCHANGED <<imu_buffer, last_timestamp_imu, sync, prediction>>
      /\ last_timestamp_lidar' = stamp
      /\ misaligned' = (misaligned \/ (back /\ lidar_buffer # <<>>))
      /\ jumps' = IF back THEN [jumps EXCEPT !.lidar = @ + 1] ELSE jumps
      /\ back => jumps.lidar < MaxJumps
  BY DEF LidarCbk
<1>3. kept \in Seq(Stamps) /\ Len(kept) <= Len(lidar_buffer)
  BY DEF SyncInv, SyncTypeOK
<1>4. /\ lidar_buffer' \in Seq(Stamps) /\ time_buffer' \in Seq(Stamps)
      /\ Len(lidar_buffer') <= Len(time_buffer')
  BY <1>1, <1>2, <1>3 DEF SyncInv, SyncTypeOK
<1>5. jumps' \in [lidar : 0..MaxJumps, imu : 0..MaxJumps] /\ jumps'.imu = jumps.imu
  <2>1. /\ jumps \in [lidar : 0..MaxJumps, imu : 0..MaxJumps]
        /\ jumps.lidar \in 0..MaxJumps /\ MaxJumps \in Nat
    BY Numbers DEF SyncInv, SyncTypeOK
  <2>2. CASE back
    <3>1. jumps.lidar + 1 \in 0..MaxJumps
      BY <1>2, <2>1, <2>2
    <3>2. jumps' = [jumps EXCEPT !.lidar = jumps.lidar + 1]
      BY <1>2, <2>2
    <3> QED
      BY <2>1, <3>1, <3>2
  <2>3. CASE ~back
    BY <1>2, <2>1, <2>3
  <2> QED
    BY <2>2, <2>3
<1>6. SyncTypeOK'
  BY <1>1, <1>2, <1>4, <1>5 DEF SyncInv, SyncTypeOK, sync, prediction, Sorted
<1>7. AlignedInv'
  <2> SUFFICES ASSUME ~misaligned'
               PROVE  /\ time_buffer' = lidar_buffer' /\ scan.own = scan.begin
                      /\ lidar_pushed => /\ lidar_buffer' # <<>>
                                         /\ scan.own = Head(lidar_buffer')
    BY <1>2 DEF AlignedInv, ScansHaveTheirStamps, sync
  <2>1. /\ ~misaligned /\ kept = lidar_buffer /\ time_buffer = lidar_buffer
        /\ scan.own = scan.begin
        /\ lidar_pushed => lidar_buffer # <<>> /\ scan.own = Head(lidar_buffer)
    BY <1>2 DEF SyncInv, AlignedInv, ScansHaveTheirStamps
  <2>2. /\ Append(lidar_buffer, stamp) # <<>>
        /\ lidar_buffer # <<>> => Head(Append(lidar_buffer, stamp)) = Head(lidar_buffer)
    <3>1. lidar_buffer \in Seq(Stamps) /\ Append(lidar_buffer, stamp) \in Seq(Stamps)
          /\ Len(Append(lidar_buffer, stamp)) = Len(lidar_buffer) + 1
      BY <1>1 DEF SyncInv, SyncTypeOK
    <3>2. Append(lidar_buffer, stamp) # <<>>
      BY <3>1
    <3>3. ASSUME lidar_buffer # <<>>
          PROVE  Append(lidar_buffer, stamp)[1] = lidar_buffer[1]
      BY <1>1, <3>1, <3>3
    <3> QED
      BY <3>1, <3>2, <3>3
  <2> QED
    BY <1>2, <2>1, <2>2
<1>8. NewestInv' /\ BehindInv' /\ AheadInv'
  BY <1>2, <1>5 DEF SyncInv, NewestInv, BehindInv, AheadInv, prediction
<1> QED
  BY <1>6, <1>7, <1>8 DEF SyncInv

\* A message is not from before the newest, or the ones from before are cleared.
LEMMA ImuKeepsInv ==
    ASSUME SyncInv, NEW stamp \in 1..MaxStamp, ImuCbk(stamp)
    PROVE  SyncInv'
<1> DEFINE back == stamp < last_timestamp_imu
           kept == Remaining(back)
<1>1. stamp \in Stamps /\ stamp \in Nat
  BY SyncAssumption DEF Stamps
<1>2. /\ imu_buffer' = Append(kept, stamp) /\ last_timestamp_imu' = stamp
      /\ jumps' = IF back THEN [jumps EXCEPT !.imu = @ + 1] ELSE jumps
      /\ back => jumps.imu < MaxJumps
      /\ UNCHANGED <<lidar_buffer, time_buffer, last_timestamp_lidar, sync, prediction, misaligned>>
  BY DEF ImuCbk
<1>3. /\ kept \in Seq(Stamps) /\ Sorted(kept)
      /\ \A i \in 1..Len(kept) : kept[i] \in Nat /\ kept[i] <= stamp
      /\ ~back => kept = imu_buffer
  <2>1. CASE back
    BY <2>1 DEF Remaining, Sorted
  <2>2. CASE ~back
    <3>1. kept = imu_buffer /\ last_timestamp_imu <= stamp
      BY <1>1, <2>2, Numbers DEF Remaining, SyncInv
    <3>2. imu_buffer \in Seq(Stamps) /\ Sorted(imu_buffer)
      BY DEF SyncInv, SyncTypeOK
    <3>3. \A i \in 1..Len(imu_buffer) : imu_buffer[i] \in Nat /\ imu_buffer[i] <= stamp
      BY <1>1, <3>1, Numbers DEF SyncInv, NewestInv
    <3> QED
      BY <3>1, <3>2, <3>3
  <2> QED
    BY <2>1, <2>2
<1> HIDE DEF kept
<1>4. /\ imu_buffer' \in Seq(Stamps) /\ Len(kept) \in Nat /\ Len(imu_buffer') = Len(kept) + 1
      /\ \A i \in 1..Len(kept) : imu_buffer'[i] = kept[i]
      /\ imu_buffer'[Len(kept) + 1] = stamp
  BY <1>1, <1>2, <1>3
<1>5. Sorted(imu_buffer')
  <2> SUFFICES ASSUME NEW i \in 1..(Len(kept) + 1), NEW j \in 1..(Len(kept) + 1), i <= j
               PROVE  imu_buffer'[i] <= imu_buffer'[j]
    BY <1>4 DEF Sorted
  <2>1. CASE j = Len(kept) + 1
    BY <1>1, <1>3, <1>4, <2>1
  <2>2. CASE j # Len(kept) + 1
    <3>1. i \in 1..Len(kept) /\ j \in 1..Len(kept)
      BY <1>4, <2>2
    <3> QED
      BY <1>3, <1>4, <3>1 DEF Sorted
  <2> QED
    BY <2>1, <2>2
<1>6. NewestInv'
  BY <1>1, <1>2, <1>3, <1>4 DEF NewestInv
<1>7. /\ jumps' \in [lidar : 0..MaxJumps, imu : 0..MaxJumps]
      /\ jumps'.imu = 0 => ~back /\ jumps.imu = 0
  <2>1. /\ jumps \in [lidar : 0..MaxJumps, imu : 0..MaxJumps]
        /\ jumps.imu \in 0..MaxJumps /\ MaxJumps \in Nat
    BY Numbers DEF SyncInv, SyncTypeOK
  <2>2. CASE back
    <3>1. jumps.imu + 1 \in 0..MaxJumps /\ jumps.imu + 1 # 0
      BY <1>2, <2>1, <2>2
    <3>2. jumps' = [jumps EXCEPT !.imu = jumps.imu + 1]
      BY <1>2, <2>2
    <3> QED
      BY <2>1, <3>1, <3>2
  <2>3. CASE ~back
    BY <1>2, <2>1, <2>3
  <2> QED
    BY <2>2, <2>3
<1>8. SyncTypeOK'
  BY <1>1, <1>2, <1>4, <1>5, <1>7 DEF SyncInv, SyncTypeOK, sync, prediction
<1>9. AlignedInv' /\ BehindInv'
  BY <1>2 DEF SyncInv, AlignedInv, ScansHaveTheirStamps, BehindInv, sync, prediction
<1>10. AheadInv'
  <2> SUFFICES ASSUME estimated, jumps'.imu = 0
               PROVE  /\ last_lidar_end_time <= stamp
                      /\ \A i \in 1..Len(imu_buffer') : last_lidar_end_time <= imu_buffer'[i]
    BY <1>2 DEF AheadInv, prediction
  <2>1. ~back /\ jumps.imu = 0 /\ kept = imu_buffer
    BY <1>2, <1>3, <1>7
  <2>2. /\ last_lidar_end_time <= last_timestamp_imu /\ last_timestamp_imu <= stamp
        /\ \A i \in 1..Len(kept) : last_lidar_end_time <= kept[i]
    BY <1>1, <2>1, Numbers DEF SyncInv, AheadInv
  <2>3. last_lidar_end_time <= stamp
    BY <1>1, <2>2, Numbers DEF SyncInv
  <2> QED
    BY <1>4, <2>2, <2>3
<1> QED
  BY <1>6, <1>8, <1>9, <1>10 DEF SyncInv

-----------------------------------------------------------------------------
(* sync_packages *)

\* The scan that is handed on or waits is the front one, with the front stamp.
LEMMA PushedScan ==
    ASSUME SyncInv, lidar_buffer # <<>>, NEW s \in ScansToPush
    PROVE  /\ s \in [own : Stamps, begin : Stamps, end : Nat]
           /\ ~misaligned => s.own = s.begin /\ s.own = Head(lidar_buffer)
<1>1. CASE lidar_pushed
  BY <1>1 DEF ScansToPush, SyncInv, SyncTypeOK, AlignedInv, ScansHaveTheirStamps
<1>2. CASE ~lidar_pushed
  <2>1. /\ lidar_buffer \in Seq(Stamps) /\ time_buffer \in Seq(Stamps)
        /\ Len(lidar_buffer) <= Len(time_buffer)
    BY DEF SyncInv, SyncTypeOK
  <2>2. Head(lidar_buffer) \in Stamps /\ Len(lidar_buffer) # 0
    BY <2>1
  <2>3. time_buffer # <<>>
    BY <2>1, <2>2
  <2>4. Head(time_buffer) \in Stamps
    BY <2>1, <2>3
  <2>5. PICK d \in Sweeps : s = [own |-> Head(lidar_buffer), begin |-> Head(time_buffer),
                                 end |-> Head(time_buffer) + d]
    BY <1>2 DEF ScansToPush
  <2>6. Head(time_buffer) + d \in Nat
    BY <2>4, SyncAssumption DEF Stamps
  <2>7. ~misaligned => Head(time_buffer) = Head(lidar_buffer)
    BY DEF SyncInv, AlignedInv
  <2> QED
    BY <2>2, <2>4, <2>5, <2>6, <2>7
<1> QED
  BY <1>1, <1>2

\* The IMU has not reached the end of the scan, which waits.
LEMMA PushKeepsInv ==
    ASSUME SyncInv, lidar_buffer # <<>>, scan' \in ScansToPush, lidar_pushed' = TRUE,
           UNCHANGED <<buffers, flg_first_scan, prediction, newest, misaligned, jumps>>
    PROVE  SyncInv'
<1>1. /\ scan' \in [own : Stamps, begin : Stamps, end : Nat]
      /\ ~misaligned => scan'.own = scan'.begin /\ scan'.own = Head(lidar_buffer)
  BY PushedScan
<1>2. SyncTypeOK'
  BY <1>1 DEF SyncInv, SyncTypeOK, buffers, prediction, newest, Sorted
<1>3. AlignedInv'
  BY <1>1 DEF SyncInv, AlignedInv, ScansHaveTheirStamps, buffers
<1>4. NewestInv' /\ BehindInv' /\ AheadInv'
  BY DEF SyncInv, NewestInv, BehindInv, AheadInv, buffers, prediction, newest
<1> QED
  BY <1>2, <1>3, <1>4 DEF SyncInv

\* What a prediction does: nothing, initialize the filter, or predict to the end.
LEMMA Processed ==
    ASSUME SyncInv, NEW end \in Nat, HandOn(end)
    PROVE  \/ UNCHANGED prediction
           \/ /\ Handed(end) # <<>> /\ last_imu' = Handed(end)[Len(Handed(end))]
              /\ \/ /\ ~estimated /\ init_iter_num' \in 0..(InitMessages + 1)
                    /\ UNCHANGED <<last_lidar_end_time, predicted, estimated>>
                 \/ /\ init_iter_num > InitMessages /\ UNCHANGED init_iter_num
                    /\ predicted' = Prediction(Handed(end), end)
                    /\ last_lidar_end_time' = end /\ estimated' = TRUE
<1> DEFINE g == Handed(end)
<1>1. UNCHANGED prediction \/ Process(g, end)
  BY DEF HandOn, Handed
<1>2. g \in Seq(Stamps)
  BY HandedOn DEF SyncInv, SyncTypeOK, ImuInOrder
<1>3. init_iter_num \in Nat /\ InitMessages \in Nat /\ Len(g) \in Nat
  BY <1>2, Numbers DEF SyncInv
<1> HIDE DEF g
<1>4. CASE init_iter_num <= InitMessages
  <2>1. ~estimated
    BY <1>3, <1>4 DEF SyncInv, BehindInv
  <2>2. ASSUME Process(g, end), g # <<>>
        PROVE  /\ last_imu' = g[Len(g)] /\ init_iter_num' \in 0..(InitMessages + 1)
               /\ UNCHANGED <<last_lidar_end_time, predicted, estimated>>
    BY <1>3, <1>4, <2>2 DEF Process
  <2>3. Process(g, end) /\ g = <<>> => UNCHANGED prediction
    BY DEF Process
  <2> QED
    BY <1>1, <2>1, <2>2, <2>3 DEF g
<1>5. CASE ~(init_iter_num <= InitMessages)
  BY <1>1, <1>3, <1>5 DEF Process, g
<1> QED
  BY <1>4, <1>5

\* The last of the messages handed on is not from after the end, nor, as long as the
\* IMU's clock has not been set back, from before the end of the scan before.
LEMMA LastHanded ==
    ASSUME SyncInv, NEW end \in Nat, Handed(end) # <<>>
    PROVE  LET last == Handed(end)[Len(Handed(end))]
           IN  /\ last \in Stamps /\ last <= end
               /\ estimated /\ jumps.imu = 0 => last_lidar_end_time <= last
<1> DEFINE g == Handed(end)
<1>1. /\ g \in Seq(Stamps)
      /\ \A i \in 1..Len(g) : g[i] <= end /\ \E j \in 1..Len(imu_buffer) : g[i] = imu_buffer[j]
  BY HandedOn DEF SyncInv, SyncTypeOK, ImuInOrder
<1> HIDE DEF g
<1>2. Len(g) \in 1..Len(g)
  BY <1>1 DEF g
<1>3. g[Len(g)] \in Stamps
  BY <1>1, <1>2
<1>4. g[Len(g)] <= end /\ \E j \in 1..Len(imu_buffer) : g[Len(g)] = imu_buffer[j]
  BY <1>1, <1>2
<1> QED
  BY <1>3, <1>4 DEF SyncInv, AheadInv, g

\* The scan and its messages leave the buffers.
LEMMA HandOnKeepsInv ==
    ASSUME SyncInv, lidar_buffer # <<>>, scan' \in ScansToPush,
           last_timestamp_imu >= scan'.end, HandOn(scan'.end),
           UNCHANGED <<newest, misaligned, jumps>>
    PROVE  SyncInv'
<1> DEFINE end == scan'.end
<1>1. /\ scan' \in [own : Stamps, begin : Stamps, end : Nat] /\ end \in Nat
      /\ ~misaligned => scan'.own = scan'.begin
  BY PushedScan
<1>2. /\ lidar_pushed' = FALSE /\ flg_first_scan' = FALSE
      /\ lidar_buffer' = Tail(lidar_buffer) /\ time_buffer' = Tail(time_buffer)
      /\ imu_buffer' = Left(end)
  BY DEF HandOn, StampsLeft, Left
<1>3. /\ lidar_buffer' \in Seq(Stamps) /\ time_buffer' \in Seq(Stamps)
      /\ Len(lidar_buffer') <= Len(time_buffer')
  <2>1. /\ lidar_buffer \in Seq(Stamps) /\ time_buffer \in Seq(Stamps)
        /\ Len(lidar_buffer) <= Len(time_buffer)
    BY DEF SyncInv, SyncTypeOK
  <2>2. Len(lidar_buffer) # 0
    BY <2>1
  <2>3. time_buffer # <<>>
    BY <2>1, <2>2
  <2>4. Tail(lidar_buffer) \in Seq(Stamps) /\ Len(Tail(lidar_buffer)) = Len(lidar_buffer) - 1
    BY <2>1
  <2>5. Tail(time_buffer) \in Seq(Stamps) /\ Len(Tail(time_buffer)) = Len(time_buffer) - 1
    BY <2>1, <2>3
  <2>6. Len(lidar_buffer) \in Nat /\ Len(time_buffer) \in Nat
    BY <2>1
  <2> QED
    BY <1>2, <2>1, <2>4, <2>5, <2>6
<1>4. /\ Left(end) \in Seq(Stamps) /\ Sorted(Left(end))
      /\ \A i \in 1..Len(Left(end)) :
            end <= Left(end)[i] /\ \E j \in 1..Len(imu_buffer) : Left(end)[i] = imu_buffer[j]
  BY <1>1, RemainingAfter DEF SyncInv, SyncTypeOK, ImuInOrder
<1>5. Sorted(imu_buffer')
  BY <1>2, <1>4 DEF Sorted
<1>6. \/ UNCHANGED prediction
      \/ /\ Handed(end) # <<>> /\ last_imu' = Handed(end)[Len(Handed(end))]
         /\ \/ /\ ~estimated /\ init_iter_num' \in 0..(InitMessages + 1)
               /\ UNCHANGED <<last_lidar_end_time, predicted, estimated>>
            \/ /\ init_iter_num > InitMessages /\ UNCHANGED init_iter_num
               /\ predicted' = Prediction(Handed(end), end)
               /\ last_lidar_end_time' = end /\ estimated' = TRUE
  BY <1>1, Processed
<1>7. Handed(end) # <<>> =>
         /\ Handed(end)[Len(Handed(end))] \in Stamps /\ Handed(end)[Len(Handed(end))] <= end
         /\ Prediction(Handed(end), end) \in Int
  <2> SUFFICES ASSUME Handed(end) # <<>>
               PROVE  /\ Handed(end)[Len(Handed(end))] \in Stamps
                      /\ Handed(end)[Len(Handed(end))] <= end
                      /\ Prediction(Handed(end), end) \in Int
    OBVIOUS
  <2>1. Handed(end) \in Seq(Nat)
    <3>1. Handed(end) \in Seq(Stamps)
      BY <1>1, HandedOn DEF SyncInv, SyncTypeOK, ImuInOrder
    <3> QED
      BY <3>1, StampsAreNumbers
  <2>2. Prediction(Handed(end), end) \in Int
    BY <1>1, <2>1, PredictionType, Numbers DEF SyncInv
  <2> QED
    BY <1>1, <2>2, LastHanded
<1> HIDE DEF end
<1>8. /\ last_imu' \in Stamps /\ last_lidar_end_time' \in Nat
      /\ init_iter_num' \in 0..(InitMessages + 1)
      /\ predicted' \in Int /\ estimated' \in BOOLEAN
  BY <1>1, <1>6, <1>7 DEF SyncInv, SyncTypeOK, prediction
<1>9. SyncTypeOK'
  BY <1>1, <1>2, <1>3, <1>4, <1>5, <1>8 DEF SyncInv, SyncTypeOK, newest
<1>10. AlignedInv'
  BY <1>1, <1>2 DEF SyncInv, AlignedInv, ScansHaveTheirStamps
<1>11. NewestInv'
  BY <1>2, <1>4 DEF SyncInv, NewestInv, newest
<1>12. BehindInv'
  BY <1>6, <1>7 DEF SyncInv, BehindInv, prediction
<1>13. AheadInv'
  <2> SUFFICES ASSUME estimated', jumps.imu = 0
               PROVE  /\ last_lidar_end_time' <= last_timestamp_imu
                      /\ \A i \in 1..Len(Left(end)) : last_lidar_end_time' <= Left(end)[i]
    BY <1>2 DEF AheadInv, newest
  <2>1. CASE last_lidar_end_time' = end
    BY <1>4, <2>1 DEF end
  <2>2. CASE estimated /\ last_lidar_end_time' = last_lidar_end_time
    BY <1>4, <2>2 DEF SyncInv, AheadInv
  <2> QED
    BY <1>6, <2>1, <2>2 DEF prediction
<1> QED
  BY <1>9, <1>10, <1>11, <1>12, <1>13 DEF SyncInv

LEMMA NextKeepsInv == SyncInv /\ [Next]_vars => SyncInv'
<1> SUFFICES ASSUME SyncInv, [Next]_vars PROVE SyncInv'
  OBVIOUS
<1>1. ASSUME NEW stamp \in 1..MaxStamp, LidarCbk(stamp) PROVE SyncInv'
  BY <1>1, LidarKeepsInv
<1>2. ASSUME NEW stamp \in 1..MaxStamp, ImuCbk(stamp) PROVE SyncInv'
  BY <1>2, ImuKeepsInv
<1>3. CASE SyncPackages
  <2>1. /\ lidar_buffer # <<>> /\ scan' \in ScansToPush
        /\ UNCHANGED <<newest, misaligned, jumps>>
    BY <1>3 DEF SyncPackages
  <2>2. CASE last_timestamp_imu < scan'.end
    BY <1>3, <2>1, <2>2, PushKeepsInv DEF SyncPackages
  <2>3. CASE ~(last_timestamp_imu < scan'.end)
    <3>1. scan'.end \in Nat /\ last_timestamp_imu \in Int
      BY <2>1, PushedScan, Numbers DEF SyncInv
    <3>2. last_timestamp_imu >= scan'.end /\ HandOn(scan'.end)
      BY <1>3, <2>3, <3>1 DEF SyncPackages
    <3> QED
      BY <2>1, <3>2, HandOnKeepsInv
  <2> QED
    BY <2>2, <2>3
<1>4. CASE UNCHANGED vars
  BY <1>4 DEF vars, buffers, newest, sync, prediction, SyncInv, SyncTypeOK, NewestInv,
     AlignedInv, ScansHaveTheirStamps, BehindInv, AheadInv, Sorted
<1> QED
  BY <1>1, <1>2, <1>3, <1>4 DEF Next, Waits

LEMMA SyncInvariant == Spec => []SyncInv
BY InitInv, NextKeepsInv, PTL DEF Spec

-----------------------------------------------------------------------------
(* Theorems *)

\* The variables have their types and the IMU messages that wait are in order, for
\* every number of clocks set back.
THEOREM SyncTypeCorrect == Spec => []SyncTypeOK
BY SyncInvariant, PTL DEF SyncInv

\* A scan is handed on with its own stamp unless the lidar's clock was set back while
\* scans waited, however many sync_packages() let wait and whatever the IMU did.
THEOREM ScansKeepTheirStamps == Spec => []ScansHaveTheirStamps
<1>1. SyncInv => ScansHaveTheirStamps
  BY DEF SyncInv, AlignedInv
<1> QED
  BY <1>1, SyncInvariant, PTL

\* The steps of UndistortPcl come to the time between the ends of two scans, once.
THEOREM TimePredictedOnce == Spec => PredictedOnce
<1> DEFINE Changed == <<predicted, last_lidar_end_time>>' # <<predicted, last_lidar_end_time>>
           Once == /\ last_imu' >= last_lidar_end_time =>
                         predicted' = last_lidar_end_time' - last_lidar_end_time
                   /\ jumps.imu = 0 => last_imu' >= last_lidar_end_time
<1>1. ASSUME SyncInv, Next, estimated, Changed PROVE Once
  <2>1. PICK end \in Nat : HandOn(end)
    <3>1. SyncPackages
      BY <1>1 DEF Next, LidarCbk, ImuCbk, Waits, vars, prediction
    <3>2. HandOn(scan'.end)
      BY <1>1, <3>1 DEF SyncPackages, prediction
    <3>3. scan'.end \in Nat
      BY <1>1, <3>1, PushedScan DEF SyncPackages
    <3> QED
      BY <3>2, <3>3
  <2> DEFINE g == Handed(end)
  <2>2. /\ g # <<>> /\ last_imu' = g[Len(g)]
        /\ predicted' = Prediction(g, end) /\ last_lidar_end_time' = end
    BY <1>1, <2>1, Processed DEF prediction
  <2>3. /\ g[Len(g)] \in Stamps /\ g[Len(g)] <= end
        /\ jumps.imu = 0 => last_lidar_end_time <= g[Len(g)]
    BY <1>1, <2>2, LastHanded
  <2>4. /\ last_imu \in Nat /\ last_lidar_end_time \in Nat /\ Stamps \subseteq Nat
        /\ last_imu <= last_lidar_end_time
    BY <1>1, Numbers DEF SyncInv, BehindInv
  <2>5. g \in Seq(Nat) /\ Sorted(g)
    <3>1. g \in Seq(Stamps) /\ Sorted(g)
      BY <1>1, HandedOn DEF SyncInv, SyncTypeOK, ImuInOrder
    <3> QED
      BY <3>1, StampsAreNumbers
  <2> HIDE DEF g
  <2>6. ASSUME last_lidar_end_time <= g[Len(g)]
        PROVE  Prediction(g, end) = end - last_lidar_end_time
    BY <2>2, <2>3, <2>4, <2>5, <2>6, PredictionCovers
  <2>7. g[Len(g)] \in Nat
    BY <2>3, <2>4
  <2> QED
    BY <2>2, <2>3, <2>4, <2>6, <2>7
<1>2. ASSUME SyncInv, [Next]_vars
      PROVE  [estimated /\ Changed => Once]_vars
  BY <1>1, <1>2
<1> QED
  BY <1>2, SyncInvariant, PTL DEF Spec, PredictedOnce

\* The end of the scan predicted to never goes back, although sweeps may overlap and how
\* long they take is open: a scan that ends before the one before it gets no messages and
\* is passed over.  Only the IMU's clock set back brings the estimate back in time.
EstimateMovesOn ==
    [][estimated /\ jumps.imu = 0 => last_lidar_end_time' >= last_lidar_end_time]_vars

THEOREM NeverPredictsBackwards == Spec => EstimateMovesOn
<1>1. ASSUME SyncInv, Next, estimated, jumps.imu = 0
      PROVE  last_lidar_end_time' >= last_lidar_end_time
  <2>1. last_lidar_end_time \in Nat
    BY <1>1 DEF SyncInv, SyncTypeOK
  <2>2. CASE UNCHANGED last_lidar_end_time
    BY <2>1, <2>2
  <2>3. CASE last_lidar_end_time' # last_lidar_end_time
    <3>1. SyncPackages
      BY <1>1, <2>3 DEF Next, LidarCbk, ImuCbk, Waits, vars, prediction
    <3>2. HandOn(scan'.end) /\ scan'.end \in Nat
      BY <1>1, <2>3, <3>1, PushedScan DEF SyncPackages, prediction
    <3>3. Handed(scan'.end) # <<>> /\ last_lidar_end_time' = scan'.end
      BY <1>1, <2>3, <3>2, Processed DEF prediction
    <3> DEFINE last == Handed(scan'.end)[Len(Handed(scan'.end))]
    <3>4. last \in Nat /\ last <= scan'.end /\ last_lidar_end_time <= last
      BY <1>1, <3>2, <3>3, LastHanded, Numbers DEF SyncInv
    <3> HIDE DEF last
    <3> QED
      BY <2>1, <3>2, <3>3, <3>4
  <2> QED
    BY <2>2, <2>3
<1>2. ASSUME SyncInv, [Next]_vars
      PROVE  [estimated /\ jumps.imu = 0 => last_lidar_end_time' >= last_lidar_end_time]_vars
  BY <1>1, <1>2
<1> QED
  BY <1>2, SyncInvariant, PTL DEF Spec, EstimateMovesOn
=============================================================================

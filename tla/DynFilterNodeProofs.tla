------------------------- MODULE DynFilterNodeProofs -------------------------
(***************************************************************************)
(* Proofs about BoundedFrameQueue and about DynFilterNode, whose processing*)
(* thread it feeds.                                                        *)
(*                                                                         *)
(* The queue's theorems are about QueueSafety alone, for every capacity,   *)
(* set of stamps, reset gap and set of consumers, and rest on one          *)
(* inductive invariant, QueueTypeOK /\ HistoryInv /\ WakeupInv.            *)
(* Every step of the node is a step of its queue or leaves the queue       *)
(* alone, so they hold of the node as well; they carry the argument about  *)
(* the tracker's clock.                                                    *)
(***************************************************************************)
EXTENDS DynFilterNode, FiniteSetTheorems, TLAPS

-----------------------------------------------------------------------------
(* The queue: invariants *)

\* accepted numbers its frames from one
Numbered == \A i \in 1..Len(accepted) : accepted[i].value = i

\* the queue's clock is the stamp of the newest accepted frame
ClockIsNewest ==
    /\ hasLastStamp <=> accepted # <<>>
    /\ hasLastStamp => lastStamp = accepted[Len(accepted)].stamp

\* nothing a consumer received is numbered beyond what has left the queue
TakenHasLeft == \A i \in 1..Len(taken) : taken[i].value <= Removed

HistoryInv ==
    /\ Numbered
    /\ ClockIsNewest
    /\ PendingIsNewest
    /\ AcceptedStampsOrdered
    /\ TakenHasLeft
    /\ DeliveredInOrder

WakeupInv == NoLostWakeup /\ NobodySleepsWhenClosed

USE DEF Results

-----------------------------------------------------------------------------
(* Type correctness *)

LEMMA AcceptType ==
    ASSUME QueueTypeOK, NEW s \in Stamps, Accept(s)
    PROVE  QueueTypeOK'
<1> DEFINE f == [value |-> Len(accepted) + 1, stamp |-> s]
<1>1. f \in Entry
  BY DEF QueueTypeOK, Entry
<1>2. Backlog \in Seq(Entry) /\ Len(Backlog) < Capacity
  BY CapacityAssumption DEF Backlog, MustEvict, QueueTypeOK
<1>3. pending' \in Seq(Entry) /\ Len(pending') <= Capacity
  BY <1>1, <1>2, CapacityAssumption DEF Accept
<1>4. waitState' \in [Consumers -> {"idle", "blocked", "woken"}]
  BY DEF Accept, NotifyOne, Blocked, QueueTypeOK
<1>5. accepted' \in Seq(Entry)
  BY <1>1 DEF Accept, QueueTypeOK
<1>6. droppedOldestCount' \in Nat /\ lastStamp' \in Nat /\ hasLastStamp' \in BOOLEAN
  BY StampsAssumption DEF Accept, QueueTypeOK
<1>7. pushResult' \in Results \cup {"none"}
  BY DEF Accept
<1> QED
  BY <1>3, <1>4, <1>5, <1>6, <1>7 DEF QueueTypeOK, Accept

LEMMA TakeType ==
    ASSUME QueueTypeOK, NEW c \in Consumers, TakeLocked(c),
           waitState' \in [Consumers -> {"idle", "blocked", "woken"}]
    PROVE  QueueTypeOK'
<1>1. CASE pending = <<>>
  BY <1>1 DEF TakeLocked, takeUnchanged, QueueTypeOK
<1>2. CASE pending # <<>>
  <2>1. Head(pending) \in Entry /\ Tail(pending) \in Seq(Entry)
        /\ Len(Tail(pending)) = Len(pending) - 1
    BY <1>2 DEF QueueTypeOK
  <2>2. pending' = Tail(pending) /\ taken' = Append(taken, Head(pending))
        /\ got' = [got EXCEPT ![c] = Head(pending)]
    BY <1>2 DEF TakeLocked, takeUnchanged
  <2>3. pending' \in Seq(Entry) /\ Len(pending') <= Capacity
    BY <2>1, <2>2, CapacityAssumption DEF QueueTypeOK
  <2>4. taken' \in Seq(Entry) /\ got' \in [Consumers -> Entry \cup {NoEntry}]
    BY <2>1, <2>2 DEF QueueTypeOK
  <2> QED
    BY <2>3, <2>4 DEF TakeLocked, takeUnchanged, QueueTypeOK
<1> QED
  BY <1>1, <1>2

\* The types hold in every state, in particular the queue never holds more
\* than Capacity frames.
THEOREM QueueTypeCorrect == QueueSafety => []QueueTypeOK
<1>1. QueueInit => QueueTypeOK
  <2> SUFFICES ASSUME QueueInit PROVE QueueTypeOK
    OBVIOUS
  <2>1. <<>> \in Seq(Entry) /\ Len(<<>>) = 0
    OBVIOUS
  <2>2. waitState \in [Consumers -> {"idle", "blocked", "woken"}]
        /\ got \in [Consumers -> Entry \cup {NoEntry}]
    BY DEF QueueInit
  <2>3. pending \in Seq(Entry) /\ Len(pending) = 0
        /\ accepted \in Seq(Entry) /\ taken \in Seq(Entry)
    BY <2>1 DEF QueueInit
  <2>4. Len(pending) <= Capacity
    BY <2>3, CapacityAssumption
  <2>5. closed \in BOOLEAN /\ hasLastStamp \in BOOLEAN /\ lastStamp \in Nat
        /\ droppedOldestCount \in Nat /\ pushResult \in Results \cup {"none"}
    BY DEF QueueInit
  <2> QED
    BY <2>2, <2>3, <2>4, <2>5 DEF QueueTypeOK
<1>2. QueueTypeOK /\ [QueueNext]_queueVars => QueueTypeOK'
  <2> SUFFICES ASSUME QueueTypeOK, [QueueNext]_queueVars PROVE QueueTypeOK'
    OBVIOUS
  <2>1. ASSUME NEW s \in Stamps, Push(s) PROVE QueueTypeOK'
    <3>1. CASE Accept(s)
      BY <3>1, AcceptType
    <3>2. CASE RejectClosed \/ RejectOutOfOrder(s)
      BY <3>2 DEF RejectClosed, RejectOutOfOrder, deque, QueueTypeOK
    <3> QED
      BY <2>1, <3>1, <3>2 DEF Push
  <2>2. ASSUME NEW c \in Consumers, TryTake(c) PROVE QueueTypeOK'
    BY <2>2, TakeType DEF TryTake, QueueTypeOK
  <2>3. ASSUME NEW c \in Consumers, Sleep(c) PROVE QueueTypeOK'
    BY <2>3 DEF Sleep, deque, QueueTypeOK
  <2>4. ASSUME NEW c \in Consumers, TakeReady(c) PROVE QueueTypeOK'
    <3>1. waitState' \in [Consumers -> {"idle", "blocked", "woken"}]
      BY <2>4 DEF TakeReady, QueueTypeOK
    <3> QED
      BY <2>4, <3>1, TakeType DEF TakeReady
  <2>5. ASSUME NEW c \in Consumers, SpuriousWake(c) PROVE QueueTypeOK'
    BY <2>5 DEF SpuriousWake, deque, QueueTypeOK
  <2>6. CASE Close
    BY <2>6 DEF Close, NotifyAll, QueueTypeOK
  <2>7. CASE UNCHANGED queueVars
    BY <2>7 DEF queueVars, deque, QueueTypeOK
  <2> QED
    BY <2>1, <2>2, <2>3, <2>4, <2>5, <2>6, <2>7 DEF QueueNext, WaitAndTake
<1> QED
  BY <1>1, <1>2, PTL DEF QueueSafety

-----------------------------------------------------------------------------
(* History: what is pending, what was taken, in which order *)

LEMMA AcceptHistory ==
    ASSUME QueueTypeOK, HistoryInv, NEW s \in Stamps, Accept(s)
    PROVE  HistoryInv'
<1> DEFINE n == Len(accepted)
           f == [value |-> n + 1, stamp |-> s]
           evicted == IF MustEvict THEN 1 ELSE 0
<1>0. /\ accepted \in Seq(Entry) /\ pending \in Seq(Entry) /\ taken \in Seq(Entry)
      /\ droppedOldestCount \in Nat /\ Capacity \in Nat \ {0} /\ n \in Nat
      /\ hasLastStamp \in BOOLEAN /\ lastStamp \in Nat /\ s \in Nat /\ ResetGap \in Nat \ {0}
  BY CapacityAssumption, StampsAssumption, ResetGapAssumption DEF QueueTypeOK
<1>1. f \in Entry
  BY <1>0 DEF Entry
<1>2. /\ Len(accepted') = n + 1
      /\ \A i \in 1..n : accepted'[i] = accepted[i]
      /\ accepted'[n + 1] = f
  BY <1>0, <1>1 DEF Accept
<1>3. Removed' = Removed + evicted /\ Removed \in Nat /\ taken' = taken
  BY <1>0 DEF Accept, Removed
<1>4. /\ Backlog \in Seq(Entry)
      /\ Len(Backlog) = Len(pending) - evicted
      /\ \A i \in 1..Len(Backlog) : Backlog[i] = pending[i + evicted]
  <2>1. CASE MustEvict
    <3>1. Len(pending) # 0
      BY <2>1, <1>0 DEF MustEvict
    <3>2. pending # <<>>
      BY <3>1
    <3> QED
      BY <2>1, <3>2, <1>0 DEF Backlog
  <2>2. CASE ~MustEvict
    BY <2>2, <1>0 DEF Backlog
  <2> QED
    BY <2>1, <2>2
<1>5. Numbered'
  BY <1>0, <1>1, <1>2 DEF HistoryInv, Numbered
<1>6. ClockIsNewest'
  BY <1>0, <1>1, <1>2 DEF ClockIsNewest, Accept
<1>7. PendingIsNewest'
  <2>1. pending' = Append(Backlog, f)
    BY DEF Accept
  <2>2. Len(pending') = Len(Backlog) + 1
        /\ (\A i \in 1..Len(Backlog) : pending'[i] = Backlog[i])
        /\ pending'[Len(Backlog) + 1] = f
    BY <2>1, <1>4, <1>1
  <2>3. Len(accepted) = Removed + Len(pending)
        /\ \A i \in 1..Len(pending) : pending[i] = accepted[Removed + i]
    BY DEF HistoryInv, PendingIsNewest
  <2>4. Len(accepted') = Removed' + Len(pending')
    <3>1. Len(pending) \in Nat /\ evicted \in {0, 1} /\ Removed \in Nat
      BY <1>0, <1>3
    <3>2. Len(pending') = (Len(pending) - evicted) + 1
      BY <2>2, <1>4
    <3>3. Removed' = Removed + evicted /\ n = Removed + Len(pending) /\ Len(accepted') = n + 1
      BY <2>3, <1>2, <1>3
    <3> HIDE DEF n, evicted
    <3> QED
      BY <3>1, <3>2, <3>3
  <2>5. ASSUME NEW i \in 1..Len(pending')
        PROVE  pending'[i] = accepted'[Removed' + i]
    <3>1. CASE i = Len(Backlog) + 1
      BY <3>1, <2>2, <2>4, <1>0, <1>2, <1>3, <1>4
    <3>2. CASE i \in 1..Len(Backlog)
      <4>1. pending'[i] = pending[i + evicted] /\ i + evicted \in 1..Len(pending)
        BY <3>2, <2>2, <1>0, <1>4
      <4>2. pending'[i] = accepted[Removed + (i + evicted)]
        BY <4>1, <2>3
      <4>3. Removed + (i + evicted) = Removed' + i /\ Removed' + i \in 1..n
        BY <4>1, <1>0, <1>3, <2>3
      <4> QED
        BY <4>2, <4>3, <1>2
    <3> QED
      BY <2>5, <3>1, <3>2, <2>2, <1>4
  <2> QED
    BY <2>4, <2>5 DEF PendingIsNewest
<1>8. AcceptedStampsOrdered'
  <2> SUFFICES ASSUME NEW i \in 1..n
               PROVE  \/ accepted'[i].stamp < accepted'[i + 1].stamp
                      \/ accepted'[i].stamp - accepted'[i + 1].stamp >= ResetGap
    BY <1>0, <1>2 DEF AcceptedStampsOrdered
  <2>1. CASE i = n
    <3>1. hasLastStamp /\ accepted'[i].stamp = lastStamp /\ accepted'[i + 1].stamp = s
      BY <2>1, <1>0, <1>2 DEF HistoryInv, ClockIsNewest
    <3> QED
      BY <3>1, <1>0 DEF Accept, OutOfOrder
  <2>2. CASE i < n
    <3>1. i \in 1..(n - 1) /\ accepted'[i] = accepted[i] /\ accepted'[i + 1] = accepted[i + 1]
      BY <2>2, <1>0, <1>2
    <3> QED
      BY <3>1 DEF HistoryInv, AcceptedStampsOrdered
  <2> QED
    BY <2>1, <2>2, <1>0
<1>9. TakenHasLeft'
  <2>1. \A i \in 1..Len(taken) : taken[i] \in Entry
    BY <1>0
  <2>2. \A e \in Entry : e.value \in Nat
    BY DEF Entry
  <2>3. \A i \in 1..Len(taken) : taken[i].value \in Nat /\ taken[i].value <= Removed
    BY <2>1, <2>2 DEF HistoryInv, TakenHasLeft
  <2>4. Removed' >= Removed /\ Removed' \in Nat
    BY <1>3
  <2> QED
    BY <2>3, <2>4, <1>3 DEF TakenHasLeft
<1>10. DeliveredInOrder'
  BY <1>3 DEF HistoryInv, DeliveredInOrder
<1> QED
  BY <1>5, <1>6, <1>7, <1>8, <1>9, <1>10 DEF HistoryInv

LEMMA HeadIsNextRemoved ==
    ASSUME QueueTypeOK, HistoryInv, pending # <<>>
    PROVE  Head(pending).value = Removed + 1
<1>1. pending \in Seq(Entry) /\ accepted \in Seq(Entry) /\ Removed \in Nat
  BY DEF QueueTypeOK, Removed
<1>2. 1 \in 1..Len(pending) /\ Head(pending) = pending[1]
  BY <1>1
<1>3. Head(pending) = accepted[Removed + 1] /\ Removed + 1 \in 1..Len(accepted)
  BY <1>1, <1>2 DEF HistoryInv, PendingIsNewest
<1> QED
  BY <1>3 DEF HistoryInv, Numbered

LEMMA TakeHistory ==
    ASSUME QueueTypeOK, HistoryInv, NEW c \in Consumers, TakeLocked(c)
    PROVE  HistoryInv'
<1>1. CASE pending = <<>>
  BY <1>1 DEF TakeLocked, takeUnchanged, HistoryInv, Numbered, ClockIsNewest, PendingIsNewest,
              AcceptedStampsOrdered, TakenHasLeft, DeliveredInOrder, Removed
<1>2. CASE pending # <<>>
  <2>0. /\ pending \in Seq(Entry) /\ taken \in Seq(Entry) /\ droppedOldestCount \in Nat
        /\ Removed \in Nat
    BY DEF QueueTypeOK, Removed
  <2>1. /\ pending' = Tail(pending) /\ taken' = Append(taken, Head(pending))
        /\ UNCHANGED <<hasLastStamp, lastStamp, droppedOldestCount, accepted>>
    BY <1>2 DEF TakeLocked, takeUnchanged
  <2>2. Len(pending') = Len(pending) - 1
        /\ \A i \in 1..Len(pending') : pending'[i] = pending[i + 1]
    BY <1>2, <2>0, <2>1
  <2>3. Head(pending) \in Entry /\ Head(pending).value = Removed + 1
    BY <1>2, <2>0, HeadIsNextRemoved
  <2>4. /\ Len(taken') = Len(taken) + 1
        /\ \A i \in 1..Len(taken) : taken'[i] = taken[i]
        /\ taken'[Len(taken) + 1] = Head(pending)
    BY <2>0, <2>1, <2>3
  <2>5. Removed' = Removed + 1
    BY <2>0, <2>1, <2>4 DEF Removed
  <2>6. \A i \in 1..Len(taken) : taken[i].value \in Nat /\ taken[i].value <= Removed
    <3>1. \A i \in 1..Len(taken) : taken[i] \in Entry
      BY <2>0
    <3>2. \A e \in Entry : e.value \in Nat
      BY DEF Entry
    <3> QED
      BY <3>1, <3>2 DEF HistoryInv, TakenHasLeft
  <2>7. Numbered' /\ ClockIsNewest' /\ AcceptedStampsOrdered'
    BY <2>1 DEF HistoryInv, Numbered, ClockIsNewest, AcceptedStampsOrdered
  <2>8. PendingIsNewest'
    <3>1. /\ Len(accepted) = Removed + Len(pending)
          /\ \A i \in 1..Len(pending) : pending[i] = accepted[Removed + i]
      BY DEF HistoryInv, PendingIsNewest
    <3>2. Len(accepted') = Removed' + Len(pending')
      <4>1. Len(pending) \in Nat /\ accepted' = accepted
        BY <2>0, <2>1
      <4> QED
        BY <4>1, <2>0, <2>2, <2>5, <3>1
    <3>3. ASSUME NEW i \in 1..Len(pending')
          PROVE  pending'[i] = accepted'[Removed' + i]
      <4>1. i + 1 \in 1..Len(pending) /\ Removed' + i = Removed + (i + 1)
        BY <2>0, <2>2, <2>5
      <4>2. pending'[i] = accepted[Removed + (i + 1)]
        BY <4>1, <2>2, <3>1
      <4> QED
        BY <4>1, <4>2, <2>1
    <3> QED
      BY <3>2, <3>3 DEF PendingIsNewest
  <2>9. TakenHasLeft'
    BY <2>0, <2>3, <2>4, <2>5, <2>6 DEF TakenHasLeft
  <2>10. DeliveredInOrder'
    <3> SUFFICES ASSUME NEW i \in 1..Len(taken'), NEW j \in 1..Len(taken'), i < j
                 PROVE  taken'[i].value < taken'[j].value
      BY DEF DeliveredInOrder
    <3>1. i \in 1..Len(taken) /\ taken'[i] = taken[i]
      BY <2>0, <2>4
    <3>2. CASE j = Len(taken) + 1
      BY <3>1, <3>2, <2>0, <2>3, <2>4, <2>6
    <3>3. CASE j \in 1..Len(taken)
      BY <3>1, <3>3, <2>4 DEF HistoryInv, DeliveredInOrder
    <3> QED
      BY <3>2, <3>3, <2>0, <2>4
  <2> QED
    BY <2>7, <2>8, <2>9, <2>10 DEF HistoryInv
<1> QED
  BY <1>1, <1>2

LEMMA UnchangedHistory ==
    ASSUME HistoryInv, UNCHANGED <<deque, accepted, taken>>
    PROVE  HistoryInv'
BY DEF deque, HistoryInv, Numbered, ClockIsNewest, PendingIsNewest,
       AcceptedStampsOrdered, TakenHasLeft, DeliveredInOrder, Removed

LEMMA HistoryInvariant == QueueSafety => []HistoryInv
<1>1. QueueInit => HistoryInv
  <2> SUFFICES ASSUME QueueInit PROVE HistoryInv
    OBVIOUS
  <2>1. Len(accepted) = 0 /\ Len(pending) = 0 /\ Len(taken) = 0 /\ Removed = 0
    BY DEF QueueInit, Removed
  <2> QED
    BY <2>1 DEF QueueInit, HistoryInv, Numbered, ClockIsNewest, PendingIsNewest,
                AcceptedStampsOrdered, TakenHasLeft, DeliveredInOrder
<1>2. QueueTypeOK /\ HistoryInv /\ [QueueNext]_queueVars => HistoryInv'
  <2> SUFFICES ASSUME QueueTypeOK, HistoryInv, [QueueNext]_queueVars PROVE HistoryInv'
    OBVIOUS
  <2>1. ASSUME NEW s \in Stamps, Push(s) PROVE HistoryInv'
    BY <2>1, AcceptHistory, UnchangedHistory DEF Push, RejectClosed, RejectOutOfOrder
  <2>2. ASSUME NEW c \in Consumers, TryTake(c) \/ TakeReady(c) PROVE HistoryInv'
    BY <2>2, TakeHistory DEF TryTake, TakeReady
  <2>3. ASSUME NEW c \in Consumers, Sleep(c) \/ SpuriousWake(c) PROVE HistoryInv'
    BY <2>3, UnchangedHistory DEF Sleep, SpuriousWake
  <2>4. CASE Close
    BY <2>4 DEF Close, HistoryInv, Numbered, ClockIsNewest, PendingIsNewest,
                AcceptedStampsOrdered, TakenHasLeft, DeliveredInOrder, Removed
  <2>5. CASE UNCHANGED queueVars
    BY <2>5, UnchangedHistory DEF queueVars
  <2> QED
    BY <2>1, <2>2, <2>3, <2>4, <2>5 DEF QueueNext, WaitAndTake
<1> QED
  BY <1>1, <1>2, QueueTypeCorrect, PTL DEF QueueSafety

\* Only the oldest pending frame ever leaves the queue, and every accepted
\* frame is delivered, counted as dropped, or pending.
THEOREM NothingElseIsLost == QueueSafety => []PendingIsNewest
<1>1. HistoryInv => PendingIsNewest
  BY DEF HistoryInv
<1> QED
  BY <1>1, HistoryInvariant, PTL

\* Consumers together receive frames in acceptance order, none twice.
THEOREM DeliveryInOrder == QueueSafety => []DeliveredInOrder
<1>1. HistoryInv => DeliveredInOrder
  BY DEF HistoryInv
<1> QED
  BY <1>1, HistoryInvariant, PTL

\* Accepted stamps move forward or back by at least the reset gap.
THEOREM StampOrder == QueueSafety => []AcceptedStampsOrdered
<1>1. HistoryInv => AcceptedStampsOrdered
  BY DEF HistoryInv
<1> QED
  BY <1>1, HistoryInvariant, PTL

-----------------------------------------------------------------------------
(* Wake-ups *)

LEMMA WokenIsFinite == IsFiniteSet(Woken) /\ Cardinality(Woken) \in Nat
BY ConsumersAssumption, FS_Subset, FS_CardinalityType DEF Woken

\* a consumer that becomes woken adds one to the woken ones
LEMMA WakeAddsOne ==
    ASSUME QueueTypeOK, NEW c \in Blocked, waitState' = [waitState EXCEPT ![c] = "woken"]
    PROVE  Cardinality(Woken') = Cardinality(Woken) + 1
<1>1. Woken' = Woken \cup {c} /\ c \notin Woken
  BY DEF QueueTypeOK, Woken, Blocked
<1> QED
  BY <1>1, WokenIsFinite, FS_AddElement

\* a consumer that stops being woken removes one
LEMMA LeaveRemovesOne ==
    ASSUME QueueTypeOK, NEW c \in Woken, NEW st \in {"idle", "blocked"},
           waitState' = [waitState EXCEPT ![c] = st]
    PROVE  Cardinality(Woken') = Cardinality(Woken) - 1
<1>1. Woken' = Woken \ {c}
  BY DEF QueueTypeOK, Woken
<1> QED
  BY <1>1, WokenIsFinite, FS_RemoveElement

LEMMA AcceptWakeup ==
    ASSUME QueueTypeOK, WakeupInv, NEW s \in Stamps, Accept(s)
    PROVE  WakeupInv'
<1>1. NobodySleepsWhenClosed'
  BY DEF NobodySleepsWhenClosed, Accept
<1>2. ASSUME Blocked' # {} PROVE Cardinality(Woken') >= Len(pending')
  <2>1. Blocked # {}
    BY <1>2 DEF Accept, NotifyOne, Blocked
  <2>2. PICK c \in Blocked : waitState' = [waitState EXCEPT ![c] = "woken"]
    BY <2>1 DEF Accept, NotifyOne
  <2>3. Cardinality(Woken') = Cardinality(Woken) + 1
    BY <2>2, WakeAddsOne
  <2>4. Cardinality(Woken) >= Len(pending)
    BY <2>1 DEF WakeupInv, NoLostWakeup
  <2>5. Len(pending') \in Nat /\ Len(pending) \in Nat /\ Len(pending') <= Len(pending) + 1
    <3> DEFINE f == [value |-> Len(accepted) + 1, stamp |-> s]
    <3>1. pending \in Seq(Entry) /\ f \in Entry
      BY DEF QueueTypeOK, Entry
    <3>2. Backlog \in Seq(Entry) /\ Len(Backlog) <= Len(pending)
      BY <3>1, CapacityAssumption DEF Backlog, MustEvict
    <3>3. pending' = Append(Backlog, f)
      BY DEF Accept
    <3> HIDE DEF f
    <3> QED
      BY <3>1, <3>2, <3>3
  <2> QED
    BY <2>3, <2>4, <2>5, WokenIsFinite
<1> QED
  BY <1>1, <1>2 DEF WakeupInv, NoLostWakeup

\* a take leaves no more pending, and one less if there was any
LEMMA TakeShrinks ==
    ASSUME QueueTypeOK, NEW c \in Consumers, TakeLocked(c)
    PROVE  /\ Len(pending') \in Nat /\ Len(pending) \in Nat
           /\ pending # <<>> => Len(pending') = Len(pending) - 1
           /\ pending = <<>> => Len(pending') = Len(pending)
BY DEF QueueTypeOK, TakeLocked, takeUnchanged

LEMMA TakeReadyWakeup ==
    ASSUME QueueTypeOK, WakeupInv, NEW c \in Consumers, TakeReady(c)
    PROVE  WakeupInv'
<1>1. Blocked' = Blocked /\ closed' = closed
  BY DEF TakeReady, TakeLocked, takeUnchanged, Blocked, QueueTypeOK
<1>2. NobodySleepsWhenClosed'
  BY <1>1 DEF WakeupInv, NobodySleepsWhenClosed
<1>3. ASSUME Blocked # {} PROVE Cardinality(Woken') >= Len(pending')
  <2>1. pending # <<>>
    BY <1>3 DEF WakeupInv, NobodySleepsWhenClosed, TakeReady, Ready
  <2>2. Len(pending') = Len(pending) - 1 /\ Len(pending) \in Nat
    BY <2>1, TakeShrinks DEF TakeReady
  <2>3. Cardinality(Woken) >= Len(pending)
    BY <1>3 DEF WakeupInv, NoLostWakeup
  <2>4. CASE waitState[c] = "idle"
    <3>1. Woken' = Woken
      BY <2>4 DEF TakeReady, Woken, QueueTypeOK
    <3> QED
      BY <3>1, <2>2, <2>3, WokenIsFinite
  <2>5. CASE waitState[c] = "woken"
    <3>1. c \in Woken
      BY <2>5 DEF Woken
    <3>2. Cardinality(Woken') = Cardinality(Woken) - 1
      BY <3>1, LeaveRemovesOne DEF TakeReady
    <3> QED
      BY <3>2, <2>2, <2>3, WokenIsFinite
  <2> QED
    BY <2>4, <2>5 DEF TakeReady
<1> QED
  BY <1>1, <1>2, <1>3 DEF WakeupInv, NoLostWakeup

LEMMA TryTakeWakeup ==
    ASSUME QueueTypeOK, WakeupInv, NEW c \in Consumers, TryTake(c)
    PROVE  WakeupInv'
<1>1. Blocked' = Blocked /\ Woken' = Woken /\ closed' = closed
  BY DEF TryTake, TakeLocked, takeUnchanged, Blocked, Woken
<1>2. Len(pending') \in Nat /\ Len(pending) \in Nat /\ Len(pending') <= Len(pending)
  BY TakeShrinks DEF TryTake
<1> QED
  BY <1>1, <1>2, WokenIsFinite DEF WakeupInv, NoLostWakeup, NobodySleepsWhenClosed

LEMMA SleepWakeup ==
    ASSUME QueueTypeOK, WakeupInv, NEW c \in Consumers, Sleep(c)
    PROVE  WakeupInv'
<1>1. pending' = <<>> /\ ~closed'
  BY DEF Sleep, Ready, deque
<1>2. Len(pending') = 0
  BY <1>1
<1>3. IsFiniteSet(Woken') /\ Cardinality(Woken') \in Nat
  BY ConsumersAssumption, FS_Subset, FS_CardinalityType DEF Woken
<1> QED
  BY <1>1, <1>2, <1>3 DEF WakeupInv, NoLostWakeup, NobodySleepsWhenClosed

LEMMA SpuriousWakeup ==
    ASSUME QueueTypeOK, WakeupInv, NEW c \in Consumers, SpuriousWake(c)
    PROVE  WakeupInv'
<1>1. c \in Blocked /\ Blocked' \subseteq Blocked /\ closed' = closed /\ pending' = pending
  BY DEF SpuriousWake, Blocked, QueueTypeOK, deque
<1>2. Cardinality(Woken') = Cardinality(Woken) + 1
  BY <1>1, WakeAddsOne DEF SpuriousWake
<1>3. Len(pending) \in Nat
  BY DEF QueueTypeOK
<1>4. ~closed' /\ Cardinality(Woken) >= Len(pending)
  BY <1>1 DEF WakeupInv, NoLostWakeup, NobodySleepsWhenClosed
<1> QED
  BY <1>1, <1>2, <1>3, <1>4, WokenIsFinite DEF WakeupInv, NoLostWakeup, NobodySleepsWhenClosed

LEMMA WakeupInvariant == QueueSafety => []WakeupInv
<1>1. QueueInit => WakeupInv
  BY DEF QueueInit, WakeupInv, NoLostWakeup, NobodySleepsWhenClosed, Blocked
<1>2. QueueTypeOK /\ WakeupInv /\ [QueueNext]_queueVars => WakeupInv'
  <2> SUFFICES ASSUME QueueTypeOK, WakeupInv, [QueueNext]_queueVars PROVE WakeupInv'
    OBVIOUS
  <2>1. ASSUME UNCHANGED <<pending, closed, waitState>> PROVE WakeupInv'
    BY <2>1 DEF WakeupInv, NoLostWakeup, NobodySleepsWhenClosed, Blocked, Woken
  <2>2. ASSUME NEW s \in Stamps, Push(s) PROVE WakeupInv'
    <3>1. CASE RejectClosed \/ RejectOutOfOrder(s)
      BY <3>1, <2>1 DEF RejectClosed, RejectOutOfOrder, deque
    <3> QED
      BY <2>2, <3>1, AcceptWakeup DEF Push
  <2>3. CASE Close
    <3>1. Blocked' = {}
      BY <2>3 DEF Close, NotifyAll, Blocked
    <3> QED
      BY <3>1 DEF WakeupInv, NoLostWakeup, NobodySleepsWhenClosed
  <2>4. CASE UNCHANGED queueVars
    BY <2>1, <2>4 DEF queueVars, deque
  <2>5. CASE \E c \in Consumers : TryTake(c) \/ WaitAndTake(c) \/ SpuriousWake(c)
    BY <2>5, TryTakeWakeup, TakeReadyWakeup, SleepWakeup, SpuriousWakeup DEF WaitAndTake
  <2> QED
    BY <2>2, <2>3, <2>4, <2>5 DEF QueueNext
<1> QED
  BY <1>1, <1>2, QueueTypeCorrect, PTL DEF QueueSafety

\* One notify_one per push is enough for any number of consumers: a sleeping
\* consumer always has as many woken colleagues as there are pending frames.
THEOREM WakeupsSuffice == QueueSafety => []NoLostWakeup
<1>1. WakeupInv => NoLostWakeup
  BY DEF WakeupInv
<1> QED
  BY <1>1, WakeupInvariant, PTL

\* After close() no consumer sleeps in waitAndTake().
THEOREM CloseWakesAll == QueueSafety => []NobodySleepsWhenClosed
<1>1. WakeupInv => NobodySleepsWhenClosed
  BY DEF WakeupInv
<1> QED
  BY <1>1, WakeupInvariant, PTL

-----------------------------------------------------------------------------
(* Refinement of the lossy window *)

LEMMA AcceptIsOffer ==
    ASSUME QueueTypeOK, HistoryInv, NEW s \in Stamps, Accept(s)
    PROVE  Window!Offer
<1> DEFINE f == [value |-> Len(accepted) + 1, stamp |-> s]
<1>1. accepted \in Seq(Entry) /\ f \in Entry /\ Len(pending) \in Nat /\ Removed \in Nat
      /\ Len(taken) \in Nat /\ droppedOldestCount \in Nat /\ closed \in BOOLEAN
  BY DEF QueueTypeOK, Entry, Removed
<1>2. Len(accepted') = Len(accepted) + 1
  <2> HIDE DEF f
  <2>1. accepted' = Append(accepted, f)
    BY DEF Accept, f
  <2> QED
    BY <2>1, <1>1
<1>3. Len(accepted) - Removed = Len(pending)
  BY <1>1 DEF HistoryInv, PendingIsNewest
<1>4. Removed' = IF Len(accepted) - Removed >= Capacity THEN Removed + 1 ELSE Removed
  <2>1. taken' = taken
        /\ droppedOldestCount' = droppedOldestCount + (IF MustEvict THEN 1 ELSE 0)
    BY DEF Accept
  <2> QED
    BY <2>1, <1>1, <1>3 DEF Removed, MustEvict
<1>5. LastTaken' = LastTaken /\ (~closed)' = (~closed) /\ ~closed
  BY DEF Accept, LastTaken
<1> QED
  BY <1>2, <1>4, <1>5 DEF Window!Offer

LEMMA TakeIsDeliver ==
    ASSUME QueueTypeOK, HistoryInv, NEW c \in Consumers, TakeLocked(c)
    PROVE  Window!Deliver \/ UNCHANGED Window!window
<1>1. CASE pending = <<>>
  BY <1>1 DEF TakeLocked, takeUnchanged, Window!window, Removed, LastTaken
<1>2. CASE pending # <<>>
  <2>1. /\ pending \in Seq(Entry) /\ taken \in Seq(Entry) /\ Removed \in Nat
        /\ droppedOldestCount \in Nat /\ Len(taken) \in Nat
    BY DEF QueueTypeOK, Removed
  <2>2. Head(pending) \in Entry /\ Len(pending) >= 1
    BY <1>2, <2>1
  <2>3. taken' = Append(taken, Head(pending))
        /\ UNCHANGED <<closed, droppedOldestCount, accepted>>
    BY <1>2 DEF TakeLocked, takeUnchanged
  <2>4. Len(taken') = Len(taken) + 1 /\ taken' # <<>> /\ taken'[Len(taken')] = Head(pending)
    BY <2>1, <2>2, <2>3
  <2>5. Removed' = Removed + 1
    BY <2>1, <2>3, <2>4 DEF Removed
  <2>6. LastTaken' = Removed + 1
    BY <1>2, <2>4, HeadIsNextRemoved DEF LastTaken
  <2>7. Removed < Len(accepted)
    BY <2>1, <2>2 DEF HistoryInv, PendingIsNewest
  <2> QED
    BY <2>3, <2>5, <2>6, <2>7 DEF Window!Deliver
<1> QED
  BY <1>1, <1>2

\* The queue refines the lossy window: whatever threads push, take and close,
\* the counts of accepted and removed frames move as the window's do.
THEOREM Refinement == QueueSafety => ImplementsWindow
<1>1. QueueInit => Window!Init
  <2> SUFFICES ASSUME QueueInit PROVE Window!Init
    OBVIOUS
  <2>1. Len(accepted) = 0 /\ Len(taken) = 0
    BY DEF QueueInit
  <2> QED
    BY <2>1 DEF QueueInit, Window!Init, Removed, LastTaken
<1>2. QueueTypeOK /\ HistoryInv /\ [QueueNext]_queueVars => [Window!Next]_Window!window
  <2> SUFFICES ASSUME QueueTypeOK, HistoryInv, [QueueNext]_queueVars
               PROVE  Window!Next \/ UNCHANGED Window!window
    OBVIOUS
  <2>1. ASSUME UNCHANGED <<deque, accepted, taken>> PROVE UNCHANGED Window!window
    BY <2>1 DEF deque, Window!window, Removed, LastTaken
  <2>2. ASSUME NEW s \in Stamps, Push(s) PROVE Window!Next \/ UNCHANGED Window!window
    BY <2>1, <2>2, AcceptIsOffer DEF Push, RejectClosed, RejectOutOfOrder, Window!Next
  <2>3. ASSUME NEW c \in Consumers, TryTake(c) \/ TakeReady(c)
        PROVE  Window!Next \/ UNCHANGED Window!window
    BY <2>3, TakeIsDeliver DEF TryTake, TakeReady, Window!Next
  <2>4. ASSUME NEW c \in Consumers, Sleep(c) \/ SpuriousWake(c)
        PROVE  UNCHANGED Window!window
    BY <2>1, <2>4 DEF Sleep, SpuriousWake
  <2>5. CASE Close
    BY <2>5 DEF Close, Window!Next, Window!Shut, Removed, LastTaken
  <2>6. CASE UNCHANGED queueVars
    BY <2>1, <2>6 DEF queueVars
  <2> QED
    BY <2>2, <2>3, <2>4, <2>5, <2>6 DEF QueueNext, WaitAndTake
<1> QED
  BY <1>1, <1>2, QueueTypeCorrect, HistoryInvariant, PTL
     DEF QueueSafety, ImplementsWindow, Window!Spec

-----------------------------------------------------------------------------
(* The node runs the queue *)

LEMMA ThreadExists == w \in Consumers
BY ThreadAssumption DEF w

\* the worker holds a frame
Holding == worker \in {"filtering", "tracking", "publishing"}

HoldingInv == Holding => frame \in Entry

LEMMA NodeStepIsQueueStep ==
    ASSUME [NodeNext]_nodeVars
    PROVE  [QueueNext]_queueVars
<1>1. CASE UNCHANGED queueVars
  BY <1>1
<1>2. ASSUME NEW cloud \in Stamps, NEW odom \in Stamps, SynchronizedInputCallback(cloud, odom)
      PROVE  QueueNext
  BY <1>2 DEF SynchronizedInputCallback, QueueNext
<1>3. CASE WorkerWaits \/ WorkerTakes \/ WorkerWoken
  BY <1>3, ThreadExists DEF WorkerWaits, WorkerTakes, WorkerWoken, QueueNext, WaitAndTake
<1>4. CASE Shutdown
  BY <1>4 DEF Shutdown, QueueNext
<1>5. CASE FrameFails \/ FilterReturns \/ StaleFrame \/ FrameDone \/ Join \/ Exited
  BY <1>1, <1>5 DEF FrameFails, FilterReturns, StaleFrame, FrameDone, Join, Exited, nodeVars
<1>6. CASE \E succeeds \in BOOLEAN : TrackerUpdate(succeeds)
  BY <1>1, <1>6 DEF TrackerUpdate
<1>7. CASE UNCHANGED nodeVars
  BY <1>1, <1>7 DEF nodeVars
<1> QED
  BY <1>2, <1>3, <1>4, <1>5, <1>6, <1>7 DEF NodeNext, Worker

\* The node uses its queue only through the queue's own operations.
THEOREM NodeRunsTheQueue == NodeSafety => QueueSafety
<1>1. NodeInit => QueueInit
  BY DEF NodeInit
<1>2. [NodeNext]_nodeVars => [QueueNext]_queueVars
  BY NodeStepIsQueueStep
<1> QED
  BY <1>1, <1>2, PTL DEF NodeSafety, QueueSafety

-----------------------------------------------------------------------------
(* Types *)

NodeVarsTypeOK ==
    /\ main \in {"spinning", "joining", "exited"}
    /\ worker \in {"taking", "filtering", "tracking", "publishing", "ended"}
    /\ trackerStamp \in Stamps \cup {0}
    /\ tracks \subseteq Stamps
    /\ published \in Seq(Publication)
    /\ failures \in Nat

LEMMA PublishType ==
    ASSUME frame \in Entry, published \in Seq(Publication),
           NEW kind \in {"tracks", "empty"}, Publish(kind)
    PROVE  published' \in Seq(Publication)
<1> DEFINE p == [value |-> frame.value, stamp |-> frame.stamp, kind |-> kind]
<1>1. p \in Publication
  BY DEF Entry, Publication
<1>2. published' = Append(published, p)
  BY DEF Publish
<1> HIDE DEF p
<1> QED
  BY <1>1, <1>2

LEMMA NodeTypeInvariant == NodeSafety => [](NodeVarsTypeOK /\ HoldingInv)
<1>1. NodeInit => NodeVarsTypeOK /\ HoldingInv
  <2> SUFFICES ASSUME NodeInit PROVE NodeVarsTypeOK /\ HoldingInv
    OBVIOUS
  <2>1. published \in Seq(Publication)
    BY DEF NodeInit
  <2> QED
    BY <2>1 DEF NodeInit, NodeVarsTypeOK, HoldingInv, Holding
<1>2. QueueTypeOK /\ NodeVarsTypeOK /\ HoldingInv /\ [NodeNext]_nodeVars
      => (NodeVarsTypeOK /\ HoldingInv)'
  <2> SUFFICES ASSUME QueueTypeOK, NodeVarsTypeOK, HoldingInv, [NodeNext]_nodeVars
               PROVE  (NodeVarsTypeOK /\ HoldingInv)'
    OBVIOUS
  <2> USE DEF NodeVarsTypeOK, HoldingInv, Holding, frame, trackerVars
  <2>1. ASSUME NEW cloud \in Stamps, NEW odom \in Stamps, SynchronizedInputCallback(cloud, odom)
        PROVE  (NodeVarsTypeOK /\ HoldingInv)'
    BY <2>1 DEF SynchronizedInputCallback, Push, RejectClosed, RejectOutOfOrder, Accept
  <2>2. CASE WorkerWaits \/ WorkerWoken
    BY <2>2 DEF WorkerWaits, WorkerWoken, Sleep, SpuriousWake
  <2>3. CASE WorkerTakes
    <3>1. got'[w] \in Entry \cup {NoEntry}
      <4>1. TakeLocked(w) /\ waitState' \in [Consumers -> {"idle", "blocked", "woken"}]
        BY <2>3, ThreadExists DEF WorkerTakes, TakeReady, QueueTypeOK
      <4>2. QueueTypeOK'
        BY <4>1, ThreadExists, TakeType
      <4> QED
        BY <4>2, ThreadExists DEF QueueTypeOK
    <3> QED
      BY <2>3, <3>1 DEF WorkerTakes
  <2>4. CASE FrameFails \/ FilterReturns \/ FrameDone
    BY <2>4 DEF FrameFails, FilterReturns, FrameDone, queueVars
  <2>5. CASE StaleFrame
    <3>1. published' \in Seq(Publication)
      BY <2>5, PublishType DEF StaleFrame
    <3> QED
      BY <2>5, <3>1 DEF StaleFrame, queueVars
  <2>6. ASSUME NEW succeeds \in BOOLEAN, TrackerUpdate(succeeds)
        PROVE  (NodeVarsTypeOK /\ HoldingInv)'
    <3>1. published' \in Seq(Publication)
      BY <2>6, PublishType DEF TrackerUpdate
    <3>2. frame \in Entry /\ frame.stamp \in Stamps
      BY <2>6 DEF TrackerUpdate, Entry
    <3>3. SurvivingTracks \subseteq Stamps
      BY DEF SurvivingTracks
    <3>4. failures' \in Nat
      BY <2>6 DEF TrackerUpdate
    <3> QED
      BY <2>6, <3>1, <3>2, <3>3, <3>4 DEF TrackerUpdate, queueVars
  <2>7. CASE Shutdown
    BY <2>7 DEF Shutdown, Close
  <2>8. CASE Join
    BY <2>8 DEF Join, queueVars
  <2>9. CASE Exited \/ UNCHANGED nodeVars
    BY <2>9 DEF Exited, nodeVars, queueVars
  <2> QED
    BY <2>1, <2>2, <2>3, <2>4, <2>5, <2>6, <2>7, <2>8, <2>9 DEF NodeNext, Worker
<1> QED
  BY <1>1, <1>2, NodeRunsTheQueue, QueueTypeCorrect, PTL DEF NodeSafety

\* The types hold in every state of the node.
THEOREM NodeTypeCorrect == NodeSafety => []NodeTypeOK
<1>1. QueueTypeOK /\ NodeVarsTypeOK => NodeTypeOK
  BY DEF NodeTypeOK, NodeVarsTypeOK
<1> QED
  BY <1>1, NodeTypeInvariant, NodeRunsTheQueue, QueueTypeCorrect, PTL

-----------------------------------------------------------------------------
(* The tracker's clock *)

\* No track survives a backward jump.
THEOREM TracksRespectClock == NodeSafety => []NoTrackFromTheFuture
<1>1. NodeInit => NoTrackFromTheFuture
  BY DEF NodeInit, NoTrackFromTheFuture
<1>2. NodeVarsTypeOK /\ HoldingInv /\ NoTrackFromTheFuture /\ [NodeNext]_nodeVars
      => NoTrackFromTheFuture'
  <2> SUFFICES ASSUME NodeVarsTypeOK, HoldingInv, NoTrackFromTheFuture, [NodeNext]_nodeVars
               PROVE  NoTrackFromTheFuture'
    OBVIOUS
  <2>1. ASSUME UNCHANGED trackerVars PROVE NoTrackFromTheFuture'
    BY <2>1 DEF trackerVars, NoTrackFromTheFuture
  <2>2. ASSUME NEW succeeds \in BOOLEAN, TrackerUpdate(succeeds)
        PROVE  NoTrackFromTheFuture'
    <3>1. frame.stamp \in Nat /\ trackerStamp \in Nat /\ tracks \subseteq Nat /\ ResetGap \in Nat
      <4>1. frame \in Entry
        BY <2>2 DEF TrackerUpdate, HoldingInv, Holding
      <4>2. frame.stamp \in Stamps
        BY <4>1 DEF Entry
      <4>3. trackerStamp \in Stamps \cup {0} /\ tracks \subseteq Stamps
        BY DEF NodeVarsTypeOK
      <4>4. frame.stamp \in Nat /\ ResetGap \in Nat
        BY <4>2, StampsAssumption, ResetGapAssumption
      <4>5. trackerStamp \in Nat
        BY <4>3, StampsAssumption
      <4>6. tracks \subseteq Nat
        BY <4>3, StampsAssumption
      <4> QED
        BY <4>4, <4>5, <4>6
    <3>2. \A birth \in SurvivingTracks : birth <= frame.stamp
      <4>1. CASE TrackerResets
        BY <4>1 DEF SurvivingTracks
      <4>2. CASE ~TrackerResets
        <5>1. trackerStamp = 0 \/ ~(frame.stamp <= trackerStamp)
          BY <2>2, <3>1, <4>2 DEF TrackerUpdate, TrackerRejects, TrackerResets
        <5>2. trackerStamp <= frame.stamp
          BY <3>1, <5>1
        <5>3. SurvivingTracks = tracks
          BY <4>2 DEF SurvivingTracks
        <5> QED
          BY <3>1, <5>2, <5>3 DEF NoTrackFromTheFuture
      <4> QED
        BY <4>1, <4>2
    <3>3. trackerStamp' = frame.stamp /\ tracks' \subseteq SurvivingTracks \cup {frame.stamp}
      BY <2>2 DEF TrackerUpdate
    <3> QED
      BY <3>1, <3>2, <3>3 DEF NoTrackFromTheFuture
  <2> QED
    BY <2>1, <2>2 DEF NodeNext, Worker, SynchronizedInputCallback, WorkerWaits, WorkerTakes,
       WorkerWoken, FrameFails, FilterReturns, StaleFrame, FrameDone, Shutdown, Join, Exited,
       nodeVars
<1> QED
  BY <1>1, <1>2, NodeTypeInvariant, PTL DEF NodeSafety

Lossless == droppedOldestCount = 0 /\ failures = 0

\* the number of frames the tracker has seen
Tracked == IF worker \in {"filtering", "tracking"} THEN Len(taken) - 1 ELSE Len(taken)

\* While nothing is lost the tracker walks through the accepted frames: what
\* was taken is a prefix of what was accepted, the worker holds the last frame
\* taken, and the tracker's clock is the stamp of the frame before it.
LockStep ==
    Lossless =>
        /\ \A i \in 1..Len(taken) : i <= Len(accepted) /\ taken[i] = accepted[i]
        /\ worker \in {"filtering", "tracking"} => taken # <<>> /\ frame = taken[Len(taken)]
        /\ trackerStamp = IF Tracked = 0 THEN 0 ELSE taken[Tracked].stamp
        /\ \A i \in 1..Len(published) : published[i].kind = "tracks"

LEMMA LockStepAccepts ==
    ASSUME QueueTypeOK, HistoryInv, NodeVarsTypeOK, LockStep, Lossless,
           worker = "tracking"
    PROVE  ~TrackerRejects
<1>1. /\ taken \in Seq(Entry) /\ accepted \in Seq(Entry) /\ Len(taken) \in Nat
      /\ ResetGap \in Nat \ {0} /\ trackerStamp \in Nat
  BY ResetGapAssumption, StampsAssumption DEF QueueTypeOK, NodeVarsTypeOK
<1>2. taken # <<>> /\ Tracked = Len(taken) - 1 /\ frame = taken[Len(taken)] /\ Len(taken) >= 1
  BY <1>1 DEF LockStep, Tracked
<1>3. CASE Tracked = 0
  BY <1>3 DEF LockStep, TrackerRejects
<1>4. CASE Tracked # 0
  <2> DEFINE k == Len(taken) - 1
  <2>1. k \in 1..(Len(accepted) - 1) /\ k \in 1..Len(taken) /\ k + 1 \in 1..Len(taken)
        /\ Len(taken) = k + 1
    BY <1>1, <1>2, <1>4 DEF LockStep
  <2>2. trackerStamp = accepted[k].stamp /\ frame.stamp = accepted[k + 1].stamp
    BY <1>2, <1>4, <2>1 DEF LockStep
  <2>3. \/ accepted[k].stamp < accepted[k + 1].stamp
        \/ accepted[k].stamp - accepted[k + 1].stamp >= ResetGap
    BY <2>1 DEF HistoryInv, AcceptedStampsOrdered
  <2>4. accepted[k + 1].stamp \in Nat
    <3>1. accepted[k + 1] \in Entry
      BY <1>1, <2>1
    <3> QED
      BY <3>1, StampsAssumption DEF Entry
  <2> HIDE DEF k
  <2> QED
    BY <1>1, <2>2, <2>3, <2>4 DEF TrackerRejects
<1> QED
  BY <1>3, <1>4

LEMMA TakeLockStep ==
    ASSUME QueueTypeOK, HistoryInv, NodeVarsTypeOK, LockStep, WorkerTakes
    PROVE  LockStep'
<1> SUFFICES ASSUME Lossless' PROVE LockStep'
  BY DEF LockStep
<1>1. /\ taken \in Seq(Entry) /\ accepted \in Seq(Entry) /\ pending \in Seq(Entry)
      /\ Len(taken) \in Nat /\ Len(accepted) \in Nat
  BY DEF QueueTypeOK
<1>2. TakeLocked(w) /\ worker = "taking" /\ UNCHANGED <<trackerStamp, published, accepted>>
      /\ worker' = IF got'[w] = NoEntry THEN "ended" ELSE "filtering"
  BY DEF WorkerTakes, TakeReady, TakeLocked, takeUnchanged, trackerVars
<1>3. Lossless
  BY DEF WorkerTakes, TakeReady, TakeLocked, takeUnchanged, Lossless
<1>4. /\ \A i \in 1..Len(taken) : i <= Len(accepted) /\ taken[i] = accepted[i]
      /\ trackerStamp = IF Len(taken) = 0 THEN 0 ELSE taken[Len(taken)].stamp
      /\ \A i \in 1..Len(published) : published[i].kind = "tracks"
  BY <1>2, <1>3 DEF LockStep, Tracked
<1>5. CASE pending = <<>>
  <2>1. taken' = taken /\ got'[w] = NoEntry
    BY <1>2, <1>5, ThreadExists DEF TakeLocked, takeUnchanged, QueueTypeOK
  <2> QED
    BY <1>2, <1>4, <2>1 DEF LockStep, Tracked
<1>6. CASE pending # <<>>
  <2>1. taken' = Append(taken, Head(pending)) /\ got'[w] = Head(pending)
    BY <1>2, <1>6, ThreadExists DEF TakeLocked, takeUnchanged, QueueTypeOK
  <2>2. Head(pending) = accepted[Len(taken) + 1] /\ Len(taken) + 1 <= Len(accepted)
        /\ Head(pending) \in Entry
    BY <1>1, <1>3, <1>6 DEF HistoryInv, PendingIsNewest, Removed, Lossless
  <2>3. /\ Len(taken') = Len(taken) + 1
        /\ \A i \in 1..Len(taken) : taken'[i] = taken[i]
        /\ taken'[Len(taken) + 1] = Head(pending)
    BY <1>1, <2>1, <2>2
  <2>4. Head(pending) # NoEntry
    <3>1. DOMAIN Head(pending) = {"value", "stamp"}
      BY <2>2 DEF Entry
    <3>2. DOMAIN NoEntry = {"value"}
      BY DEF NoEntry
    <3> QED
      BY <3>1, <3>2
  <2>5. worker' = "filtering" /\ Tracked' = Len(taken)
    BY <1>1, <1>2, <2>1, <2>3, <2>4 DEF Tracked
  <2>6. taken' # <<>> /\ frame' = taken'[Len(taken')]
    BY <1>1, <2>1, <2>2, <2>3 DEF frame
  <2>7. \A i \in 1..Len(taken') : i <= Len(accepted') /\ taken'[i] = accepted'[i]
    BY <1>1, <1>2, <1>4, <2>2, <2>3
  <2>8. trackerStamp' = IF Tracked' = 0 THEN 0 ELSE taken'[Tracked'].stamp
    BY <1>1, <1>2, <1>4, <2>3, <2>5
  <2> QED
    BY <1>2, <1>4, <2>5, <2>6, <2>7, <2>8 DEF LockStep
<1> QED
  BY <1>5, <1>6

LEMMA UpdateLockStep ==
    ASSUME QueueTypeOK, NodeVarsTypeOK, HoldingInv, LockStep,
           NEW succeeds \in BOOLEAN, TrackerUpdate(succeeds)
    PROVE  LockStep'
<1> SUFFICES ASSUME Lossless' PROVE LockStep'
  BY DEF LockStep
<1>1. /\ worker = "tracking" /\ worker' = "publishing" /\ trackerStamp' = frame.stamp
      /\ UNCHANGED <<got, accepted, taken, droppedOldestCount>>
      /\ failures \in Nat /\ taken \in Seq(Entry) /\ Len(taken) \in Nat
  BY DEF TrackerUpdate, queueVars, deque, NodeVarsTypeOK, QueueTypeOK
<1>2. succeeds /\ UNCHANGED failures /\ Lossless /\ Publish("tracks")
  BY <1>1 DEF TrackerUpdate, Lossless
<1>3. taken # <<>> /\ Len(taken) # 0 /\ frame = taken[Len(taken)]
  BY <1>1, <1>2 DEF LockStep
<1>4. Tracked' = Len(taken)
  BY <1>1 DEF Tracked
<1>5. \A i \in 1..Len(published') : published'[i].kind = "tracks"
  <2> DEFINE p == [value |-> frame.value, stamp |-> frame.stamp, kind |-> "tracks"]
  <2>1. published' = Append(published, p) /\ published \in Seq(Publication)
    BY <1>2 DEF Publish, NodeVarsTypeOK
  <2>2. p.kind = "tracks" /\ p \in Publication
    BY <1>1 DEF HoldingInv, Holding, Entry, Publication
  <2>3. \A i \in 1..Len(published) : published[i].kind = "tracks"
    BY <1>2 DEF LockStep
  <2> HIDE DEF p
  <2> QED
    BY <2>1, <2>2, <2>3
<1> QED
  BY <1>1, <1>2, <1>3, <1>4, <1>5 DEF LockStep

LEMMA AcceptLockStep ==
    ASSUME QueueTypeOK, NodeVarsTypeOK, LockStep, NEW s \in Stamps, Accept(s),
           UNCHANGED <<worker, trackerStamp, published, failures>>
    PROVE  LockStep'
<1> SUFFICES ASSUME Lossless' PROVE LockStep'
  BY DEF LockStep
<1>1. Lossless
  BY DEF Accept, Lossless, QueueTypeOK
<1> DEFINE f == [value |-> Len(accepted) + 1, stamp |-> s]
<1>2. accepted \in Seq(Entry) /\ f \in Entry /\ accepted' = Append(accepted, f)
      /\ Len(accepted) \in Nat
  BY DEF QueueTypeOK, Entry, Accept
<1>3. Len(accepted') >= Len(accepted) /\ \A i \in 1..Len(accepted) : accepted'[i] = accepted[i]
  <2> HIDE DEF f
  <2> QED
    BY <1>2
<1>4. \A i \in 1..Len(taken) : i <= Len(accepted) /\ taken[i] = accepted[i]
  BY <1>1 DEF LockStep
<1>5. taken' = taken /\ got' = got /\ taken \in Seq(Entry) /\ Len(accepted') \in Nat
  BY <1>2, AcceptType DEF Accept, QueueTypeOK
<1>6. \A i \in 1..Len(taken') : i <= Len(accepted') /\ taken'[i] = accepted'[i]
  BY <1>2, <1>3, <1>4, <1>5
<1> QED
  BY <1>1, <1>5, <1>6 DEF LockStep, Tracked, frame

LEMMA LockStepInvariant == NodeSafety => []LockStep
<1>1. NodeInit => LockStep
  <2> SUFFICES ASSUME NodeInit PROVE LockStep
    OBVIOUS
  <2>1. Len(taken) = 0 /\ Len(published) = 0
    BY DEF NodeInit, QueueInit
  <2> QED
    BY <2>1 DEF NodeInit, LockStep, Tracked
<1>2. /\ QueueTypeOK /\ HistoryInv /\ NodeVarsTypeOK /\ HoldingInv /\ LockStep
      /\ [NodeNext]_nodeVars
      => LockStep'
  <2> SUFFICES ASSUME QueueTypeOK, HistoryInv, NodeVarsTypeOK, HoldingInv, LockStep,
                      [NodeNext]_nodeVars
               PROVE  LockStep'
    OBVIOUS
  <2>1. ASSUME UNCHANGED <<droppedOldestCount, taken, got, accepted, trackerStamp,
                           published, failures>>,
               \/ UNCHANGED worker
               \/ worker = "filtering" /\ worker' = "tracking"
               \/ worker = "publishing" /\ worker' = "taking"
        PROVE  LockStep'
    BY <2>1 DEF LockStep, Lossless, Tracked, frame
  <2>2. ASSUME NEW cloud \in Stamps, NEW odom \in Stamps, SynchronizedInputCallback(cloud, odom)
        PROVE  LockStep'
    <3>1. CASE Accept(cloud)
      BY <2>2, <3>1, AcceptLockStep DEF SynchronizedInputCallback, trackerVars
    <3>2. CASE RejectClosed \/ RejectOutOfOrder(cloud)
      BY <2>1, <2>2, <3>2 DEF SynchronizedInputCallback, RejectClosed, RejectOutOfOrder, deque,
                              trackerVars
    <3> QED
      BY <2>2, <3>1, <3>2 DEF SynchronizedInputCallback, Push
  <2>3. CASE WorkerWaits \/ WorkerWoken
    BY <2>1, <2>3 DEF WorkerWaits, WorkerWoken, Sleep, SpuriousWake, deque, trackerVars
  <2>4. CASE WorkerTakes
    BY <2>4, TakeLockStep
  <2>5. CASE FrameFails
    BY <2>5 DEF FrameFails, LockStep, Lossless, NodeVarsTypeOK
  <2>6. CASE FilterReturns \/ FrameDone
    BY <2>1, <2>6 DEF FilterReturns, FrameDone, queueVars, deque, trackerVars
  <2>7. CASE StaleFrame
    <3>1. ~Lossless
      BY <2>7, LockStepAccepts DEF StaleFrame
    <3>2. ~Lossless'
      BY <2>7, <3>1 DEF StaleFrame, Lossless, queueVars, deque
    <3> QED
      BY <3>2 DEF LockStep
  <2>8. ASSUME NEW succeeds \in BOOLEAN, TrackerUpdate(succeeds) PROVE LockStep'
    BY <2>8, UpdateLockStep
  <2>9. CASE Shutdown
    BY <2>1, <2>9 DEF Shutdown, Close, trackerVars
  <2>10. CASE Join \/ Exited \/ UNCHANGED nodeVars
    BY <2>1, <2>10 DEF Join, Exited, nodeVars, queueVars, deque, trackerVars
  <2> QED
    BY <2>2, <2>3, <2>4, <2>5, <2>6, <2>7, <2>8, <2>9, <2>10 DEF NodeNext, Worker
<1> QED
  BY <1>1, <1>2, NodeTypeInvariant, NodeRunsTheQueue, QueueTypeCorrect, HistoryInvariant, PTL
     DEF NodeSafety

\* A stale frame is met only after the node has lost a frame: the queue's and
\* the tracker's separate clocks agree as long as every frame passes both.
THEOREM StaleImpliesLoss == NodeSafety => []StaleOnlyAfterLoss
<1>1. LockStep => StaleOnlyAfterLoss
  BY DEF LockStep, Lossless, StaleOnlyAfterLoss
<1> QED
  BY <1>1, LockStepInvariant, PTL

-----------------------------------------------------------------------------
(* What subscribers see *)

\* An array was published for a frame the tracker has seen, and for none twice;
\* the worker holds the last frame taken.
PublishedInv ==
    /\ worker \in {"filtering", "tracking"} => taken # <<>> /\ frame = taken[Len(taken)]
    /\ \A i \in 1..Len(published) : Tracked >= 1 /\ published[i].value <= taken[Tracked].value
    /\ OneArrayPerFrame

LEMMA ValuesAreNumbers ==
    ASSUME QueueTypeOK, NodeVarsTypeOK
    PROVE  /\ \A i \in 1..Len(taken) : taken[i].value \in Nat
           /\ \A i \in 1..Len(published) : published[i].value \in Nat
<1>1. (\A e \in Entry : e.value \in Nat) /\ (\A p \in Publication : p.value \in Nat)
  BY DEF Entry, Publication
<1>2. \A i \in 1..Len(taken) : taken[i] \in Entry
  BY DEF QueueTypeOK
<1>3. \A i \in 1..Len(published) : published[i] \in Publication
  BY DEF NodeVarsTypeOK
<1> QED
  BY <1>1, <1>2, <1>3

LEMMA PublishKeepsOrder ==
    ASSUME QueueTypeOK, HistoryInv, NodeVarsTypeOK, HoldingInv, PublishedInv, worker = "tracking",
           NEW kind \in {"tracks", "empty"}, Publish(kind),
           UNCHANGED <<got, taken>>, worker' = "publishing"
    PROVE  PublishedInv'
<1> DEFINE p == [value |-> frame.value, stamp |-> frame.stamp, kind |-> kind]
           n == Len(taken)
           k == Len(published)
<1>1. taken \in Seq(Entry) /\ n \in Nat /\ n >= 1 /\ frame = taken[n]
      /\ published \in Seq(Publication) /\ k \in Nat
  BY DEF QueueTypeOK, PublishedInv, NodeVarsTypeOK
<1>2. frame \in Entry /\ frame.value \in Nat /\ p \in Publication /\ p.value = taken[n].value
  BY <1>1 DEF HoldingInv, Holding, Entry, Publication
<1>3. published' = Append(published, p)
  BY DEF Publish
<1> HIDE DEF p
<1>4. /\ Len(published') = k + 1 /\ published'[k + 1] = p
      /\ \A i \in 1..k : published'[i] = published[i]
  BY <1>1, <1>2, <1>3
<1>5. /\ \A i \in 1..k : published[i].value \in Nat
      /\ \A i \in 1..n : taken[i].value \in Nat
  BY ValuesAreNumbers
<1>6. \A i \in 1..k : published[i].value < p.value
  <2> TAKE i \in 1..k
  <2>1. Tracked = n - 1 /\ n - 1 >= 1 /\ published[i].value <= taken[n - 1].value
    BY <1>1 DEF PublishedInv, Tracked
  <2>2. n - 1 \in 1..n /\ n \in 1..n
    BY <1>1, <2>1
  <2>3. taken[n - 1].value < taken[n].value
    BY <1>1, <2>2 DEF HistoryInv, DeliveredInOrder
  <2> QED
    BY <1>2, <1>5, <2>1, <2>2, <2>3
<1>7. Tracked' = n /\ taken' = taken
  BY DEF Tracked
<1>8. \A i \in 1..Len(published') : published'[i].value <= taken[n].value
  <2> TAKE i \in 1..Len(published')
  <2>1. CASE i \in 1..k
    <3>1. published[i].value < taken[n].value /\ published[i].value \in Nat /\ taken[n].value \in Nat
      BY <1>1, <1>2, <1>5, <1>6, <2>1
    <3> QED
      BY <1>4, <2>1, <3>1
  <2>2. CASE i = k + 1
    <3>1. published'[i].value = taken[n].value /\ taken[n].value \in Nat
      BY <1>1, <1>2, <1>4, <2>2
    <3> QED
      BY <3>1
  <2> QED
    BY <1>1, <1>4, <2>1, <2>2
<1>9. OneArrayPerFrame'
  <2> SUFFICES ASSUME NEW i \in 1..(k + 1), NEW j \in 1..(k + 1), i < j
               PROVE  published'[i].value < published'[j].value
    BY <1>4 DEF OneArrayPerFrame
  <2>1. CASE j = k + 1
    <3>1. i \in 1..k
      BY <1>1, <2>1
    <3> QED
      BY <1>4, <1>6, <2>1, <3>1
  <2>2. CASE j # k + 1
    <3>1. i \in 1..k /\ j \in 1..k
      BY <1>1, <2>2
    <3> QED
      BY <1>4, <3>1 DEF PublishedInv, OneArrayPerFrame
  <2> QED
    BY <2>1, <2>2
<1> QED
  BY <1>1, <1>7, <1>8, <1>9 DEF PublishedInv

LEMMA PublishedInvariant == NodeSafety => []PublishedInv
<1>1. NodeInit => PublishedInv
  <2> SUFFICES ASSUME NodeInit PROVE PublishedInv
    OBVIOUS
  <2>1. Len(published) = 0
    BY DEF NodeInit
  <2> QED
    BY <2>1 DEF NodeInit, PublishedInv, OneArrayPerFrame
<1>2. /\ QueueTypeOK /\ HistoryInv /\ NodeVarsTypeOK /\ HoldingInv /\ PublishedInv
      /\ [NodeNext]_nodeVars
      => PublishedInv'
  <2> SUFFICES ASSUME QueueTypeOK, HistoryInv, NodeVarsTypeOK, HoldingInv, PublishedInv,
                      [NodeNext]_nodeVars
               PROVE  PublishedInv'
    OBVIOUS
  <2>0. taken \in Seq(Entry) /\ Len(taken) \in Nat
    BY DEF QueueTypeOK
  <2>1. ASSUME UNCHANGED <<taken, got, published>>,
               \/ UNCHANGED worker
               \/ worker = "filtering" /\ worker' = "tracking"
               \/ worker = "publishing" /\ worker' = "taking"
        PROVE  PublishedInv'
    BY <2>1 DEF PublishedInv, OneArrayPerFrame, Tracked, frame
  <2>2. ASSUME NEW cloud \in Stamps, NEW odom \in Stamps, SynchronizedInputCallback(cloud, odom)
        PROVE  PublishedInv'
    <3>1. UNCHANGED <<taken, got, published, worker>>
      BY <2>2 DEF SynchronizedInputCallback, Push, RejectClosed, RejectOutOfOrder, Accept, deque
    <3> QED
      BY <2>1, <3>1
  <2>3. CASE WorkerWaits \/ WorkerWoken \/ FilterReturns \/ FrameDone
    BY <2>1, <2>3 DEF WorkerWaits, WorkerWoken, FilterReturns, FrameDone, Sleep, SpuriousWake,
                      deque, queueVars
  <2>4. CASE WorkerTakes
    <3>1. /\ worker = "taking" /\ UNCHANGED published /\ Tracked = Len(taken)
          /\ worker' = IF got'[w] = NoEntry THEN "ended" ELSE "filtering"
          /\ TakeLocked(w)
      BY <2>4 DEF WorkerTakes, TakeReady, TakeLocked, takeUnchanged, Tracked
    <3>2. CASE pending = <<>>
      <4>1. taken' = taken /\ got'[w] = NoEntry
        BY <3>1, <3>2, ThreadExists DEF TakeLocked, takeUnchanged, QueueTypeOK
      <4> QED
        BY <3>1, <4>1 DEF PublishedInv, OneArrayPerFrame, Tracked
    <3>3. CASE pending # <<>>
      <4>1. Head(pending) \in Entry /\ taken' = Append(taken, Head(pending)) /\ got'[w] = Head(pending)
        BY <3>1, <3>3, ThreadExists DEF TakeLocked, takeUnchanged, QueueTypeOK
      <4>2. Head(pending) # NoEntry
        <5>1. DOMAIN Head(pending) = {"value", "stamp"} /\ DOMAIN NoEntry = {"value"}
          BY <4>1 DEF Entry, NoEntry
        <5> QED
          BY <5>1
      <4>3. /\ Len(taken') = Len(taken) + 1 /\ taken' # <<>>
            /\ taken'[Len(taken) + 1] = Head(pending)
            /\ \A i \in 1..Len(taken) : taken'[i] = taken[i]
        BY <2>0, <4>1
      <4>4. worker' = "filtering" /\ Tracked' = Len(taken) /\ frame' = taken'[Len(taken')]
        BY <2>0, <3>1, <4>1, <4>2, <4>3 DEF Tracked, frame
      <4>5. \A i \in 1..Len(published) : Tracked' >= 1 /\ published[i].value <= taken'[Tracked'].value
        BY <2>0, <3>1, <4>3, <4>4 DEF PublishedInv
      <4> QED
        BY <3>1, <4>3, <4>4, <4>5 DEF PublishedInv, OneArrayPerFrame
    <3> QED
      BY <3>2, <3>3
  <2>5. CASE FrameFails
    <3>1. /\ worker = "filtering" /\ worker' = "taking" /\ UNCHANGED <<taken, published>>
      BY <2>5 DEF FrameFails, queueVars, deque
    <3>2. ASSUME NEW i \in 1..Len(published)
          PROVE  Len(taken) >= 1 /\ published[i].value <= taken[Len(taken)].value
      <4> DEFINE n == Len(taken)
      <4>1. Tracked = n - 1 /\ n - 1 >= 1 /\ published[i].value <= taken[n - 1].value
        BY <3>1 DEF PublishedInv, Tracked
      <4>2. n - 1 \in 1..n /\ n \in 1..n
        BY <2>0, <4>1
      <4>3. taken[n - 1].value < taken[n].value
        BY <2>0, <4>2 DEF HistoryInv, DeliveredInOrder
      <4>4. taken[n - 1].value \in Nat /\ taken[n].value \in Nat
        BY <4>2, ValuesAreNumbers
      <4>5. published[i].value \in Nat
        BY ValuesAreNumbers
      <4> QED
        BY <2>0, <4>1, <4>3, <4>4, <4>5
    <3>3. Tracked' = Len(taken)
      BY <3>1 DEF Tracked
    <3> QED
      BY <3>1, <3>2, <3>3 DEF PublishedInv, OneArrayPerFrame
  <2>6. CASE StaleFrame
    BY <2>6, PublishKeepsOrder DEF StaleFrame, queueVars, deque
  <2>7. ASSUME NEW succeeds \in BOOLEAN, TrackerUpdate(succeeds) PROVE PublishedInv'
    BY <2>7, PublishKeepsOrder DEF TrackerUpdate, queueVars, deque
  <2>8. CASE Shutdown
    BY <2>1, <2>8 DEF Shutdown, Close, trackerVars
  <2>9. CASE Join \/ Exited \/ UNCHANGED nodeVars
    BY <2>1, <2>9 DEF Join, Exited, nodeVars, queueVars, deque
  <2> QED
    BY <2>2, <2>3, <2>4, <2>5, <2>6, <2>7, <2>8, <2>9 DEF NodeNext, Worker
<1> QED
  BY <1>1, <1>2, NodeTypeInvariant, NodeRunsTheQueue, QueueTypeCorrect, HistoryInvariant, PTL
     DEF NodeSafety

\* Whatever is evicted, fails or is stale, subscribers get at most one array for a
\* frame and the arrays in the order of the frames.
THEOREM ArraysFollowFrames == NodeSafety => []OneArrayPerFrame
<1>1. PublishedInv => OneArrayPerFrame
  BY DEF PublishedInv
<1> QED
  BY <1>1, PublishedInvariant, PTL

\* The tracker's clock is the stamp of the last track array, as long as no frame
\* failed; it is then set, since no frame carries the zero stamp.
IsLastArray(i) ==
    /\ published[i].kind = "tracks"
    /\ \A k \in (i + 1)..Len(published) : published[k].kind = "empty"

ArrayClockInv ==
    /\ \A i \in 1..Len(pending) : pending[i].stamp # 0
    /\ Holding => frame.stamp # 0
    /\ failures = 0 => \A i \in 1..Len(published) :
                          IsLastArray(i) => trackerStamp # 0 /\ published[i].stamp = trackerStamp
    /\ TrackArraysOrdered

LEMMA PublishedAppends ==
    ASSUME NodeVarsTypeOK, frame \in Entry, NEW kind \in {"tracks", "empty"}, Publish(kind)
    PROVE  /\ Len(published) \in Nat /\ Len(published') = Len(published) + 1
           /\ \A i \in 1..Len(published) : published'[i] = published[i]
           /\ published'[Len(published) + 1].stamp = frame.stamp
           /\ published'[Len(published) + 1].kind = kind
<1> DEFINE p == [value |-> frame.value, stamp |-> frame.stamp, kind |-> kind]
<1>1. p \in Publication /\ p.stamp = frame.stamp /\ p.kind = kind
  BY DEF Entry, Publication
<1>2. published' = Append(published, p) /\ published \in Seq(Publication)
  BY DEF Publish, NodeVarsTypeOK
<1> HIDE DEF p
<1> QED
  BY <1>1, <1>2

\* An empty array changes neither the order of the others nor which is the last.
LEMMA EmptyArrayKeepsClock ==
    ASSUME NodeVarsTypeOK, frame \in Entry, Publish("empty"), ArrayClockInv,
           UNCHANGED <<pending, got, trackerStamp, failures>>,
           worker = "tracking", worker' = "publishing"
    PROVE  ArrayClockInv'
<1> DEFINE n == Len(published)
<1>1. /\ n \in Nat /\ Len(published') = n + 1
      /\ \A i \in 1..n : published'[i] = published[i]
      /\ published'[n + 1].kind = "empty"
  BY PublishedAppends
<1> HIDE DEF n
<1>2. ASSUME failures = 0, NEW i \in 1..(n + 1), IsLastArray(i)'
      PROVE  trackerStamp # 0 /\ published'[i].stamp = trackerStamp
  <2>1. i \in 1..n
    BY <1>1, <1>2 DEF IsLastArray
  <2>2. IsLastArray(i)
    BY <1>1, <1>2, <2>1 DEF IsLastArray, n
  <2> QED
    BY <1>1, <1>2, <2>1, <2>2 DEF ArrayClockInv, n
<1>3. ASSUME failures = 0, NEW i \in 1..(n + 1), NEW j \in 1..(n + 1), NextArray(i, j)'
      PROVE  \/ published'[i].stamp < published'[j].stamp
             \/ published'[i].stamp - published'[j].stamp >= ResetGap
  <2>1. i \in 1..n /\ j \in 1..n
    BY <1>1, <1>3 DEF NextArray
  <2>2. NextArray(i, j)
    BY <1>1, <1>3, <2>1 DEF NextArray
  <2> QED
    BY <1>1, <1>3, <2>1, <2>2 DEF ArrayClockInv, TrackArraysOrdered, n
<1>4. TrackArraysOrdered'
  BY <1>1, <1>3 DEF TrackArraysOrdered
<1> QED
  BY <1>1, <1>2, <1>4 DEF ArrayClockInv, Holding, frame

\* An accepted frame is in order with the clock, which is the stamp of the last array.
LEMMA UpdateKeepsArrayClock ==
    ASSUME NodeVarsTypeOK, HoldingInv, ArrayClockInv, NEW succeeds \in BOOLEAN,
           TrackerUpdate(succeeds)
    PROVE  ArrayClockInv'
<1> DEFINE n == Len(published)
<1>1. /\ worker = "tracking" /\ worker' = "publishing" /\ trackerStamp' = frame.stamp
      /\ UNCHANGED <<pending, got>> /\ ~TrackerRejects
  BY DEF TrackerUpdate, queueVars, deque
<1>2. frame \in Entry /\ frame.stamp # 0 /\ frame.stamp \in Nat /\ trackerStamp \in Nat
      /\ ResetGap \in Nat /\ failures \in Nat
  <2>1. frame \in Entry /\ frame.stamp # 0
    BY <1>1 DEF HoldingInv, ArrayClockInv, Holding
  <2>2. frame.stamp \in Stamps
    BY <2>1 DEF Entry
  <2>3. trackerStamp \in Nat
    BY StampsAssumption DEF NodeVarsTypeOK
  <2> QED
    BY <2>1, <2>2, <2>3, StampsAssumption, ResetGapAssumption DEF NodeVarsTypeOK
<1>3. CASE ~succeeds
  <2>1. failures' # 0
    BY <1>2, <1>3 DEF TrackerUpdate
  <2> QED
    BY <1>1, <1>2, <2>1 DEF ArrayClockInv, TrackArraysOrdered, Holding, frame
<1>4. CASE succeeds
  <2>1. Publish("tracks") /\ failures' = failures
    BY <1>4 DEF TrackerUpdate
  <2>2. /\ n \in Nat /\ Len(published') = n + 1
        /\ \A i \in 1..n : published'[i] = published[i]
        /\ published'[n + 1].stamp = frame.stamp
        /\ published'[n + 1].kind = "tracks"
    BY <1>2, <2>1, PublishedAppends
  <2> HIDE DEF n
  <2>3. ASSUME NEW i \in 1..(n + 1), IsLastArray(i)'
        PROVE  published'[i].stamp = trackerStamp'
    <3>1. i = n + 1
      BY <2>2, <2>3 DEF IsLastArray
    <3> QED
      BY <1>1, <2>2, <3>1
  <2>4. ASSUME failures = 0, NEW i \in 1..(n + 1), NEW j \in 1..(n + 1), NextArray(i, j)'
        PROVE  \/ published'[i].stamp < published'[j].stamp
               \/ published'[i].stamp - published'[j].stamp >= ResetGap
    <3>1. i \in 1..n
      BY <2>2, <2>4 DEF NextArray
    <3>2. CASE j = n + 1
      <4>1. IsLastArray(i)
        BY <2>2, <2>4, <3>1, <3>2 DEF NextArray, IsLastArray, n
      <4>2. trackerStamp # 0 /\ published[i].stamp = trackerStamp
        BY <2>2, <2>4, <3>1, <4>1 DEF ArrayClockInv, n
      <4>3. trackerStamp < frame.stamp \/ trackerStamp - frame.stamp >= ResetGap
        BY <1>1, <1>2, <4>2 DEF TrackerRejects
      <4> QED
        BY <2>2, <3>1, <3>2, <4>2, <4>3
    <3>3. CASE j # n + 1
      <4>1. j \in 1..n
        BY <2>2, <3>3
      <4>2. NextArray(i, j)
        BY <2>2, <2>4, <3>1, <4>1 DEF NextArray
      <4> QED
        BY <2>2, <2>4, <3>1, <4>1, <4>2 DEF ArrayClockInv, TrackArraysOrdered, n
    <3> QED
      BY <3>2, <3>3
  <2>5. TrackArraysOrdered'
    BY <2>1, <2>2, <2>4 DEF TrackArraysOrdered
  <2> QED
    BY <1>1, <1>2, <2>2, <2>3, <2>5 DEF ArrayClockInv, Holding, frame
<1> QED
  BY <1>3, <1>4

LEMMA ArrayClockInvariant == NodeSafety => []ArrayClockInv
<1>1. NodeInit => ArrayClockInv
  <2> SUFFICES ASSUME NodeInit PROVE ArrayClockInv
    OBVIOUS
  <2>1. Len(published) = 0 /\ Len(pending) = 0
    BY DEF NodeInit, QueueInit
  <2> QED
    BY <2>1 DEF NodeInit, ArrayClockInv, TrackArraysOrdered, Holding
<1>2. QueueTypeOK /\ NodeVarsTypeOK /\ HoldingInv /\ ArrayClockInv /\ [NodeNext]_nodeVars
      => ArrayClockInv'
  <2> SUFFICES ASSUME QueueTypeOK, NodeVarsTypeOK, HoldingInv, ArrayClockInv, [NodeNext]_nodeVars
               PROVE  ArrayClockInv'
    OBVIOUS
  <2>0. pending \in Seq(Entry) /\ Len(pending) \in Nat
    BY DEF QueueTypeOK
  <2>1. ASSUME UNCHANGED <<pending, got, trackerStamp, published, failures>>,
               \/ UNCHANGED worker
               \/ worker = "filtering" /\ worker' = "tracking"
               \/ worker = "publishing" /\ worker' = "taking"
        PROVE  ArrayClockInv'
    BY <2>1 DEF ArrayClockInv, TrackArraysOrdered, NextArray, IsLastArray, Holding, frame
  <2>2. ASSUME NEW cloud \in Stamps, NEW odom \in Stamps, SynchronizedInputCallback(cloud, odom)
        PROVE  ArrayClockInv'
    <3>1. UNCHANGED <<got, trackerStamp, published, failures, worker>>
      BY <2>2 DEF SynchronizedInputCallback, Push, RejectClosed, RejectOutOfOrder, Accept,
                  trackerVars
    <3>2. CASE RejectClosed \/ RejectOutOfOrder(cloud)
      BY <2>1, <3>1, <3>2 DEF RejectClosed, RejectOutOfOrder, deque
    <3>3. CASE Accept(cloud)
      <4> DEFINE f == [value |-> Len(accepted) + 1, stamp |-> cloud]
      <4>1. f \in Entry /\ f.stamp # 0 /\ pending' = Append(Backlog, f)
        BY <2>2, <3>3 DEF SynchronizedInputCallback, PairUsable, QueueTypeOK, Entry, Accept
      <4>2. Backlog \in Seq(Entry) /\ \A i \in 1..Len(Backlog) : Backlog[i].stamp # 0
        <5>1. CASE MustEvict
          <6>1. pending # <<>>
            BY <2>0, <5>1, CapacityAssumption DEF MustEvict
          <6>2. /\ Backlog \in Seq(Entry) /\ Len(Backlog) = Len(pending) - 1
                /\ \A i \in 1..Len(Backlog) : Backlog[i] = pending[i + 1]
            BY <2>0, <5>1, <6>1 DEF Backlog
          <6> QED
            BY <2>0, <6>2 DEF ArrayClockInv
        <5>2. CASE ~MustEvict
          BY <2>0, <5>2 DEF Backlog, ArrayClockInv
        <5> QED
          BY <5>1, <5>2
      <4> HIDE DEF f
      <4>3. \A i \in 1..Len(pending') : pending'[i].stamp # 0
        BY <4>1, <4>2
      <4> QED
        BY <3>1, <4>3
           DEF ArrayClockInv, TrackArraysOrdered, NextArray, IsLastArray, Holding, frame
    <3> QED
      BY <2>2, <3>2, <3>3 DEF SynchronizedInputCallback, Push
  <2>3. CASE WorkerWaits \/ WorkerWoken \/ FilterReturns \/ FrameDone
    BY <2>1, <2>3 DEF WorkerWaits, WorkerWoken, FilterReturns, FrameDone, Sleep, SpuriousWake,
                      deque, queueVars, trackerVars
  <2>4. CASE WorkerTakes
    <3>1. /\ UNCHANGED <<trackerStamp, published, failures>>
          /\ worker' = IF got'[w] = NoEntry THEN "ended" ELSE "filtering"
          /\ TakeLocked(w)
      BY <2>4 DEF WorkerTakes, TakeReady, trackerVars
    <3>2. /\ \A i \in 1..Len(pending') : pending'[i].stamp # 0
          /\ Holding' => frame'.stamp # 0
      <4>1. CASE pending = <<>>
        BY <2>0, <3>1, <4>1, ThreadExists DEF TakeLocked, Holding, QueueTypeOK
      <4>2. CASE pending # <<>>
        <5>1. pending' = Tail(pending) /\ got'[w] = Head(pending)
          BY <3>1, <4>2, ThreadExists DEF TakeLocked, QueueTypeOK
        <5>2. /\ Head(pending) = pending[1] /\ Len(pending) >= 1
              /\ Len(pending') = Len(pending) - 1
              /\ \A i \in 1..Len(pending') : pending'[i] = pending[i + 1]
          BY <2>0, <4>2, <5>1
        <5> QED
          BY <2>0, <5>1, <5>2 DEF ArrayClockInv, frame
      <4> QED
        BY <4>1, <4>2
    <3> QED
      BY <3>1, <3>2 DEF ArrayClockInv, TrackArraysOrdered, NextArray, IsLastArray
  <2>5. CASE FrameFails
    <3>1. failures' # 0 /\ worker' = "taking" /\ UNCHANGED pending
      BY <2>5 DEF FrameFails, NodeVarsTypeOK, queueVars, deque
    <3> QED
      BY <3>1 DEF ArrayClockInv, TrackArraysOrdered, Holding
  <2>6. CASE StaleFrame
    BY <2>6, EmptyArrayKeepsClock
       DEF StaleFrame, HoldingInv, Holding, queueVars, deque, trackerVars
  <2>7. ASSUME NEW succeeds \in BOOLEAN, TrackerUpdate(succeeds) PROVE ArrayClockInv'
    BY <2>7, UpdateKeepsArrayClock
  <2>8. CASE Shutdown
    BY <2>1, <2>8 DEF Shutdown, Close, trackerVars
  <2>9. CASE Join \/ Exited \/ UNCHANGED nodeVars
    BY <2>1, <2>9 DEF Join, Exited, nodeVars, queueVars, deque, trackerVars
  <2> QED
    BY <2>2, <2>3, <2>4, <2>5, <2>6, <2>7, <2>8, <2>9 DEF NodeNext, Worker
<1> QED
  BY <1>1, <1>2, NodeTypeInvariant, NodeRunsTheQueue, QueueTypeCorrect, PTL DEF NodeSafety

\* While no frame failed, successive track arrays move forward in time or back by at
\* least the reset gap: the tracker's rule survives what the queue evicts.
THEOREM ArraysMoveInTime == NodeSafety => []TrackArraysOrdered
<1>1. ArrayClockInv => TrackArraysOrdered
  BY DEF ArrayClockInv
<1> QED
  BY <1>1, ArrayClockInvariant, PTL

\* The node keeps the tracker's clock as FrameTracker does.
THEOREM NodeKeepsTrackClock == NodeSafety => KeepsTrackClock
<1>1. NodeInit => TrackerClock!Init
  BY DEF NodeInit, TrackerClock!Init
<1>2. NodeVarsTypeOK /\ HoldingInv /\ [NodeNext]_nodeVars
      => [TrackerClock!Next]_TrackerClock!trackClock
  <2> SUFFICES ASSUME NodeVarsTypeOK, HoldingInv, [NodeNext]_nodeVars
               PROVE  [TrackerClock!Next]_TrackerClock!trackClock
    OBVIOUS
  <2>1. ASSUME UNCHANGED trackerVars PROVE UNCHANGED TrackerClock!trackClock
    BY <2>1 DEF trackerVars, TrackerClock!trackClock
  <2>2. ASSUME NEW succeeds \in BOOLEAN, TrackerUpdate(succeeds)
        PROVE  TrackerClock!Next
    <3>1. frame.stamp \in Nat /\ frame.stamp \in Stamps /\ trackerStamp \in Nat /\ ResetGap \in Nat \ {0}
      <4>1. frame \in Entry
        BY <2>2 DEF TrackerUpdate, HoldingInv, Holding
      <4>2. frame.stamp \in Stamps
        BY <4>1 DEF Entry
      <4>3. trackerStamp \in Stamps \cup {0}
        BY DEF NodeVarsTypeOK
      <4>4. trackerStamp \in Nat
        BY <4>3, StampsAssumption
      <4> QED
        BY <4>2, <4>4, StampsAssumption, ResetGapAssumption
    <3>2. trackerStamp' = frame.stamp /\ tracks' \subseteq SurvivingTracks \cup {frame.stamp}
      BY <2>2 DEF TrackerUpdate
    <3>3. CASE TrackerResets
      BY <3>1, <3>2, <3>3 DEF SurvivingTracks, TrackerResets, TrackerClock!Next,
           TrackerClock!Restart
    <3>4. CASE ~TrackerResets
      <4>1. trackerStamp = 0 \/ frame.stamp > trackerStamp
        BY <2>2, <3>1, <3>4 DEF TrackerUpdate, TrackerRejects, TrackerResets
      <4>2. CASE frame.stamp > trackerStamp
        BY <3>1, <3>2, <3>4, <4>2 DEF SurvivingTracks, TrackerClock!Next, TrackerClock!Advance
      <4>3. CASE frame.stamp = 0 /\ trackerStamp = 0
        BY <3>1, <3>2, <3>4, <4>3 DEF SurvivingTracks, TrackerClock!Next, TrackerClock!Revise
      <4> QED
        BY <3>1, <4>1, <4>2, <4>3
    <3> QED
      BY <3>3, <3>4
  <2> QED
    BY <2>1, <2>2 DEF NodeNext, Worker, SynchronizedInputCallback, WorkerWaits, WorkerTakes,
       WorkerWoken, FrameFails, FilterReturns, StaleFrame, FrameDone, Shutdown, Join, Exited,
       nodeVars
<1> QED
  BY <1>1, <1>2, NodeTypeInvariant, PTL DEF NodeSafety, KeepsTrackClock, TrackerClock!Spec

-----------------------------------------------------------------------------
(* Shutdown *)

ShutdownInv ==
    /\ main # "spinning" => closed
    /\ worker = "ended" => closed /\ pending = <<>>
    /\ main = "exited" => worker = "ended"

LEMMA ShutdownInvariant == NodeSafety => []ShutdownInv
<1>1. NodeInit => ShutdownInv
  BY DEF NodeInit, ShutdownInv
<1>2. QueueTypeOK /\ ShutdownInv /\ [NodeNext]_nodeVars => ShutdownInv'
  <2> SUFFICES ASSUME QueueTypeOK, ShutdownInv, [NodeNext]_nodeVars PROVE ShutdownInv'
    OBVIOUS
  <2> USE DEF ShutdownInv
  <2>1. ASSUME NEW cloud \in Stamps, NEW odom \in Stamps, SynchronizedInputCallback(cloud, odom)
        PROVE  ShutdownInv'
    BY <2>1 DEF SynchronizedInputCallback, Push, RejectClosed, RejectOutOfOrder, Accept, deque
  <2>2. CASE WorkerTakes
    <3>1. CASE pending = <<>>
      BY <2>2, <3>1, ThreadExists DEF WorkerTakes, TakeReady, TakeLocked, takeUnchanged,
           Ready, QueueTypeOK
    <3>2. CASE pending # <<>>
      <4>1. Head(pending) \in Entry /\ got'[w] = Head(pending)
        BY <2>2, <3>2, ThreadExists DEF WorkerTakes, TakeReady, TakeLocked, takeUnchanged,
             QueueTypeOK
      <4>2. Head(pending) # NoEntry
        <5>1. DOMAIN Head(pending) = {"value", "stamp"} /\ DOMAIN NoEntry = {"value"}
          BY <4>1 DEF Entry, NoEntry
        <5> QED
          BY <5>1
      <4> QED
        BY <2>2, <3>2, <4>1, <4>2 DEF WorkerTakes, TakeReady, TakeLocked, takeUnchanged
    <3> QED
      BY <3>1, <3>2
  <2>3. CASE WorkerWaits \/ WorkerWoken
    BY <2>3 DEF WorkerWaits, WorkerWoken, Sleep, SpuriousWake, deque
  <2>4. CASE FrameFails \/ FilterReturns \/ StaleFrame \/ FrameDone \/ Join \/ Exited
    BY <2>4 DEF FrameFails, FilterReturns, StaleFrame, FrameDone, Join, Exited, nodeVars,
                queueVars, deque
  <2>5. CASE \E succeeds \in BOOLEAN : TrackerUpdate(succeeds)
    BY <2>5 DEF TrackerUpdate, queueVars, deque
  <2>6. CASE Shutdown
    BY <2>6 DEF Shutdown, Close
  <2>7. CASE UNCHANGED nodeVars
    BY <2>7 DEF nodeVars, queueVars, deque
  <2> QED
    BY <2>1, <2>2, <2>3, <2>4, <2>5, <2>6, <2>7 DEF NodeNext, Worker
<1> QED
  BY <1>1, <1>2, NodeRunsTheQueue, QueueTypeCorrect, PTL DEF NodeSafety

\* main() returns only when every accepted frame has left the queue.
THEOREM ExitDrainsQueue == NodeSafety => []DrainedAtExit
<1>1. QueueTypeOK /\ HistoryInv /\ ShutdownInv => DrainedAtExit
  <2> SUFFICES ASSUME QueueTypeOK, HistoryInv, ShutdownInv, main = "exited"
               PROVE  pending = <<>> /\ Removed = Len(accepted)
    BY DEF DrainedAtExit
  <2>1. pending = <<>> /\ Len(pending) = 0
    BY DEF ShutdownInv
  <2>2. Removed \in Nat
    BY DEF QueueTypeOK, Removed
  <2> QED
    BY <2>1, <2>2 DEF HistoryInv, PendingIsNewest
<1> QED
  BY <1>1, ShutdownInvariant, NodeRunsTheQueue, QueueTypeCorrect, HistoryInvariant, PTL
=============================================================================

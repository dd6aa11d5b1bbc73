------------------------ MODULE GoalArbitrationProofs ------------------------
(***************************************************************************)
(* Theorems about the goal arbitration, for any number of threads that     *)
(* call control_pub, with or without nav_mode, and any number of positions.*)
(***************************************************************************)
EXTENDS GoalArbitration, TLAPS

USE DEF teleop, vehicle, arbiter, handlers

-----------------------------------------------------------------------------
(* The inductive invariant *)

Capturing(t) == capture[t].pc \in {"read", "store", "retarget"}

\* Without a clash one writer at most is at work.
AloneInv ==
    ~clash => /\ goal_call => anchoring = {} /\ \A t \in Capturers : ~Capturing(t)
              /\ anchoring # {} => \A t \in Capturers : ~Capturing(t)
              /\ \A s, t \in Capturers : Capturing(s) /\ Capturing(t) => s = t

\* Before home is anchored nothing is captured, and goals come from messages only.
UnanchoredInv ==
    /\ ~home_set => /\ rc_home = {}
                    /\ \A t \in Capturers : capture[t].pc \notin {"store", "retarget"}
                    /\ rc.active /\ ~rc.pending => goal_call \/ (goal = Message /\ external)
    /\ anchoring # {} => ~home_set
    /\ ~clash /\ anchoring # {} => ~external

\* A writer that is alone writes what the RC state asks for.
WriterInv ==
    ~clash =>
       /\ goal_call => ~rc.received \/ rc.active
       /\ \A t \in Capturers :
             /\ Capturing(t) => ~rc.active \/ rc.pending
             /\ capture[t].pc \in {"store", "retarget"} => capture[t].at >= released \/ rc.active
             /\ capture[t].pc = "retarget" => rc_home = {capture[t].at}

ReleasedInv == released \in Positions /\ released <= position

ArbitrationInv ==
    /\ TypeOK /\ ReleasedInv /\ AloneInv /\ UnanchoredInv /\ WriterInv
    /\ HomeIsWhereReleased /\ GoalFollowsPilot

USE ArbitrationAssumption
USE DEF Positions, Capturers, NoCapture, Home, Message, Begins, Writing, Capturing, Agreed

-----------------------------------------------------------------------------
(* The initial state *)

LEMMA InitInv == Init => ArbitrationInv
<1> SUFFICES ASSUME Init PROVE ArbitrationInv
  OBVIOUS
<1>1. \A t \in Capturers : capture[t] = [pc |-> "idle", at |-> 0]
  BY DEF Init
<1>2. capture \in [Capturers -> [pc : {"idle", "read", "store", "retarget", "withdraw"},
                                 at : Positions]]
  BY DEF Init
<1>3. control \in [Callers -> {"idle", "rc_home", "planner", "avoid"}]
  BY DEF Init
<1>4. TypeOK
  <2>1. output \in Output /\ rc \in [received : BOOLEAN, active : BOOLEAN, pending : BOOLEAN]
    BY DEF Init, Output
  <2>2. goal \in [by : {"config", "home", "message"}, at : Positions]
    BY DEF Init
  <2> QED
    BY <1>2, <1>3, <2>1, <2>2 DEF Init, TypeOK
<1>5. ReleasedInv /\ AloneInv /\ UnanchoredInv /\ WriterInv
  BY <1>1 DEF Init, ReleasedInv, AloneInv, UnanchoredInv, WriterInv
<1>6. HomeIsWhereReleased /\ GoalFollowsPilot
  BY <1>1 DEF Init, HomeIsWhereReleased, GoalFollowsPilot
<1> QED
  BY <1>4, <1>5, <1>6 DEF ArbitrationInv

-----------------------------------------------------------------------------
(* Steps that write neither the goal nor the home position *)

LEMMA TopicsStep ==
    ASSUME ArbitrationInv, Spin \/ Stop \/ Restart \/ WaypointSent \/ RcTimeout
    PROVE  ArbitrationInv'
<1>1. /\ stick_active' \in BOOLEAN /\ running' \in BOOLEAN /\ goal_topic' \in BOOLEAN
      /\ active_topic' \subseteq BOOLEAN
  BY DEF ArbitrationInv, TypeOK, Spin, Stop, Restart, WaypointSent, RcTimeout
<1>2. UNCHANGED <<vehicle, rc, rc_home, goal, external, handlers, output, released, clash>>
  BY DEF Spin, Stop, Restart, WaypointSent, RcTimeout
<1> QED
  BY <1>1, <1>2 DEF ArbitrationInv, TypeOK, ReleasedInv, AloneInv, UnanchoredInv, WriterInv,
                    HomeIsWhereReleased, GoalFollowsPilot

LEMMA MoveStep ==
    ASSUME ArbitrationInv, Move
    PROVE  ArbitrationInv'
<1>1. position' \in Positions /\ released' \in Positions /\ released' <= position'
  BY DEF ArbitrationInv, TypeOK, ReleasedInv, Move
<1>2. UNCHANGED <<teleop, home_set, anchoring, arbiter, handlers, output, released, clash>>
  BY DEF Move
<1> QED
  BY <1>1, <1>2 DEF ArbitrationInv, TypeOK, ReleasedInv, AloneInv, UnanchoredInv, WriterInv,
                    HomeIsWhereReleased, GoalFollowsPilot

LEMMA PublishStep ==
    ASSUME ArbitrationInv, NEW t \in Callers, Publish(t)
    PROVE  ArbitrationInv'
<1>1. output' \in Output
  BY DEF ArbitrationInv, TypeOK, Publish, Output
<1>2. control' \in [Callers -> {"idle", "rc_home", "planner", "avoid"}]
  BY DEF ArbitrationInv, TypeOK, Publish
<1>3. UNCHANGED <<teleop, vehicle, arbiter, goal_call, capture, released, clash>>
  BY DEF Publish
<1> QED
  BY <1>1, <1>2, <1>3 DEF ArbitrationInv, TypeOK, ReleasedInv, AloneInv, UnanchoredInv,
                          WriterInv, HomeIsWhereReleased, GoalFollowsPilot

-----------------------------------------------------------------------------
(* Steps of callback_odometry and callback_set_goal *)

LEMMA AnchorHomeStep ==
    ASSUME ArbitrationInv, AnchorHome
    PROVE  ArbitrationInv'
<1>1. TypeOK'
  BY DEF ArbitrationInv, TypeOK, AnchorHome
<1>2. ReleasedInv'
  BY DEF ArbitrationInv, ReleasedInv, AnchorHome
<1>3. AloneInv'
  BY DEF ArbitrationInv, AloneInv, AnchorHome
<1>4. UnanchoredInv'
  BY DEF ArbitrationInv, UnanchoredInv, AnchorHome
<1>5. WriterInv'
  BY DEF ArbitrationInv, WriterInv, AnchorHome
<1>6. HomeIsWhereReleased'
  BY DEF ArbitrationInv, HomeIsWhereReleased, AnchorHome
<1>7. GoalFollowsPilot'
  BY DEF ArbitrationInv, GoalFollowsPilot, AnchorHome
<1> QED
  BY <1>1, <1>2, <1>3, <1>4, <1>5, <1>6, <1>7 DEF ArbitrationInv

LEMMA WriteAnchorStep ==
    ASSUME ArbitrationInv, WriteAnchor
    PROVE  ArbitrationInv'
<1>1. TypeOK'
  BY DEF ArbitrationInv, TypeOK, WriteAnchor
<1>2. ReleasedInv'
  BY DEF ArbitrationInv, ReleasedInv, WriteAnchor
<1>3. AloneInv'
  BY DEF ArbitrationInv, AloneInv, WriteAnchor
<1>4. UnanchoredInv'
  BY DEF UnanchoredInv, WriteAnchor
<1>5. WriterInv'
  BY DEF ArbitrationInv, WriterInv, WriteAnchor
<1>6. HomeIsWhereReleased'
  BY DEF ArbitrationInv, HomeIsWhereReleased, UnanchoredInv, WriteAnchor
<1>7. GoalFollowsPilot'
  BY DEF ArbitrationInv, GoalFollowsPilot, UnanchoredInv, WriteAnchor
<1> QED
  BY <1>1, <1>2, <1>3, <1>4, <1>5, <1>6, <1>7 DEF ArbitrationInv

LEMMA AcceptGoalStep ==
    ASSUME ArbitrationInv, AcceptGoal
    PROVE  ArbitrationInv'
<1>1. TypeOK'
  BY DEF ArbitrationInv, TypeOK, AcceptGoal
<1>2. ReleasedInv'
  BY DEF ArbitrationInv, ReleasedInv, AcceptGoal
<1>3. AloneInv'
  BY DEF ArbitrationInv, AloneInv, AcceptGoal
<1>4. UnanchoredInv'
  BY DEF ArbitrationInv, UnanchoredInv, AcceptGoal
<1>5. WriterInv'
  BY DEF ArbitrationInv, TypeOK, WriterInv, AcceptGoal, Refused
<1>6. HomeIsWhereReleased'
  BY DEF ArbitrationInv, HomeIsWhereReleased, AcceptGoal
<1>7. GoalFollowsPilot'
  BY DEF ArbitrationInv, GoalFollowsPilot, AcceptGoal
<1> QED
  BY <1>1, <1>2, <1>3, <1>4, <1>5, <1>6, <1>7 DEF ArbitrationInv

LEMMA WriteGoalStep ==
    ASSUME ArbitrationInv, WriteGoal
    PROVE  ArbitrationInv'
<1>1. TypeOK'
  <2>1. goal' \in [by : {"config", "home", "message"}, at : Positions]
    BY DEF WriteGoal
  <2> QED
    BY <2>1 DEF ArbitrationInv, TypeOK, WriteGoal
<1>2. ReleasedInv'
  BY DEF ArbitrationInv, ReleasedInv, WriteGoal
<1>3. AloneInv'
  BY DEF ArbitrationInv, AloneInv, WriteGoal
<1>4. UnanchoredInv'
  BY DEF ArbitrationInv, UnanchoredInv, AloneInv, WriteGoal
<1>5. WriterInv'
  BY DEF ArbitrationInv, WriterInv, WriteGoal
<1>6. HomeIsWhereReleased'
  BY DEF ArbitrationInv, HomeIsWhereReleased, WriterInv, WriteGoal
<1>7. GoalFollowsPilot'
  BY DEF ArbitrationInv, GoalFollowsPilot, WriterInv, WriteGoal
<1> QED
  BY <1>1, <1>2, <1>3, <1>4, <1>5, <1>6, <1>7 DEF ArbitrationInv

-----------------------------------------------------------------------------
(* Steps of a capture *)

LEMMA CaptureReadStep ==
    ASSUME ArbitrationInv, NEW t \in Capturers, CaptureRead(t)
    PROVE  ArbitrationInv'
<1>1. TypeOK'
  BY DEF ArbitrationInv, TypeOK, CaptureRead
<1>2. ReleasedInv'
  BY DEF ArbitrationInv, ReleasedInv, CaptureRead
<1>3. AloneInv'
  BY DEF ArbitrationInv, AloneInv, CaptureRead
<1>4. UnanchoredInv'
  BY DEF ArbitrationInv, UnanchoredInv, CaptureRead
<1>5. WriterInv'
  BY DEF ArbitrationInv, WriterInv, ReleasedInv, CaptureRead
<1>6. HomeIsWhereReleased'
  BY DEF ArbitrationInv, HomeIsWhereReleased, UnanchoredInv, CaptureRead
<1>7. GoalFollowsPilot'
  BY DEF ArbitrationInv, GoalFollowsPilot, UnanchoredInv, CaptureRead
<1> QED
  BY <1>1, <1>2, <1>3, <1>4, <1>5, <1>6, <1>7 DEF ArbitrationInv

LEMMA CaptureStoreStep ==
    ASSUME ArbitrationInv, NEW t \in Capturers, CaptureStore(t)
    PROVE  ArbitrationInv'
<1>1. TypeOK'
  BY DEF ArbitrationInv, TypeOK, CaptureStore
<1>2. ReleasedInv'
  BY DEF ArbitrationInv, ReleasedInv, CaptureStore
<1>3. AloneInv'
  BY DEF ArbitrationInv, TypeOK, AloneInv, CaptureStore
<1>4. UnanchoredInv'
  BY DEF ArbitrationInv, UnanchoredInv, CaptureStore
<1>5. WriterInv'
  BY DEF ArbitrationInv, TypeOK, WriterInv, AloneInv, CaptureStore
<1>6. HomeIsWhereReleased'
  BY DEF ArbitrationInv, HomeIsWhereReleased, WriterInv, CaptureStore
<1>7. GoalFollowsPilot'
  BY DEF ArbitrationInv, TypeOK, GoalFollowsPilot, WriterInv, CaptureStore
<1> QED
  BY <1>1, <1>2, <1>3, <1>4, <1>5, <1>6, <1>7 DEF ArbitrationInv

LEMMA CaptureRetargetStep ==
    ASSUME ArbitrationInv, NEW t \in Capturers, CaptureRetarget(t)
    PROVE  ArbitrationInv'
<1>1. TypeOK'
  BY DEF ArbitrationInv, TypeOK, CaptureRetarget
<1>2. ReleasedInv'
  BY DEF ArbitrationInv, ReleasedInv, CaptureRetarget
<1>3. AloneInv'
  BY DEF ArbitrationInv, AloneInv, CaptureRetarget
<1>4. UnanchoredInv'
  BY DEF ArbitrationInv, UnanchoredInv, CaptureRetarget
<1>5. WriterInv'
  BY DEF ArbitrationInv, WriterInv, CaptureRetarget
<1>6. HomeIsWhereReleased'
  BY DEF ArbitrationInv, HomeIsWhereReleased, WriterInv, CaptureRetarget
<1>7. GoalFollowsPilot'
  BY DEF ArbitrationInv, GoalFollowsPilot, WriterInv, CaptureRetarget
<1> QED
  BY <1>1, <1>2, <1>3, <1>4, <1>5, <1>6, <1>7 DEF ArbitrationInv

LEMMA WithdrawStep ==
    ASSUME ArbitrationInv, NEW t \in Capturers, Withdraw(t)
    PROVE  ArbitrationInv'
<1>1. TypeOK'
  BY DEF ArbitrationInv, TypeOK, Withdraw
<1>2. ReleasedInv'
  BY DEF ArbitrationInv, ReleasedInv, Withdraw
<1>3. AloneInv'
  BY DEF ArbitrationInv, AloneInv, Withdraw
<1>4. UnanchoredInv'
  BY DEF ArbitrationInv, UnanchoredInv, Withdraw
<1>5. WriterInv'
  BY DEF ArbitrationInv, WriterInv, Withdraw
<1>6. HomeIsWhereReleased'
  BY DEF ArbitrationInv, HomeIsWhereReleased, Withdraw
<1>7. GoalFollowsPilot'
  BY DEF ArbitrationInv, GoalFollowsPilot, Withdraw
<1> QED
  BY <1>1, <1>2, <1>3, <1>4, <1>5, <1>6, <1>7 DEF ArbitrationInv

-----------------------------------------------------------------------------
(* Steps of callback_rc_active and of _rc_home_required *)

LEMMA RcActiveStep ==
    ASSUME ArbitrationInv, RcActive
    PROVE  ArbitrationInv'
<1> PICK active \in active_topic :
          /\ rc' = [received |-> TRUE, active |-> active, pending |-> ResumePending(active)]
          /\ released' = IF ~active /\ (rc.active \/ ~rc.received) THEN position ELSE released
          /\ IF CaptureNeeded(active) THEN capture' = [capture EXCEPT !["rc"].pc = "read"] /\ Begins
             ELSE IF active /\ ~(rc.received /\ rc.active)
             THEN capture' = [capture EXCEPT !["rc"].pc = "withdraw"] /\ UNCHANGED clash
             ELSE UNCHANGED <<capture, clash>>
  BY DEF RcActive
<1>0. /\ active \in BOOLEAN /\ ResumePending(active) \in BOOLEAN
      /\ capture["rc"].pc = "idle" /\ active_topic' = {}
      /\ UNCHANGED <<running, stick_active, goal_topic, vehicle, rc_home,
                     goal, external, goal_call, control, output>>
  BY DEF ArbitrationInv, TypeOK, RcActive, ResumePending
<1>a. CASE CaptureNeeded(active)
  <2>0. /\ ~active /\ ~ResumePending(active)
        /\ capture' = [capture EXCEPT !["rc"].pc = "read"] /\ clash' = Writing
    BY <1>a DEF CaptureNeeded, ResumePending
  <2>1. TypeOK'
    BY <1>0, <2>0 DEF ArbitrationInv, TypeOK
  <2>2. ReleasedInv'
    BY <1>0, <2>0 DEF ArbitrationInv, TypeOK, ReleasedInv
  <2>3. AloneInv'
    BY <1>0, <2>0 DEF ArbitrationInv, TypeOK, AloneInv
  <2>4. UnanchoredInv'
    BY <1>0, <2>0 DEF ArbitrationInv, TypeOK, UnanchoredInv
  <2>5. WriterInv'
    BY <1>0, <2>0 DEF ArbitrationInv, TypeOK, WriterInv
  <2>6. HomeIsWhereReleased' /\ GoalFollowsPilot'
    BY <1>0, <2>0 DEF ArbitrationInv, TypeOK, HomeIsWhereReleased, GoalFollowsPilot
  <2> QED
    BY <2>1, <2>2, <2>3, <2>4, <2>5, <2>6 DEF ArbitrationInv
<1>b. CASE ~CaptureNeeded(active) /\ ~active
  <2>0. /\ ~ResumePending(active) /\ rc.received /\ ~rc.active
        /\ UNCHANGED <<capture, clash, released>>
    BY <1>0, <1>b DEF CaptureNeeded, ResumePending
  <2>1. rc' = [received |-> TRUE, active |-> FALSE, pending |-> FALSE]
    BY <1>0, <1>b, <2>0
  <2> QED
    BY <1>0, <2>0, <2>1 DEF ArbitrationInv, TypeOK, ReleasedInv, AloneInv, UnanchoredInv,
                            WriterInv, HomeIsWhereReleased, GoalFollowsPilot
<1>c. CASE active /\ ~(rc.received /\ rc.active)
  <2>0. /\ capture' = [capture EXCEPT !["rc"].pc = "withdraw"]
        /\ UNCHANGED <<clash, released>>
        /\ rc' = [received |-> TRUE, active |-> TRUE, pending |-> TRUE]
    BY <1>0, <1>c DEF CaptureNeeded, ResumePending
  <2>1. TypeOK'
    BY <1>0, <2>0 DEF ArbitrationInv, TypeOK
  <2>2. ReleasedInv' /\ AloneInv' /\ UnanchoredInv'
    BY <1>0, <2>0 DEF ArbitrationInv, TypeOK, ReleasedInv, AloneInv, UnanchoredInv
  <2>3. WriterInv'
    BY <1>0, <2>0 DEF ArbitrationInv, TypeOK, WriterInv
  <2>4. HomeIsWhereReleased' /\ GoalFollowsPilot'
    BY <1>0, <2>0 DEF ArbitrationInv, TypeOK, HomeIsWhereReleased, GoalFollowsPilot
  <2> QED
    BY <2>1, <2>2, <2>3, <2>4 DEF ArbitrationInv
<1>d. CASE active /\ rc.received /\ rc.active
  <2>0. /\ rc' = rc /\ UNCHANGED <<capture, clash, released>>
    BY <1>0, <1>d DEF CaptureNeeded, ResumePending, ArbitrationInv, TypeOK
  <2> QED
    BY <1>0, <2>0 DEF ArbitrationInv, TypeOK, ReleasedInv, AloneInv, UnanchoredInv,
                      WriterInv, HomeIsWhereReleased, GoalFollowsPilot
<1> QED
  BY <1>0, <1>a, <1>b, <1>c, <1>d

LEMMA HomeRequiredStep ==
    ASSUME ArbitrationInv, NEW t \in Callers, NEW threat \in BOOLEAN, HomeRequired(t, threat)
    PROVE  ArbitrationInv'
<1>0. /\ home_set /\ control' \in [Callers -> {"idle", "rc_home", "planner", "avoid"}]
      /\ UNCHANGED <<teleop, vehicle, rc_stale, rc_home, goal, external, goal_call, output>>
  BY DEF ArbitrationInv, TypeOK, HomeRequired
<1>a. CASE TimedOut
  <2>0. /\ rc.active /\ rc' = [received |-> rc.received, active |-> FALSE, pending |-> FALSE]
        /\ released' = position
        /\ capture' = [capture EXCEPT ![t].pc = "read"] /\ clash' = Writing
    BY <1>a DEF HomeRequired, TimedOut, ArbitrationInv, TypeOK
  <2>1. TypeOK'
    BY <1>0, <2>0 DEF ArbitrationInv, TypeOK
  <2>2. ReleasedInv' /\ AloneInv' /\ UnanchoredInv'
    BY <1>0, <2>0 DEF ArbitrationInv, TypeOK, ReleasedInv, AloneInv, UnanchoredInv
  <2>3. WriterInv'
    BY <1>0, <2>0 DEF ArbitrationInv, TypeOK, WriterInv
  <2>4. HomeIsWhereReleased' /\ GoalFollowsPilot'
    BY <1>0, <2>0 DEF ArbitrationInv, TypeOK, HomeIsWhereReleased, GoalFollowsPilot
  <2> QED
    BY <2>1, <2>2, <2>3, <2>4 DEF ArbitrationInv
<1>b. CASE ~TimedOut /\ rc' = rc /\ capture' = [capture EXCEPT ![t].pc = "read"] /\ Begins
           /\ (~rc.active \/ rc.pending)
  <2>0. released' = released
    BY <1>b DEF HomeRequired
  <2>1. TypeOK'
    BY <1>0, <1>b DEF ArbitrationInv, TypeOK
  <2>2. ReleasedInv' /\ AloneInv' /\ UnanchoredInv'
    BY <1>0, <1>b, <2>0 DEF ArbitrationInv, TypeOK, ReleasedInv, AloneInv, UnanchoredInv
  <2>3. WriterInv'
    BY <1>0, <1>b, <2>0 DEF ArbitrationInv, TypeOK, WriterInv
  <2>4. HomeIsWhereReleased' /\ GoalFollowsPilot'
    BY <1>0, <1>b, <2>0 DEF ArbitrationInv, TypeOK, HomeIsWhereReleased, GoalFollowsPilot
  <2> QED
    BY <2>1, <2>2, <2>3, <2>4 DEF ArbitrationInv
<1>c. CASE ~TimedOut /\ UNCHANGED <<rc, capture, clash>>
  <2>0. released' = released
    BY <1>c DEF HomeRequired
  <2> QED
    BY <1>0, <1>c, <2>0 DEF ArbitrationInv, TypeOK, ReleasedInv, AloneInv, UnanchoredInv,
                            WriterInv, HomeIsWhereReleased, GoalFollowsPilot
<1> QED
  BY <1>a, <1>b, <1>c DEF HomeRequired


-----------------------------------------------------------------------------
(* Theorems *)

LEMMA Invariance == Spec => []ArbitrationInv
<1>1. ArbitrationInv /\ [Next]_vars => ArbitrationInv'
  <2> SUFFICES ASSUME ArbitrationInv, [Next]_vars PROVE ArbitrationInv'
    OBVIOUS
  <2>1. CASE Spin \/ Stop \/ Restart \/ WaypointSent \/ RcTimeout
    BY <2>1, TopicsStep
  <2>2. CASE Move \/ AnchorHome \/ WriteAnchor
    BY <2>2, MoveStep, AnchorHomeStep, WriteAnchorStep
  <2>3. CASE AcceptGoal \/ WriteGoal
    BY <2>3, AcceptGoalStep, WriteGoalStep
  <2>4. CASE RcActive
    BY <2>4, RcActiveStep
  <2>5. ASSUME NEW t \in Capturers, Capture(t) PROVE ArbitrationInv'
    BY <2>5, CaptureReadStep, CaptureStoreStep, CaptureRetargetStep, WithdrawStep DEF Capture
  <2>6. ASSUME NEW t \in Callers, ControlPub(t) PROVE ArbitrationInv'
    BY <2>6, HomeRequiredStep, PublishStep DEF ControlPub
  <2>7. CASE UNCHANGED vars
    BY <2>7 DEF vars, ArbitrationInv, TypeOK, ReleasedInv, AloneInv, UnanchoredInv, WriterInv,
                HomeIsWhereReleased, GoalFollowsPilot
  <2> QED
    BY <2>1, <2>2, <2>3, <2>4, <2>5, <2>6, <2>7 DEF Next
<1> QED
  BY <1>1, InitInv, PTL DEF Spec

\* The variables of the arbitration have their types, and a goal is awaited of an
\* active stick only.
THEOREM GoalTypeCorrect == Spec => []TypeOK
BY Invariance, PTL DEF ArbitrationInv

\* Whichever thread captures home, the pilot's or one that calls control_pub, and
\* whatever comes between its locks: with a released stick home is not a position
\* from before the release, unless two writers met.
THEOREM HomeStaysWhereReleased == Spec => []HomeIsWhereReleased
BY Invariance, PTL DEF ArbitrationInv

\* Unless two writers met, the goal is home when the stick is released, and one
\* that came since it is active when a goal is no longer awaited.
THEOREM GoalAnswersPilot == Spec => []GoalFollowsPilot
BY Invariance, PTL DEF ArbitrationInv
=============================================================================

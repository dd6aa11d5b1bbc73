-------------------------- MODULE GoalArbitration --------------------------
(***************************************************************************)
(* Who decides where the planner flies to (omnirisk_node.py): goals, the   *)
(* pilot's stick, or the home position captured when the stick was let go; *)
(* and what the teleoperation node (rc_goal_teleop.py) publishes.          *)
(*                                                                         *)
(* rospy runs the callbacks of different topics in different threads:      *)
(*   callback_set_goal    AcceptGoal, WriteGoal                            *)
(*   callback_rc_active   RcActive, Withdraw, and a capture of home        *)
(*   callback_odometry    Move, AnchorHome, WriteAnchor                    *)
(*   control_pub          HomeRequired, a capture of home, Publish         *)
(* and each step is what one of them does under one lock.  ControlLoop has *)
(* what control_pub does when it goes on to the trajectory.                *)
(*                                                                         *)
(* The vehicle is in position 0 on the ground and where it was taken off,  *)
(* and each later position has a larger number than those before.          *)
(* Altitudes, the height reference of the return, and arrival are left     *)
(* out, and so is how the teleoperation node judges its input: whether it  *)
(* finds the stick active is open.  A topic holds at most one message      *)
(* (queue_size 1).  Optional values are sets of at most one element.       *)
(***************************************************************************)
EXTENDS Integers

CONSTANTS
    Callers,      \* threads that call control_pub: the timer and the inference thread
    NavMode,      \* nav_mode
    MaxPosition   \* bound: positions the vehicle comes to

ASSUME ArbitrationAssumption ==
    "rc" \notin Callers /\ NavMode \in BOOLEAN /\ MaxPosition \in Nat

VARIABLES
    running,      \* the teleoperation node runs
    stick_active, \* its _stick_active; inactive means that no goal is published
    active_topic, \* the message under way on rc_goal_active, if any
    goal_topic,   \* a message is under way on move_base_simple/goal
    position,     \* of the vehicle, as the latest odometry has it
    home_set,     \* home_set; home is where it was anchored
    anchoring,    \* the position callback_odometry is about to make the goal, if any
    rc,           \* rc_state_received, rc_active, rc_resume_pending
    rc_stale,     \* rc_state_timeout has passed since rc_state_last_monotonic
    rc_home,      \* rc_home, if any
    goal,         \* goal: who gave it, and where it is if that is a position
    external,     \* external_goal_received
    goal_call,    \* callback_set_goal is about to write the goal it has accepted
    capture,      \* the capture of each thread: where it is, the position it has read
    control,      \* the calls of control_pub: what is to be done when a capture is over
    output,       \* the last command of control_pub
    released,     \* history: the position when the stick was last found inactive
    clash         \* history: the last to write the goal did not have it for itself

teleop   == <<running, stick_active, active_topic, goal_topic>>
vehicle  == <<position, home_set, anchoring>>
arbiter  == <<rc, rc_stale, rc_home, goal, external>>
handlers == <<goal_call, capture, control>>
vars     == <<teleop, vehicle, arbiter, handlers, output, released, clash>>

Positions  == 0..MaxPosition
Message    == [by |-> "message", at |-> 0]
Home(p)    == [by |-> "home", at |-> p]
Capturers  == {"rc"} \cup Callers
NoCapture  == [pc |-> "idle", at |-> 0]

\* what control_pub sends: nothing yet, the RC home, the anchored home or its own
\* hover, or a trajectory
Output == [kind : {"none", "rc_home", "planner"}, at : Positions]

Init ==
    /\ running = TRUE /\ stick_active = FALSE
    /\ active_topic = {} /\ goal_topic = FALSE
    /\ position = 0 /\ home_set = FALSE /\ anchoring = {}
    /\ rc = [received |-> FALSE, active |-> FALSE, pending |-> FALSE]
    /\ rc_stale = FALSE
    /\ rc_home = {}
    /\ goal = [by |-> "config", at |-> 0] /\ external = FALSE
    /\ goal_call = FALSE
    /\ capture = [t \in Capturers |-> NoCapture]
    /\ control = [t \in Callers |-> "idle"]
    /\ output = [kind |-> "none", at |-> 0]
    /\ released = 0
    /\ clash = FALSE

\* Some thread is about to write the goal.
Writing ==
    \/ goal_call \/ anchoring # {}
    \/ \E t \in Capturers : capture[t].pc \in {"read", "store", "retarget"}

\* A writer that finds another one begins a clash, one that does not ends it.
Begins == clash' = Writing

-----------------------------------------------------------------------------
(* The teleoperation node *)

\* An iteration of spin(): a goal is published of an active stick only, if the
\* vehicle's position is known and the goal has moved far enough from the last.
Spin ==
    /\ running
    /\ stick_active' \in BOOLEAN
    /\ active_topic' = {stick_active'}
    /\ \/ stick_active' /\ goal_topic' = TRUE
       \/ UNCHANGED goal_topic
    /\ UNCHANGED <<running, vehicle, arbiter, handlers, output, released, clash>>

Stop ==
    /\ running /\ running' = FALSE
    /\ UNCHANGED <<stick_active, active_topic, goal_topic, vehicle, arbiter, handlers,
                   output, released, clash>>

Restart ==
    /\ ~running /\ running' = TRUE
    /\ stick_active' = FALSE
    /\ UNCHANGED <<active_topic, goal_topic, vehicle, arbiter, handlers, output,
                   released, clash>>

-----------------------------------------------------------------------------
(* The vehicle *)

Move ==
    /\ anchoring = {} /\ position < MaxPosition /\ position' = position + 1
    /\ UNCHANGED <<teleop, home_set, anchoring, arbiter, handlers, output, released, clash>>

\* callback_odometry: the vehicle hovers for the first time
AnchorHome ==
    /\ ~home_set /\ anchoring = {}
    /\ IF ~NavMode /\ ~external
       THEN anchoring' = {position} /\ Begins /\ UNCHANGED home_set
       ELSE home_set' = TRUE /\ UNCHANGED <<anchoring, clash>>
    /\ UNCHANGED <<teleop, position, arbiter, handlers, output, released>>

WriteAnchor ==
    /\ \E p \in anchoring : goal' = Home(p)
    /\ anchoring' = {} /\ home_set' = TRUE
    /\ UNCHANGED <<teleop, position, rc, rc_stale, rc_home, external, handlers,
                   output, released, clash>>

-----------------------------------------------------------------------------
(* callback_set_goal *)

\* a goal that does not come from the stick
WaypointSent ==
    /\ goal_topic' = TRUE
    /\ UNCHANGED <<running, stick_active, active_topic, vehicle, arbiter,
                   handlers, output, released, clash>>

\* Faulty variant: no goal until the stick has been resumed.
RefusesWhilePending == rc.received /\ (~rc.active \/ rc.pending)
Refused             == rc.received /\ ~rc.active

AcceptGoal ==
    /\ goal_topic /\ ~goal_call
    /\ goal_topic' = FALSE
    /\ IF Refused THEN UNCHANGED <<goal_call, rc, clash>>
       ELSE /\ goal_call' = TRUE
            /\ rc' = [rc EXCEPT !.pending = FALSE]
            /\ Begins
    /\ UNCHANGED <<running, stick_active, active_topic, vehicle,
                   rc_stale, rc_home, goal, external, capture, control, output, released>>

WriteGoal ==
    /\ goal_call /\ goal_call' = FALSE
    /\ goal' = Message /\ external' = TRUE
    /\ UNCHANGED <<teleop, vehicle, rc, rc_stale, rc_home, capture, control, output, released, clash>>

-----------------------------------------------------------------------------
(* callback_rc_active *)

\* Faulty variant: home is captured only once.
CapturesOnce(active)    == ~active /\ rc_home = {}
CaptureNeeded(active)   == ~active /\ (~rc.received \/ rc.active \/ rc_home = {})

\* Faulty variant: an active stick uses the old goal.
ResumesAtOnce(active)   == FALSE
ResumePending(active)   == active /\ (rc.pending \/ ~(rc.received /\ rc.active))

RcActive ==
    /\ active_topic # {} /\ capture["rc"].pc = "idle"
    /\ active_topic' = {}
    /\ \E active \in active_topic :
          /\ rc' = [received |-> TRUE, active |-> active, pending |-> ResumePending(active)]
          /\ released' = IF ~active /\ (rc.active \/ ~rc.received) THEN position ELSE released
          /\ IF CaptureNeeded(active) THEN capture' = [capture EXCEPT !["rc"].pc = "read"] /\ Begins
             ELSE IF active /\ ~(rc.received /\ rc.active)
             THEN capture' = [capture EXCEPT !["rc"].pc = "withdraw"] /\ UNCHANGED clash
             ELSE UNCHANGED <<capture, clash>>
    /\ rc_stale' = FALSE
    /\ UNCHANGED <<running, stick_active, goal_topic, vehicle, rc_home,
                   goal, external, goal_call, control, output>>

RcTimeout ==
    /\ rc.received /\ ~rc_stale
    /\ rc_stale' = TRUE
    /\ UNCHANGED <<teleop, vehicle, rc, rc_home, goal, external, handlers, output, released, clash>>

-----------------------------------------------------------------------------
(* _capture_rc_home, of either thread *)

CaptureRead(t) ==
    /\ capture[t].pc = "read"
    /\ capture' = [capture EXCEPT ![t] = IF home_set THEN [pc |-> "store", at |-> position]
                                         ELSE NoCapture]
    /\ UNCHANGED <<teleop, vehicle, arbiter, goal_call, control, output, released, clash>>

CaptureStore(t) ==
    /\ capture[t].pc = "store"
    /\ IF ~rc.active
       THEN rc_home' = {capture[t].at} /\ capture' = [capture EXCEPT ![t].pc = "retarget"]
       ELSE capture' = [capture EXCEPT ![t] = NoCapture] /\ UNCHANGED rc_home
    /\ UNCHANGED <<teleop, vehicle, rc, rc_stale, goal, external, goal_call, control,
                   output, released, clash>>

CaptureRetarget(t) ==
    /\ capture[t].pc = "retarget"
    /\ goal' = Home(capture[t].at) /\ external' = FALSE
    /\ capture' = [capture EXCEPT ![t] = [pc |-> "withdraw", at |-> 0]]
    /\ UNCHANGED <<teleop, vehicle, rc, rc_stale, rc_home, goal_call, control, output, released, clash>>

\* the trajectory is withdrawn, see ControlLoop
Withdraw(t) ==
    /\ capture[t].pc = "withdraw"
    /\ capture' = [capture EXCEPT ![t] = NoCapture]
    /\ UNCHANGED <<teleop, vehicle, arbiter, goal_call, control, output, released, clash>>

Capture(t) == CaptureRead(t) \/ CaptureStore(t) \/ CaptureRetarget(t) \/ Withdraw(t)

-----------------------------------------------------------------------------
(* control_pub *)

\* Faulty variant: silence is not noticed.
NeverTimesOut == FALSE
TimedOut      == rc_stale /\ rc.active

\* _rc_home_required; control_pub has looked before whether there is a threat
HomeRequired(t, threat) ==
    /\ control[t] = "idle" /\ home_set
    /\ LET after    == IF TimedOut THEN [rc EXCEPT !.active = FALSE, !.pending = FALSE] ELSE rc
           required == rc.received /\ (~after.active \/ after.pending)
       IN  /\ rc' = after
           /\ released' = IF TimedOut THEN position ELSE released
           /\ IF TimedOut \/ (required /\ rc_home = {})
              THEN capture' = [capture EXCEPT ![t].pc = "read"] /\ Begins
              ELSE UNCHANGED <<capture, clash>>
           /\ control' = [control EXCEPT ![t] = IF ~required THEN "planner"
                                                ELSE IF threat THEN "avoid" ELSE "rc_home"]
    /\ UNCHANGED <<teleop, vehicle, rc_stale, rc_home, goal, external, goal_call, output>>

\* without a home to return to nothing is sent
Publish(t) ==
    /\ control[t] # "idle" /\ capture[t].pc = "idle"
    /\ \/ control[t] \in {"planner", "avoid"} /\ output' = [kind |-> "planner", at |-> 0]
       \/ control[t] = "rc_home" /\ \E p \in rc_home : output' = [kind |-> "rc_home", at |-> p]
       \/ control[t] = "rc_home" /\ rc_home = {} /\ UNCHANGED output
    /\ control' = [control EXCEPT ![t] = "idle"]
    /\ UNCHANGED <<teleop, vehicle, arbiter, goal_call, capture, released, clash>>

ControlPub(t) == (\E threat \in BOOLEAN : HomeRequired(t, threat)) \/ Publish(t)

-----------------------------------------------------------------------------

Next ==
    \/ Spin \/ Stop \/ Restart
    \/ Move \/ AnchorHome \/ WriteAnchor
    \/ WaypointSent \/ AcceptGoal \/ WriteGoal
    \/ RcActive \/ RcTimeout
    \/ \E t \in Capturers : Capture(t)
    \/ \E t \in Callers : ControlPub(t)

\* The node's spin() and the planner's threads go on.  A node that has stopped is
\* noticed after rc_state_timeout.
Spec ==
    /\ Init /\ [][Next]_vars
    /\ WF_vars(Spin)
    /\ WF_vars(RcActive) /\ WF_vars(~running /\ active_topic = {} /\ RcTimeout)
    /\ \A t \in Capturers : WF_vars(Capture(t))
    /\ \A t \in Callers : WF_vars(ControlPub(t))
    /\ WF_vars(AcceptGoal) /\ WF_vars(WriteGoal)

-----------------------------------------------------------------------------
(* Properties *)

TypeOK ==
    /\ running \in BOOLEAN /\ stick_active \in BOOLEAN
    /\ active_topic \subseteq BOOLEAN /\ goal_topic \in BOOLEAN
    /\ position \in Positions /\ home_set \in BOOLEAN /\ anchoring \subseteq Positions
    /\ rc \in [received : BOOLEAN, active : BOOLEAN, pending : BOOLEAN]
    /\ rc.pending => rc.active
    /\ rc_home \subseteq Positions
    /\ goal \in [by : {"config", "home", "message"}, at : Positions]
    /\ goal_call \in BOOLEAN
    /\ capture \in [Capturers -> [pc : {"idle", "read", "store", "retarget", "withdraw"},
                                  at : Positions]]
    /\ control \in [Callers -> {"idle", "rc_home", "planner", "avoid"}]
    /\ output \in Output

\* The last to write the goal had it for itself.  Captures of both threads, and a
\* goal accepted before a capture and written after it, may leave an older home or
\* goal behind: each takes two or three locks, one after the other.
Agreed == ~Writing /\ ~clash

\* The pilot lets go of the stick, or the teleoperation node falls silent: the
\* vehicle is to stay where it was then or came to since, not where it was
\* released before.
HomeIsWhereReleased ==
    Agreed /\ rc.received /\ ~rc.active => \A p \in rc_home : p >= released

\* With a released stick the planner's goal is home, so that avoiding a threat
\* draws the vehicle back; with an active one it is a goal that came since.
GoalFollowsPilot ==
    Agreed /\ rc.received =>
        /\ ~rc.active => \A p \in rc_home : goal = Home(p) /\ ~external
        /\ rc.active /\ ~rc.pending => goal = Message /\ external

\* A stick that stays released, or a teleoperation node that is gone, ends in
\* commands to stay home, whatever goals still arrive and however the RC state
\* timed out before, as soon as there are no more threats.
HomeInTheEnd ==
    /\ <>[](home_set /\ rc.received /\ \A t \in Callers : control[t] # "avoid")
    /\ <>[](running /\ ~stick_active) \/ <>[]~running
    => <>[](output.kind = "rc_home" /\ output.at \in rc_home)

\* A stick that stays active, and from which goals keep coming, is followed in the
\* end.  (A goal that overtakes the message that the stick is active is dropped, and
\* one held still is not published again: a stick held still may never be followed.)
PilotIsFollowed ==
    /\ <>[](running /\ stick_active /\ ~rc_stale) /\ []<>goal_topic
    => <>[](rc.active /\ ~rc.pending /\ goal = Message /\ external)
=============================================================================

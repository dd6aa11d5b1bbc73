---------------------------- MODULE ControlLoop ----------------------------
(***************************************************************************)
(* control_pub of the planner (omnirisk_node.py, control_state.py): which  *)
(* command is sent next - a sample of the trajectory installed, a static   *)
(* target (home, or the hold position), or the hover pose latched when no  *)
(* trajectory may be flown.  It is run by a timer, and by the inference    *)
(* thread after each trajectory it has installed.                          *)
(*                                                                         *)
(* The planner's side is that of TrajectoryAuthority: plans are accepted,  *)
(* and withdrawn by resets, mode changes and RC callbacks.  A call is      *)
(*   "called"    by the inference thread, at the decision for a static     *)
(*               target, which depends on RC, goal and threat and is left  *)
(*               open; the timer's call starts with this decision          *)
(*   "static"    about to drop the latched pose                            *)
(*   "sending"   about to publish the static target, without a lock        *)
(*   "reading"   about to read the pose and the monotonic time             *)
(*   "deciding"  about to take sync_condition and lock                     *)
(*                                                                         *)
(* The pose of the vehicle is identified with the time it is read at, the  *)
(* trajectory's clock counts control periods.  How often the timer calls   *)
(* is not tied to the clock.  Optional values are sets of at most one      *)
(* element.                                                                *)
(***************************************************************************)
EXTENDS Integers

CONSTANTS
    Duration,        \* length of a trajectory in control periods
    RefreshTimeout,  \* trajectory_refresh_timeout in ticks
    MaxTime,         \* bound on the clock
    MaxStamp,        \* bound on the stamps of accepted frames
    MaxTimeline,     \* bound on the number of resets
    MaxEpoch         \* bound on the number of mode changes

ASSUME LoopAssumption ==
    /\ Duration \in Nat \ {0} /\ RefreshTimeout \in Nat \ {0}
    /\ {MaxTime, MaxStamp, MaxTimeline, MaxEpoch} \subseteq Nat

VARIABLES
    now,         \* time.monotonic()
    timeline, epoch, newest, mode,   \* the planner: generation, mode version, last commit, mode
    reference,   \* the trajectory installed, with ctrl_time and what belongs to it
    latch,       \* fallback_hover_target
    calls,       \* the two threads in control_pub
    output,      \* the last command published
    timerSamples,\* samples of the trajectory installed that the timer has sent, as far as
                 \* the trajectory has samples and one more
    sampledAt,   \* when the last sample was sent
    overtaken,   \* history: threads that have read and wait, while a trajectory was
                 \* installed or the other one decided
    outdated     \* history: the pose was latched, or a sample sent past it, by such a thread

planner == <<timeline, epoch, newest, mode>>
samples == <<timerSamples, sampledAt>>
history == <<overtaken, outdated>>
vars    == <<now, planner, reference, latch, calls, output, samples, history>>

Threads == {"timer", "inference"}
Modes   == {"HOVER", "CRUISE", "DODGE"}
Time    == 0..MaxTime

Reference == [stamp : 1..MaxStamp, timeline : 0..MaxTimeline, epoch : 0..MaxEpoch,
              clock : 0..Duration, repeat : BOOLEAN, committed : Time]
Call      == [pc : {"idle", "called", "static", "sending", "reading", "deciding"},
              read : Time]
Outputs   == {"none", "static", "sample", "hover"}
NoCall    == [pc |-> "idle", read |-> 0]

Init ==
    /\ now = 0
    /\ timeline = 0 /\ epoch = 0 /\ newest = 0 /\ mode = "HOVER"
    /\ reference = {}
    /\ latch = {}
    /\ calls = [t \in Threads |-> NoCall]
    /\ output = "none"
    /\ timerSamples = 0 /\ sampledAt = 0
    /\ overtaken = {} /\ outdated = FALSE

Tick ==
    /\ now < MaxTime
    /\ now' = now + 1
    /\ UNCHANGED <<planner, reference, latch, calls, output, samples, history>>

-----------------------------------------------------------------------------
(* The planner *)

Reset ==
    /\ timeline < MaxTimeline
    /\ timeline' = timeline + 1 /\ newest' = 0
    /\ reference' = {}
    /\ UNCHANGED <<now, epoch, mode, latch, calls, output, samples, history>>

\* Faulty variant: the trajectory of the former mode stays installed.
KeepsTrajectory == reference
Withdrawn       == {}

ModeChanges ==
    /\ epoch < MaxEpoch
    /\ epoch' = epoch + 1 /\ mode' \in Modes \ {mode}
    /\ reference' = Withdrawn
    /\ UNCHANGED <<now, timeline, newest, latch, calls, output, samples, history>>

\* callback_rc_active, _capture_rc_home
InvalidateActiveTrajectory ==
    /\ reference' = {}
    /\ UNCHANGED <<now, planner, latch, calls, output, samples, history>>

Deciding == {t \in Threads : calls[t].pc = "deciding"}

\* Faulty variant: the pose stays latched.
KeepsLatch   == latch
DroppedLatch == {}

\* the inference thread installs a trajectory and calls control_pub
Commit ==
    /\ calls["inference"].pc = "idle"
    /\ newest' \in (newest + 1)..MaxStamp
    /\ IF mode = "HOVER" THEN UNCHANGED <<reference, latch, calls, timerSamples, history>>
       ELSE /\ reference' = {[stamp |-> newest', timeline |-> timeline, epoch |-> epoch,
                              clock |-> 0, repeat |-> TRUE, committed |-> now]}
            /\ latch' = DroppedLatch
            /\ calls' = [calls EXCEPT !["inference"].pc = "called"]
            /\ timerSamples' = 0
            /\ overtaken' = overtaken \cup Deciding /\ outdated' = FALSE
    /\ UNCHANGED <<now, timeline, epoch, mode, output, sampledAt>>

-----------------------------------------------------------------------------
(* control_pub *)

\* RC home or the hold position; the trajectory; or nothing, when RC has become
\* active again before a home position was captured
Branch(t) ==
    /\ calls[t].pc = IF t = "timer" THEN "idle" ELSE "called"
    /\ \E pc \in {"static", "reading", "idle"} : calls' = [calls EXCEPT ![t].pc = pc]
    /\ UNCHANGED <<now, planner, reference, latch, output, samples, history>>

DropLatch(t) ==
    /\ calls[t].pc = "static"
    /\ latch' = DroppedLatch /\ outdated' = FALSE
    /\ calls' = [calls EXCEPT ![t].pc = "sending"]
    /\ UNCHANGED <<now, planner, reference, output, samples, overtaken>>

SendStatic(t) ==
    /\ calls[t].pc = "sending"
    /\ output' = "static"
    /\ calls' = [calls EXCEPT ![t] = NoCall]
    /\ UNCHANGED <<now, planner, reference, latch, samples, history>>

Read(t) ==
    /\ calls[t].pc = "reading"
    /\ calls' = [calls EXCEPT ![t].read = now, ![t].pc = "deciding"]
    /\ UNCHANGED <<now, planner, reference, latch, output, samples, history>>

\* Faulty variants: the first sample is not repeated, or always.
NeverRepeats(ref)  == ref.clock + 1
AlwaysRepeats(ref) == ref.clock
\* next_trajectory_sample()
NextClock(ref) == IF ref.repeat THEN ref.clock ELSE ref.clock + 1

\* trajectory_is_executable(), at a time
Executable(ref, time) ==
    /\ mode # "HOVER"
    /\ ref.epoch = epoch
    /\ ref.clock + 1 <= Duration
    /\ time - ref.committed \in 0..RefreshTimeout

LatchedHover(pose) == IF latch = {} THEN {pose} ELSE latch

Hover(t) ==
    /\ \A ref \in reference : ~Executable(ref, calls[t].read)
    /\ latch' = LatchedHover(calls[t].read)
    /\ outdated' = ((latch = {} /\ t \in overtaken) \/ (latch # {} /\ outdated))
    /\ output' = "hover"
    /\ UNCHANGED <<reference, samples>>

\* arrived: the last command again, as a static target
Arrived(t) ==
    /\ \E ref \in reference : Executable(ref, calls[t].read)
    /\ latch' = DroppedLatch /\ outdated' = FALSE
    /\ output' = "static"
    /\ UNCHANGED <<reference, samples>>

Follow(t) ==
    /\ \E ref \in reference :
          /\ Executable(ref, calls[t].read)
          /\ reference' = {[ref EXCEPT !.clock = NextClock(ref), !.repeat = FALSE]}
    /\ output' = "sample"
    /\ timerSamples' = IF t = "timer" /\ timerSamples <= Duration
                       THEN timerSamples + 1 ELSE timerSamples
    /\ sampledAt' = now
    /\ outdated' = (latch # {} /\ (outdated \/ t \in overtaken))
    /\ UNCHANGED latch

Decide(t) ==
    /\ calls[t].pc = "deciding"
    /\ Hover(t) \/ Arrived(t) \/ Follow(t)
    /\ calls' = [calls EXCEPT ![t] = NoCall]
    /\ overtaken' = (overtaken \cup Deciding) \ {t}
    /\ UNCHANGED <<now, planner>>

ControlPub(t) ==
    Branch(t) \/ DropLatch(t) \/ SendStatic(t) \/ Read(t) \/ Decide(t)

Next ==
    \/ Tick \/ Reset \/ ModeChanges \/ InvalidateActiveTrajectory \/ Commit
    \/ \E t \in Threads : ControlPub(t)

Safety == Init /\ [][Next]_vars

\* The timer fires again and again, calls of control_pub end, and not every one of
\* them finds RC active again.  Neither is the clock assumed to advance nor the
\* planner to deliver anything.
Spec == Safety /\ \A t \in Threads : WF_vars(ControlPub(t))

-----------------------------------------------------------------------------
(* Properties *)

TypeOK ==
    /\ now \in Time
    /\ timeline \in 0..MaxTimeline /\ epoch \in 0..MaxEpoch
    /\ newest \in 0..MaxStamp /\ mode \in Modes
    /\ reference \subseteq Reference
    /\ latch \subseteq Time
    /\ calls \in [Threads -> Call]
    /\ output \in Outputs
    /\ timerSamples \in Nat /\ sampledAt \in Time
    /\ overtaken \subseteq Threads /\ outdated \in BOOLEAN

\* The trajectory's clock never runs ahead of the timer, nor more than the repetition of
\* the first sample behind: the sample the inference thread sends when it has installed a
\* trajectory costs no period, whether the timer comes before or after it, and a
\* trajectory that is not replaced has at most Duration + 1 samples of the timer's.
TrajectoryClock == \A ref \in reference : ref.clock \in {timerSamples - 1, timerSamples}

Authority == INSTANCE TrajectoryAuthority
    WITH active <- {[stamp |-> ref.stamp, timeline |-> ref.timeline, epoch |-> ref.epoch] :
                    ref \in reference}

\* What control_pub may follow is the plan of the planner's authority, and
\* following it changes nothing about whose turn it is.
ImplementsAuthority == Authority!Spec

\* The vehicle hovers where it was after the last sample, not where it was before a
\* trajectory it has flown since: a latched pose is older than the last sample only if
\* the call that latched it, or the one that sent the sample, had been overtaken between
\* its reading of pose and time and its lock.  For that the pose must be dropped when a
\* trajectory is installed, and no call may find a trajectory executable that one with
\* an earlier time could not.
HoverPoseCurrent == \A pose \in latch : outdated \/ pose >= sampledAt

\* A trajectory that is not replaced is left after its last sample, even if
\* the monotonic clock stood still.
ReferenceEnds == output = "sample" ~> output # "sample"

\* What config/traj_opt.yaml:94 says: on a timeout the present pose is latched.
\* The pose hovered at was read after the last sample was sent.
HoversAtCurrentPose == output = "hover" => \A pose \in latch : pose >= sampledAt
=============================================================================

# TLA+ verification of OmniRisk

OmniRisk is a risk-aware planner for an omnidirectional-lidar quadrotor together
with the onboard software it flies with.  This directory models the parts of it
whose correctness depends on the order in which threads, callbacks, messages,
operators and a flight controller act, checks them with TLC on small instances
and proves the main safety properties with TLAPS for every value of the
constants.  Numerical code (control laws, filters, networks, ray casting) is
abstracted to what the discrete decisions can see of it.

All source paths below are relative to the repository root (`src/` here).

## 1. The system

```
 Livox lidar --> FAST_LIO --odometry, cloud--> M-detector node --tracks--+
                    |                                                    |
                    +--> ekf_quat_pose --odometry--> px4ctrl             v
                                                       ^   ^   OmniRisk planner (Python)
                                  RC, takeoff_land ----+   |     perception threads, slots,
                                  PX4 (mavros) <--services-+     control timer, RC goal teleop
                                                           +----- position commands
```

| Component | State it keeps | Operations | What is hard about it |
|---|---|---|---|
| M-detector frame queue (`BoundedFrameQueue.h`) | deque, closed flag, last stamp, drop counter | `push`, `tryTake`, `waitAndTake`, `close` | wake-ups, eviction, shutdown, backward time jumps |
| M-detector node (`dynfilter_with_odom.cpp`) | queue, processing thread, tracker, publishers | synchronised callback, worker loop, tracker call, `main()` shutdown | exceptions that lose a frame, two clocks, drain at exit |
| Frame tracker (`FrameTracker.cpp`) | tracks, frame index, last frame stamp, counters of names | `update` | stamps out of order, reset in mid stream, merging of duplicates, tracks that outlive their evidence |
| px4ctrl RC input (`input.cpp`) | switch positions and edges | `feed`, clearing at the end of a cycle | edges that outlive or miss their cycle |
| px4ctrl state machine (`PX4CtrlFSM.cpp`) | flight state, requests, previous FCU mode, land detector | one `process()` per cycle with nested `spinOnce` loops | stale reports, refused services, callbacks inside `process()` |
| Planner runtime modes (`runtime_modes.py`) | mode, version | select, is_current | versions seen by concurrent workers |
| Planner perception (`perception_sync.py`, `omnirisk_node.py`) | stamped caches, latest-only slots, pipeline generation | append, select, publish, take, commit, reset | results computed before a reset or a mode change |
| Planner control loop (`omnirisk_node.py`, `control_state.py`) | trajectory with its clock, latched hover pose, last command | `control_pub` on the timer and after a commit | two callers, values read before the lock |
| Planner goal arbitration (`omnirisk_node.py`, `rc_home.py`) | goal, home, arrival, RC state | goal, odometry and RC callbacks, capture of the RC home | callbacks between two locked sections |
| RC goal teleop (`rc_goal_teleop.py`) | active flag, centring, offset | RC message, iteration of `spin()` | arbitration with goals from elsewhere, falling silent |
| EKF pose fusion (`ekf_node_vio_timesync_with_acc_pub.cpp`) | state, buffer of IMU frames | IMU and odometry callbacks | late odometry, going back and predicting anew |
| Simulated controller (`so3_control`) | takeoff state, hover set point | takeoff service, commands | service while in flight |
| FAST-LIO (`laserMapping.cpp`, `IMU_Processing.hpp`) | buffers of scans, stamps and IMU messages, the scan that waits, end of the last scan | IMU and lidar callbacks, `sync_packages`, prediction | clocks set back, a scan that waits for the IMU, boundaries between sweeps |

What is not modelled, and why, is in section 7; `PROJECT.json` lists every component
with its status.

### Behaviours that make the system hard

* The queue: several frames may be pushed before a notified thread runs, another
  consumer may take the frame first, `close()` races with waiting threads.
* Two clocks: the queue compares time stamps with the last frame it *accepted*,
  the tracker with the last frame it *processed*; frames are lost in between.
* px4ctrl asks a flight controller that may refuse, reports about once a second
  and is also operated by the pilot; it reads messages in the middle of a cycle.
* Static variables of the land detector survive flights.
* Requests are edges: they must neither be lost to a nested spin nor act twice.
* The planner's workers look at the mode and the generation, let go of the lock,
  compute for tens of milliseconds and hand on: a reset or a mode change may fall in
  between, and the slots they hand work through have locks of their own.
* The planner's control function runs on a timer and, after each new trajectory, in
  the inference thread as well.
* The home position to return to is captured in three critical sections under three
  locks, from the RC callback and from `control_pub`, while goals come from elsewhere.
* The tracker merges duplicates in a loop whose iterations see each other's effects,
  and keeps tracks alive on static support, prediction and merges.
* The estimator corrects the past: it goes back to an earlier IMU frame, and everything
  kept since was computed without the correction.

## 2. Modules

| Module | Models | Extends |
|---|---|---|
| `LossyWindow` | what a bounded frame queue promises, as a window over item numbers | |
| `BoundedFrameQueue` | every member function of the queue, condition variable included | |
| `DynFilterNode` | callback, queue, worker, tracker clock and shutdown of the M-detector node | `BoundedFrameQueue` |
| `DynFilterNodeProofs` | theorems about the queue, which the node runs, and about the node | `DynFilterNode`, `TLAPS` |
| `TrackClock` | what the node relies on when it hands a frame to the tracker | |
| `FrameTracker` | `update()` of the tracker: clock, association, merging of duplicates, life of a track | |
| `FrameTrackerProofs` | theorems about the tracker, among them the refinement of `TrackClock` | `FrameTracker`, `TLAPS` |
| `RcSwitches` | RC switches and their edges | |
| `PX4CtrlFSM` | the flight state machine, its callbacks, the FCU, the pilot and the vehicle | `RcSwitches` |
| `PX4CtrlFSMProofs` | theorems about the state machine | `PX4CtrlFSM`, `TLAPS` |
| `TrajectoryAuthority` | what the planner promises about the trajectory it flies | |
| `PerceptionPipeline` | caches, assembly, preprocessing and inference threads, slots, commit, reset, shutdown | |
| `PerceptionPipelineProofs` | theorems about the pipeline, among them the refinement of `TrajectoryAuthority` | `PerceptionPipeline`, `TLAPS` |
| `ControlLoop` | `control_pub` as run by the timer and by the inference thread | |
| `ControlLoopProofs` | theorems about the control loop, among them the refinement of `TrajectoryAuthority` | `ControlLoop`, `TLAPS` |
| `GoalArbitration` | goals, RC state, home and its capture in every thread, the branch `control_pub` takes, the teleoperation node | |
| `GoalArbitrationProofs` | theorems about the arbitration | `GoalArbitration`, `TLAPS` |
| `PoseFilter` | what the users of a pose estimate expect of it | |
| `PoseFusion` | both callbacks of the pose filter and the buffer between them | |
| `PoseFusionProofs` | theorems about the estimator, among them the refinement of `PoseFilter` | `PoseFusion`, `TLAPS` |
| `ScanSync` | FAST-LIO's callbacks, `sync_packages` and the time it predicts over | |
| `ScanSyncProofs` | theorems about the synchronization | `ScanSync`, `TLAPS` |
| `MC*` | finite instances for TLC | the module of that name |

Definitions keep the names of the code.  Each one is listed with the lines it
stands for under `map` in `PROJECT.json`.  Definitions under a comment *Faulty
variant* are plausible bugs, named so that a checker can put them in place of
the right definition and see a property fail; no specification uses them.

### 2.1 BoundedFrameQueue

Every member function holds `mutex_` for its whole body, so a call is one action:
`Push` (with its outcomes `RejectClosed`, `RejectOutOfOrder`, `Accept`),
`TryTake`, `Close`.  `waitAndTake` releases the mutex while it sleeps and is
`Sleep` followed, after a wake-up, by `TakeReady` or by `Sleep` again;
`waitState` says where each consumer is.  `notify_one` wakes an arbitrary sleeper,
or nobody, and `SpuriousWake` wakes any sleeper without reason, as the C++
standard allows.  Time stamps are ticks and `ResetGap` is
`kBackwardJumpResetSeconds` in ticks.  `accepted` and `taken` are history
variables; frames are numbered in the order of acceptance.

`LossyWindow` is the abstract specification: items are numbers, the queue is the
window `(lo, hi]`, an item is lost only from the old end of a full window, and
delivery is from the old end.  The refinement mapping is `hi = Len(accepted)`,
`lo = droppedOldestCount + Len(taken)`.

### 2.2 DynFilterNode

`SynchronizedInputCallback` runs in the thread of `ros::spin()`, `Worker` is one
stage of the processing thread and `Shutdown` / `Join` are the end of `main()`.
The tracker is reduced to `last_frame_stamp_` and the stamps its live tracks were
born at; which detections match is left open (`tracks'` is any subset of the
surviving tracks and the new frame).  A frame may fail in conversion or
filtering (nothing is published) or in the tracker (an empty array is published);
`MaxFailures` bounds how often.  The stamp 0 stands for the zero stamp that the
callback refuses.

`TrackClock` is the interface to the tracker: a clock that moves forward, or back by
at least the gap with every track dropped, and tracks known by the frame they were born
in.  `KeepsTrackClock` says that the node's reduced tracker keeps to it, and
`ImplementsTrackClock` that the real `update()` (section 2.6) does, so that what the
node's runs and theorems say of its tracker holds of the one in `FrameTracker`.

### 2.3 RcSwitches and PX4CtrlFSM

A channel is a level: below (-1), at (0) or above (1) its threshold.  A channel
exactly at the threshold is neither low nor high, as in the code's comparisons
with `last_mode < 0.75 && mode > 0.75`.

The thread that runs `ros::spinOnce` and `process()` is the only one, so a cycle
of `process()` is one action, ending in `EndCycle` with the land detector (STEP5)
and the clearing of the flags (STEP6); where `process()` spins itself, in the
wait for the sticks and in the ten spins before arming, `pc` holds the place and
callbacks act in between.  Inputs that the rest of the program computes are
chosen freely at each cycle: whether a command is recent, the speed the odometry
reports (`"static"` below 0.1 m/s, `"slow"`, `"fast"` above 3 m/s), whether the
sticks are centred, what the clock says about the trigger delay and the disarm
interval.  `recent` says whether odometry and RC messages are still fresh; it may
turn false at any moment.

Outside the program are the FCU (`fcu` is the truth, `reported` what the last
state message said, `Answered` a service that is obeyed or refused), the pilot
(`FcuChanges`) and the vehicle (`VehicleMoves`).  Their assumptions:

* the FCU's report at the start is true, because `main()` waits for a connection;
* the vehicle leaves the ground only when armed and under the pilot's modes or a
  set point that can rise, and reaches the takeoff height only when it is off the
  ground;
* the first land constraint (set point more than 0.5 m below the vehicle) and the
  second (vehicle at rest) hold together only when something holds the vehicle up
  (`Beneath`), which makes every finding about the land detector independent of a
  badly tracking controller;
* a reboot's effect on the FCU is among the `FcuChanges`;
* `pose_solver` is 0, 1 or 2 as documented; another value makes `process()` return
  early.

The initial state is the one after `main()`'s start-up.  `main()` waits for RC without a
limit unless `no_RC` is set (`px4ctrl_node.cpp:89-105`).  The model covers both: it starts
with `recent.rc` false, and a first RC message may or may not come.

The land detector's clock is the number of cycles since `time_C12_reached`, up to
`KeepCycles + 1`; no decision tells larger values apart.  `detector.run` and
`prompted` are history variables.

### 2.4 TrajectoryAuthority and PerceptionPipeline

A critical section of `sync_condition` is one action.  `LatestOnlySlot` has a lock of
its own, so a worker takes work (`PreTake`, `InfTake`) in one step and looks at the
mode in another (`PreStart`, `InfStart`); preparing and running the network
(`PrePrepare`, `InfRun`) may fail, and handing on (`PrePublish`, `Commit`) is one
critical section again.  `pc` of a worker says between which of them it is.  A whole
`_reset_pipeline_locked` is `ResetPipeline`, a part of the callback that detects the
jump back.  The thread of the assembly has nothing to remember between two of its
critical sections and is therefore an action without a program counter.

`frames` holds the stamps of the frames of the present generation, so that
`Len(frames)` is `frame_sequence` and the stamp of the frame committed last can be
looked up.  The caches of lidar and tracks are sets of stamps: the code keeps them
sorted and without duplicates, and looks values up by stamp only.  Left open at every
decision: whether the static cloud and the odometry complete a frame, whether an
input came after its deadline (`late`), whether work is older than
`output_max_age_ms` (`timely`), and the threat and navigation state that select the
mode.  The model is that of `static_input_mode` `pointcloud`.

`TrajectoryAuthority` is the abstract specification: a plan belongs to a time line
(generation) and a mode epoch (mode version); only plans of the present ones become
active, for newer and newer frames, and what is active is withdrawn when either ends.
The refinement maps `newest` to the stamp of `frames[last_committed_sequence]`.

### 2.5 ControlLoop

The consumer's side of the same authority.  `Commit`, `Reset`, `ModeChanges` and
`InvalidateActiveTrajectory` are what the planner does to the trajectory installed; that
they do what `TrajectoryAuthority` allows is checked again (`ImplementsAuthority`), so
that the two detailed modules meet at one interface.  `reference` is the trajectory
with its clock (`ctrl_time`, in control periods), its first-sample flag and the time of
its commit; all of them are reset together in the code, so that the empty set stands
for all the `None`s.

A call of `control_pub` is `Branch`, which chooses a static target or the trajectory
(RC, goal and threat decide and are left open), then either `DropLatch` and
`SendStatic`, since the static target is published without a lock, or `Read`, which
takes pose and monotonic time, and `Decide`, which holds both locks.  Pose and time are
read in adjacent statements without a wait between them, and are one step; what lies
between them and `Decide` is the wait for `sync_condition`, which the inference thread
holds while it commits.  A pose is identified with the time it was read at.
`timerSamples` and `sampledAt` are history variables (`timerSamples` stops counting
one past `Duration`, where no further sample is distinguished).

`HoverPoseCurrent` says how old a latched pose may be: not older than the last sample,
except when a call was overtaken.  `overtaken` holds the threads that have read pose and
time and then waited while a trajectory was installed or the other thread decided;
`outdated` says that one of them latched the pose, or sent a sample past it.  The exception
is what `control_hover` shows to happen (section 6).  Without it the property rests on
several places: that installing a trajectory, the static target and an arrival drop the
pose, and that a trajectory which was no longer executable at one time is not so at a
later one.

The timer may call at any time: that it fires every 20 ms is not assumed.  A call that
publishes nothing (before the home position is anchored, or when RC has just become
active again) leaves everything as it is.

### 2.6 FrameTracker

One call of `update()` is `Begin` (stamp check, reset, prediction), an `Absorb` for
every merge of the first consolidation, `Associate`, an `Absorb` for every merge of the
second, and `Finish` (the gates and `PruneTracks`).  `Absorb` is a single iteration of
the double loop: `order` is the priority it runs in, `cursor` where it is, and `Due` the
iterations still to come that find a duplicate, of which the first is taken.  A survivor
that was not matched takes over estimate and measurements of the duplicate that was, and
from then on it is where that one was (`place`), which later iterations see.

Geometry is left open: which detections match, which are near or fast, where the
confirmed tracks are at the start of a consolidation, which tracks the gates drop.
A track of the code is its two names, the frame it was born in, the frames missed,
whether it is confirmed, its last dynamic measurement, the two flags that change rules
(`near`, `gate`) and its window of hits.  `SpeedGate` is whether
`static_support_min_activation_speed` is positive; without it static support asks for no
speed.  `frames` holds the stamps since the last
reset: its length is `frame_index_`, its last element `last_frame_stamp_`.  The set
`tracks` stands for the vector, whose order is that of `track_uid`.  `update()` throws
on a stamp out of order before it changes anything; such a call is no action.

### 2.7 GoalArbitration

`rospy` runs the callbacks of different topics in different threads, so every action is
what one of them does under one lock: `AcceptGoal` and `WriteGoal` are
`callback_set_goal`, `RcActive` with the capture of thread `"rc"` is
`callback_rc_active`, `AnchorHome` and `WriteAnchor` are the part of
`callback_odometry` that fixes the home position, `HomeRequired` and `Publish` with the
capture of the calling thread are `control_pub`.  `_capture_rc_home` is `CaptureRead`
(position), `CaptureStore` (`rc_home`), `CaptureRetarget` (goal) and `Withdraw`
(trajectory), and two threads may be in it at once.

The teleoperation node is `Spin`, `Stop` and `Restart`; what it thinks of the stick is
open at each iteration, so the model covers every way of judging the input.  Topics
hold one message (`queue_size=1`).  Positions are numbered in the order they are
visited, so that "later" is "larger"; altitude and arrival are left out.

`released` is a history variable: where the vehicle was when the stick was last found
inactive.  `clash` tells whether the last thread to write the goal found another one
about to write it.  The code allows such clashes, since a capture takes three locks one
after the other; what goal and home are then is what the last writer made them.  The two
invariants therefore speak of states where nobody is about to write and the last writer
was alone (`Agreed`), and the liveness properties of what happens in the end whatever
clashes there were.

### 2.8 PoseFilter and PoseFusion

The estimator runs both callbacks in one thread; what makes it hard is that odometry is
about the past.  `Imu` keeps the state from before the message in a bounded buffer and
predicts; `VioOdom` looks for the frame nearest to the odometry's stamp
(`ProperFrame`), corrects the state there and predicts again through all messages
since.  Of the state vector the model has the time it is predicted to and the
set of measurements it rests on.  `FirstStep` is the step that the code has to make up
when the frame is the front one, which has no predecessor.

The node was made for odometry "without delay" (line 627); in the model it comes with any
delay and at any rate, and an IMU message is handled when it is stamped.  Three things are
said of it.

* `CorrectsNearest`, whatever the delay: the frame corrected is the nearest in the buffer.
* `EstimateIsCurrent`, whatever the delay: the state is predicted to the newest IMU
  message, unless a correction was made at the front frame with another step than that
  frame's own.  The code takes the step of the frame after it; `frontGap` is the step the
  front frame really took (0 if it is the first frame of all, which took none), and `madeUp`
  remembers that the two differed.  The estimate is then ahead or behind for good
  (section 6).  A correction at the front frame with evenly spaced messages leaves it right.
* `ImplementsFilter`, as long as odometry comes in time.  `InTime` is the delay the node
  stands: two IMU messages come between the handling of one odometry and the measurement of
  the next, and the buffer reaches back to what is measured.  With odometry in time the
  front frame is never the one corrected (`InTimeEstimateIsCurrent`).  Otherwise a
  correction may undo the one before it, since states kept between the two are not
  replaced, or be made with the measurement before (`UpdateLatestState`).

`PoseFilter` is the abstract specification: an estimate for a time that moves forward,
resting on all fused measurements, each once and in order.  The refinement maps it to
`timely`, the state as it was while odometry came in time.

### 2.9 ScanSync

One thread runs the callbacks (inside `ros::spinOnce()`) and the main loop, so that
`LidarCbk`, `ImuCbk` and `SyncPackages` are the actions, the last with everything the main
loop does with what `sync_packages` hands on: it drops the first scan, initializes the
filter with the next ones, and then predicts (`Process`, `Prediction`).  A scan is the
stamp it came with, so that using it with another one (`scan.begin`) can be seen.
How long a sweep takes is open.

Either clock may be set back.  The callbacks then clear `lidar_buffer` or `imu_buffer`, and
the model keeps to the code in what they do not clear: `time_buffer`, `lidar_pushed` and
`last_lidar_end_time_`.  The last is not initialized, and starts as any time before or
after what is measured.  `misaligned`, `predicted`, `estimated` and the counts of jumps are
history variables.

## 3. Runs

| Run | Shows |
|---|---|
| `queue` | stamp order, no lost wake-up, refinement of `LossyWindow` (accounting, order, capacity); `close()` releases waiters and a frame is not left while everyone waits |
| `node` | a stale frame implies a loss; one array per frame, in order; the tracker it assumes keeps to `TrackClock`, so that no track survives a reset; the queue is drained at exit; every accepted frame leaves the queue; shutdown terminates |
| `tracker` | no two tracks share a name, ended names never return, static support and merges do not keep a track alive, candidates get decided; refinement of `TrackClock` |
| `fsm` | a mode to hand back to is known; takes over only when asked; a landing takes time; a switch that is up at the start asks for nothing; switch down or odometry lost ends hovering, commands and landing |
| `fsm_exit_offboard`, `fsm_takeoff` (violations) | disagreements between comments and code, see section 6 |
| `pipeline` | only trajectories of the present time line and mode are installed, for newer and newer frames (refinement of `TrajectoryAuthority`); a reset leaves nothing behind that blocks new frames; slots hold current work only; published work is taken |
| `control` | the trajectory's clock is never ahead of the timer nor more than one sample behind; what is followed is the authority's plan; a latched hover pose is not older than the last sample unless a call was overtaken; a trajectory nobody replaces is left after its last sample |
| `control_hover` (violation) | a commit while the timer waits for the lock makes it hover at an old pose |
| `goal` | home is where the stick was released or later; the planner's goal is home or the pilot's, as the stick says; a stick that stays released, or a teleoperation node that is gone, ends in commands to stay home; one that stays active is followed |
| `scans` | the IMU buffer stays in order; a scan is used with its own stamp, and the waiting one is the first in the buffer, unless the lidar's clock was set back while one waited; the time between two scans is predicted over once |
| `estimator` | for odometry with any delay, what is published is predicted to the newest IMU message unless a step was made up at the front frame, and corrections are made at the nearest frame; as long as odometry comes in time none is undone, repeated or made with another measurement (refinement of `PoseFilter`) |

Invariants that follow from a refinement in the same run are theorems (section 4) and are
not repeated in the runs; nor are the type invariants, except `SyncTypeOK`, which says that
the IMU messages stay in order.

Bounds and why they suffice:

* Queue: two consumers, capacity two, four frames.  A capacity of two distinguishes the old from the new end; two consumers
  are what a lost wake-up needs; stamps 1..4 with a gap of two give forward steps,
  equal stamps, small steps back and jumps of exactly and more than the gap; four
  frames overflow the queue twice.  The proofs remove these bounds.
* Node: one processing thread as in the program, capacity one so that evictions
  happen with few frames, one failure.  `SyncMaxInterval = 0` leaves pairs with equal
  stamps; unequal pairs are refused before they touch any state.
* State machine: `KeepCycles = 0` makes a landing need two satisfied cycles in a
  row, the shortest time in which "in a row" means something; a larger value only
  adds states in which the timer runs (the theorem holds for all values).  The
  switches are down or up; a channel exactly at its threshold is in the model but not
  in the runs.  One pilot's mode tells "the mode before OFFBOARD" from MANUAL.  The
  reboot channel stays down, since a reboot changes no variable of the program.
* Pipeline: two stamps give frames in and out of order and jumps back, one reset a
  generation before and after, two mode changes a mode that is left and returned to
  under a new version.  Three items of work are in flight at most (a slot and two
  workers).  The proofs remove these bounds.
* Control loop: a trajectory of two periods has a first sample, a repeated one and a
  last one; a timeout of one tick and a clock up to three leave room for a commit and
  a timeout after it; two accepted frames for a replacement; one reset, two mode changes.
* Tracker: two tracks, two identities and four frames since a reset; a window of three
  frames with three hits, or two near the vehicle, has candidates confirmed early, late
  and never; lifetimes of one frame and one or two ticks with stamps 1..6 let each of
  the three clocks of a track (frames missed, prediction, static support) run out first;
  a gap of four allows a reset after a few frames.  Two places are no duplicates of each
  other, two tracks in one are.  Three tracks in one merge are beyond the run; the
  proofs cover any number.
* Arbitration: the timer alone calls `control_pub` besides the RC thread (the invariants
  are proved for any set of callers), and the vehicle is in two positions, so that a
  home can be an old one.
* Scans: stamps 1..4 with sweeps of 0 to 2 ticks give ends before, at and after
  messages, sweeps that overlap and ends that go back; two scans and three messages
  waiting, one jump of each clock.  (Three scans waiting give the same result on two
  million states.)
* Estimator: IMU messages one to three ticks apart, so that they are evenly spaced or not
  and an odometry has a nearer one on either side; a buffer of eight frames, the smallest
  that has odometry in time with a delay of one tick; a clock up to 16 (`MaxTime`), enough
  for three odometries in time.  Odometry that is not in time comes up to 10
  (`LateTime`), and the clock then stops there: enough for a full buffer that has dropped
  frames, for late odometry that corrects the front frame, with its own step or
  another's, and for odometry that finds fewer than two frames.

Deadlock is checked in every run; `Exited` and `Terminated` keep a terminated node
stuttering; `Waits` in the tracker, the estimator and FAST-LIO's synchronization says that no message has to come.

Fairness: `WF(Resume(c))` — a notified thread is scheduled again; nothing obliges a
client to call.  `WF(Worker)`, `WF(Join)` — the processing thread and `main()` are
scheduled and each stage of a frame terminates; nothing obliges frames to arrive or
`ros::spin()` to return.  `WF(Process)` — the loop runs at `ctrl_freq_max` and
`process()` waits for nobody except for the pilot in `rcWait`, where it is not
enabled until the sticks are in position.  `WF(Preprocess)`, `WF(Infer)` — each worker
thread is scheduled and its computations end; `take_after()` wakes at the latest after
its timeout.  Nothing obliges messages to arrive or frames to be complete.
`WF(ControlPub(t))` — the timer fires again, calls end, and not every one finds RC
just active again; neither does the clock have to advance nor the planner to deliver.
In `GoalArbitration`, `WF` of `Spin`, of each callback while its message is there, of each
step of a capture and of `control_pub`: threads are scheduled and no step waits.
`RcTimeout` is fair only when the teleoperation node is gone and no message of its is left.
Goals from elsewhere, the stick and the vehicle are under no obligation.

## 4. Proofs

All theorems are proved for every value of the constants under the ASSUMEs of the
modules (capacity and reset gap at least one, finitely many consumers, stamps
natural numbers, a finite or infinite set of FCU modes).

* Queue.  The inductive invariant adds to the types that `pending` is the tail
  of `accepted` from `Removed + 1` on, that the values in `accepted` are their
  positions and that `taken` is increasing and below `Removed` (`HistoryInv`), from
  which accounting, order and stamp order follow.  `WakeupInv` counts: while someone
  sleeps, the woken consumers are at least as many as the pending frames; it needs
  cardinalities of the sets of sleeping and woken consumers under one change.
  Refinement of `LossyWindow` is shown per action.
* Node.  Every step is a queue step or leaves the queue alone, so the queue's
  invariants carry over.  `LockStep` relates the two clocks: while nothing was lost,
  the tracker's clock is the stamp of the frame before the one being worked on;
  with the stamp order of the queue this excludes a rejection.
* State machine.  `FlightInv` strengthens `TypeOK` with the known mode to return to
  outside manual control.  A lemma gives every way a cycle can end the
  same shape (`Ends`), so that invariants about the flags (`AskedInv`) and the land
  detector (`DetectorInv`: while it counts, the time counted has been spent in this
  flight) need one case for all of them.

* Pipeline.  `PipelineInv` adds to the types that every item of work in a slot or
  with a worker is of the present generation, and then is the frame its number says,
  or of an earlier one (`Known`); that the stamps of the frames increase and stay below
  the last assembled stamp; and that the lidar cache still reaches that stamp.  The
  numbering either stays, grows by one or starts again (`Keeps`, `Extends`,
  `Restarts`), and `KnownStays` covers all three.  A committed result is then the frame
  of its number, and the order of the numbers is the order of the stamps, which gives
  the refinement step `Accept`.
* Pipeline, the stages in order (`StagesInOrder`).  What is committed, being inferred,
  waiting for inference, preprocessed and assembled is in decreasing order of sequence
  numbers; the sequence check before a commit refuses nothing that a reset has not
  withdrawn.  `NothingHidden` says that work in a slot is newer than what its reader has
  seen: a version number that did not grow would hide it from `take_after()` for good.
  This is the safety core of `PendingWorkIsTaken`; fairness of the workers is the rest.
* Control loop.  `OnTime` counts: the clock, and one for a call of the inference thread
  under way, are at most the timer's samples, and one for a repetition not yet used up.
  The inference thread makes one call per trajectory, so the clock is at most the timer's
  samples in between.  The same count from below says that only the first sample is ever
  repeated, so that a trajectory nobody replaces has at most `Duration + 1` samples of the
  timer: the bounded counterpart of `ReferenceEnds`.  The refinement needs that there is
  at most one trajectory (`OneReference`).
* Control loop, the hover pose (`PoseInv`).  A thread that waits and has not been overtaken
  read after everything that was decided (`ReadInv`).  For a latched pose that is not
  `outdated`, the trajectory is over at the time of the pose: it has no sample left or is
  too old (`LatchInv`, `Over`).  It is then over for every later reading, so that no sample
  is sent past the pose but by a thread that was overtaken.

* Node, published arrays (`PublishedInv`).  The frame the worker has is the last one
  taken, and the arrays published are of frames up to the last one the worker is done
  with; since taken values increase, no frame gets two.
* Node, stamps of arrays (`ArrayClockInv`).  As long as no frame failed, the tracker's
  clock is the stamp of the last array with tracks that was published, or of the frame
  whose array comes next; an update moves the clock forward or back by the gap, an empty
  array leaves it alone, and `ArraysMoveInTime` follows for each pair of neighbours.
* State machine, deliberate requests (`DeliberateInv`).  A hover request is an edge, and an
  edge needs a switch that was seen low: what the history variable says of the past
  follows from the switch's present position.
* State machine, handing back (`HandsBackInOneCycle`, `ReturnModeKept`).  In flight
  `process()` is never half done, so that the first cycle with the switch down or without
  odometry takes the branch to MANUAL_CTRL and asks for the mode px4ctrl found when it
  took over, which nothing in flight replaces.  `HandsBack` needs the fairness of the loop
  besides.
* Tracker.  `TrackerInv` is one conjunct per question.  `NamesInv`: names are below their
  counters and belong to one track each, for which the counting in `Numbered` is shown
  injective.  `EvidenceInv` speaks of the frame a track was last matched in
  (`LastMatch`): the time from the last dynamic measurement to that frame is at most the
  longest support, since a match either is dynamic or needs support that has not run
  out; a track missed more often than its lifetime allows is within its prediction
  window.  `DecidedInv` says the same of the window of a candidate between the steps
  of an update.  A merge keeps all of them because the survivor takes the measurements
  of the duplicate as a whole.
* Arbitration.  `ArbitrationInv` rests on `AloneInv` (without a clash there is one
  writer at a time) and `WriterInv` (a writer that is alone is about to write what the
  RC state asks for); before home is anchored there is nothing to return to
  (`UnanchoredInv`).  With them each write establishes `HomeIsWhereReleased` and
  `GoalFollowsPilot`, and each change of the RC state starts the write that does.
* Estimator.  `FusionInv` says that the buffer is ordered and dense; that, unless a step was
  made up, each kept state is predicted to the frame before it (`Chained`), for the front
  frame to the one that was dropped (`FrontStep`); that, as long as odometry comes in time,
  frames since the last one was handled rest on it (`SeenInv`) and the buffer
  reaches back to the next (`ReachInv`), so that the frame corrected is never the front
  one.  No delay is assumed; `inTime` is a hypothesis of those conjuncts
  only.  That a stamp lies between two
  neighbouring frames (`Covered`) would take an induction over the buffer; it is
  carried as a conjunct of the invariant instead, and each step adds or drops one frame.
* Synchronization (`ScanSync`).  What a prediction comes to is a sum over the messages of
  a scan, and the library's induction theorems cannot be used here (they take an operator
  as a parameter).  The induction is therefore made over sets of numbers: less-than is
  well-founded, so that every nonempty set of naturals has a least element (`Least`), and
  a set that has 0 and with each number the next has all of them (`Induction`).  With it
  `SumTo` is shown to exist and to be a number, the steps over a group of messages in
  order to telescope (`StepsTelescope`), and the messages `sync_packages` takes to be a
  prefix of the buffer (`CountIsPrefix`).  `SyncInv` then says that the buffer is in
  order and not from after the newest message, that the last message used is not from
  after the end it was used for (`BehindInv`), and that without a jump of the IMU's
  clock what waits is not from before that end (`AheadInv`): the prediction begins where
  the last one ended, whatever scans got no messages in between.  From the same invariant
  the end predicted to never goes back (`EstimateMovesOn`), although sweeps may overlap:
  a scan that ends before its predecessor gets no messages and is passed over.

Only model-checked: the liveness properties (`CloseReleasesWaiters`, `WaitersAreServed`,
`FramesLeaveTheQueue`, `ShutdownTerminates`, `HandsBack`, `PendingWorkIsTaken`,
`ReferenceEnds`, `HomeInTheEnd`, `PilotIsFollowed`), since TLAPS proves no liveness under
fairness; and the violations.  Every invariant and every safety property that a passing run
checks is a theorem.

## 5. Plan

1. *Done*: queue, node, tracker, RC switches, state machine, perception pipeline, control
   loop, goal arbitration, teleoperation, estimator and their proofs; FAST-LIO's
   synchronization.
2. *Left*: the control loop composed with the arbitration in one module.  Today they
   meet where `Branch` of `ControlLoop` is left open and `Publish` of
   `GoalArbitration` ends: every choice the arbitration makes is among those the
   control loop allows, and `Withdraw` is `InvalidateActiveTrajectory`.
3. *Left*: arrival (`arrive`) and the return altitude, with the questions under
   `hazards` about goals accepted while arrival is judged.

## 6. Disagreements between code and comments

Each is a violation run with one property and is described under `findings`.

* `fsm_exit_offboard`: px4ctrl may be in MANUAL_CTRL while the FCU stays in OFFBOARD.
* `fsm_takeoff`: a takeoff may start in the air after a manual flight.
* `control_hover`: pose and time are read before the lock, a commit in between makes the
  trajectory's age negative, and the vehicle is sent back to an older pose although
  nothing timed out; the pose stays latched for the next timeout.

Six more were met in the same models and have no run of their own.

* A jump back that the queue accepts as a reset may be stale for the tracker, which then
  throws on every frame until their stamps pass its clock; the comments on the shared
  threshold exclude that (`FrameTracker.cpp:2479`).  `StaleOnlyAfterLoss` is what
  holds: it takes a frame lost in between.
* When the lidar's clock is set back while a scan waits, FAST-LIO clears the scans and
  keeps their stamps ("lidar loop back, clear buffer", `laserMapping.cpp:323`): every
  later scan is used with the stamp of an older one.  `ScansHaveTheirStamps` says when
  stamps are right.
* The takeoff arms although OFFBOARD was refused: the callers ignore the result of
  `toggle_offboard_mode`.
* A `landed` flag set by an earlier touch of the ground idles the motors when a landing
  starts in the air.
* A correction of the estimator at the front frame takes the step of the frame after it.
  With unevenly spaced IMU messages, or at the first frame of all, the estimate is from then
  on ahead of or behind the stamp it is published with, although the comment on
  line 18 of `ekf_node_vio_timesync_with_acc_pub.cpp` says "time stamp aligned between imu
  and img".  `EstimateIsCurrent` says that nothing else does this.
* Odometry of the estimator that is late or close to the one before it may undo the
  correction before, or, with fewer than two frames in the buffer, be fused as the
  measurement before it or as zeros.  `ImplementsFilter` holds as long as odometry
  comes in time.

## 7. Not modelled

* Network, training, TensorRT export, attitude controller and thrust model, point
  classification and clustering, geometry of the planner's inputs: numerical code whose
  discrete outcome the other models leave open wherever they use it.
* Quadrotor simulator and renderer: differential equations and a CUDA ray caster with a
  vendored `odeint`.
* Simulated controller: its takeoff and landing run in a detached thread that holds
  references to local variables of a service call that may have returned; what it does
  then is undefined, and the flight software uses px4ctrl instead.
* Of FAST-LIO: the filter (`IKFoM_toolkit`), the ikd-tree, the logger and the plotting
  header, which are vendored; the map and the matching, which are numerical; the timer
  that looks for hardware anomalies, which is defined and never started.
* Livox driver and the other vendored libraries.

Left out of modelled components: the debug publishers and offline writers of the
M-detector node; the Kalman filter, histories and output speed gate of the tracker;
`feed()` functions of px4ctrl that copy a message; the `range_image` mode, the older
single-threaded path and the visualization of the planner; arrival, altitudes and
the height reference of the return; how the teleoperation node judges the stick; the numbers
of the estimator.

Hazards seen and not listed in `PROJECT.json`, because no property covers them and nothing
in the repository says what should happen: an edge of a switch is an event of one
message, and the next message handled in the same `spinOnce` clears it; a channel exactly
at its threshold is neither low nor high; a LAND message handled in a nested spin is
cleared without effect; a goal that the teleoperation node published before the planner
knew the stick to be active is not published again while the stick is held still;
`arrive` is judged by a goal read without a lock; `spin()` reads position, axes and arming
under separate locks; a stick that is pushed when the teleoperation node starts is active at
once.

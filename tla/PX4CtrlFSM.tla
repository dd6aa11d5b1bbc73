----------------------------- MODULE PX4CtrlFSM -----------------------------
(***************************************************************************)
(* The flight state machine of px4ctrl (PX4CtrlFSM.cpp, px4ctrl_node.cpp). *)
(*                                                                         *)
(* One thread runs the loop  sleep; spinOnce; process.  Callbacks run in   *)
(* spinOnce only, so process() is one step, except where it spins itself:  *)
(*   "loop"      between two calls of process(), callbacks may run         *)
(*   "rcWait"    in the loop that waits for the sticks and switches after  *)
(*               a rejected takeoff                                        *)
(*   "modeWait"  in the ten spins between asking for OFFBOARD and arming   *)
(*                                                                         *)
(* The flight controller (FCU), the pilot and the vehicle act at any time. *)
(* Odometry and RC messages are recent until they time out, at any moment; *)
(* whether a command is recent, how fast the odometry says the vehicle is, *)
(* whether the sticks are centred and what the clock says are inputs of a  *)
(* call of process(), any combination of which is possible.  Set points    *)
(* are reduced to whether the land detector finds them far enough below a  *)
(* vehicle at rest.                                                        *)
(***************************************************************************)
EXTENDS RcSwitches

CONSTANTS
    PilotModes,      \* FCU modes the pilot, or a failsafe, may select
    FcuAnswers,      \* what the FCU does with a request, "done" or "refused"
    TakeoffEnabled,  \* param.takeoff_land.enable
    AutoArm,         \* param.takeoff_land.enable_auto_arm
    KeepCycles       \* TIME_KEEP_C in control cycles

ASSUME ModesAssumption == "" \notin PilotModes
ASSUME FcuAssumption   == FcuAnswers # {} /\ FcuAnswers \subseteq {"done", "refused"}
ASSUME ParamAssumption == TakeoffEnabled \in BOOLEAN /\ AutoArm \in BOOLEAN
ASSUME KeepAssumption  == KeepCycles \in Nat

VARIABLES
    state,        \* state
    pc,           \* where in the loop the thread is
    request,      \* takeoff_land_data: the command while triggered, or "none"
    recent,       \* odom_is_received and rc_is_received
    modeBefore,   \* state_data.state_before_offboard.mode
    reported,     \* state_data.current_state: what the FCU last reported
    fcu,          \* the mode and arming state of the FCU
    onGround,     \* the vehicle stands on the ground
    detector,     \* the land detector, see below
    delayTrigger, \* takeoff_land.delay_trigger.first
    output,       \* what the latest cycle sent besides a set point
    prompted      \* history: asked to take over since it last did

fsmVars == <<state, pc, request, recent, modeBefore, reported, fcu,
             onGround, detector, delayTrigger, output, prompted>>
vars    == <<rcVars, fsmVars>>

Outputs   == {"none", "trigger", "reboot", "idle"}
States    == {"MANUAL_CTRL", "AUTO_HOVER", "CMD_CTRL", "AUTO_TAKEOFF", "AUTO_LAND"}
Modes     == PilotModes \cup {"MANUAL", "OFFBOARD"}
FcuStatus == [mode : Modes, armed : BOOLEAN]

(* landed is takeoff_land.landed; wasManual, c12 and since are the statics  *)
(* of land_detector(): last_state, is_last_C12_satisfy and the time passed  *)
(* since time_C12_reached, which no decision tells apart beyond KeepCycles. *)
(* run is history: for how many cycles, the current one included, both      *)
(* constraints have held in this flight.                                    *)
Detector == [landed : BOOLEAN, wasManual : BOOLEAN, c12 : BOOLEAN,
             since : 0..(KeepCycles + 1), run : 0..(KeepCycles + 2)]

Init ==
    /\ RcInit
    /\ state = "MANUAL_CTRL"
    /\ pc = "loop"
    /\ request = "none"
    /\ recent = [odom |-> FALSE, rc |-> FALSE]
    /\ modeBefore = ""
    /\ fcu \in [mode : Modes, armed : {FALSE}]
    /\ reported = fcu
    /\ onGround = TRUE
    /\ detector = [landed |-> TRUE, wasManual |-> TRUE, c12 |-> FALSE,
                   since |-> KeepCycles + 1, run |-> 0]
    /\ delayTrigger = FALSE
    /\ output = "none"
    /\ prompted = FALSE

-----------------------------------------------------------------------------
(* The end of process(): STEP5 land_detector() and STEP6 *)

Capped(n, bound) == IF n < bound THEN n + 1 ELSE bound

\* Faulty variant: the run of satisfied cycles is never interrupted.
ForgetsToRecordC12(c12) == detector.c12 \/ c12
RecordC12(c12) == c12

(* c12: the target is more than 0.5 m below the vehicle, which is at rest *)
LandDetector(next, c12) ==
    LET activated == detector.wasManual /\ next \in {"AUTO_HOVER", "AUTO_TAKEOFF"}
        landed    == detector.landed /\ ~activated
        idle      == next = "MANUAL_CTRL" /\ ~reported.armed
        since     == Capped(detector.since, KeepCycles + 1)
        kept      == c12 /\ detector.c12 /\ since > KeepCycles
        run       == IF c12 /\ ~activated THEN Capped(detector.run, KeepCycles + 2) ELSE 0
    IN  detector' =
          [landed    |-> idle \/ landed \/ kept,
           wasManual |-> next = "MANUAL_CTRL",
           c12       |-> IF idle THEN detector.c12 ELSE ~landed /\ RecordC12(c12),
           since     |-> IF ~idle /\ (landed \/ (c12 /\ ~detector.c12)) THEN 0 ELSE since,
           run       |-> run]

\* Faulty variant: STEP6 forgets takeoff_land_data.triggered.
ClearsOnlyRc == RcClear /\ UNCHANGED request
ClearFlags   == RcClear /\ request' = "none"

\* where the set point may lie when the vehicle is at rest: far below it only
\* if the ground holds it up
Beneath == IF onGround THEN BOOLEAN ELSE {FALSE}

EndCycle(next, c12, sends) ==
    /\ state' = next
    /\ pc' = "loop"
    /\ output' = sends
    /\ LandDetector(next, c12)
    /\ ClearFlags
    /\ UNCHANGED <<recent, reported, onGround>>

-----------------------------------------------------------------------------
(* Services of the FCU; a mode request may be sent and yet have no effect *)

Answered(status) ==
    \/ "done" \in FcuAnswers /\ fcu' = status
    \/ "refused" \in FcuAnswers /\ UNCHANGED fcu

\* Faulty variant: OFFBOARD is remembered as the mode to go back to.
RemembersAnyMode == reported.mode
ModeToReturnTo   == IF reported.mode = "OFFBOARD" THEN "MANUAL" ELSE reported.mode

EnterOffboard == modeBefore' = ModeToReturnTo
                 /\ Answered([fcu EXCEPT !.mode = "OFFBOARD"])
ExitOffboard  == Answered([fcu EXCEPT !.mode = modeBefore])
                 /\ UNCHANGED modeBefore

-----------------------------------------------------------------------------
(* MANUAL_CTRL *)

RebootCheck == IF rc.toggle_reboot /\ ~reported.armed THEN "reboot" ELSE "none"

RejectHover(cmdRecent, speed) ==
    /\ rc.enter_hover_mode
    /\ ~recent.odom \/ cmdRecent \/ speed = "fast"
    /\ EndCycle("MANUAL_CTRL", FALSE, "none")
    /\ UNCHANGED <<modeBefore, fcu, delayTrigger, prompted>>

EnterHover(cmdRecent, speed) ==
    /\ rc.enter_hover_mode
    /\ recent.odom /\ ~cmdRecent /\ speed # "fast"
    /\ EnterOffboard
    /\ EndCycle("AUTO_HOVER", FALSE, RebootCheck)
    /\ prompted' = FALSE
    /\ UNCHANGED delayTrigger

TakeoffAsked == ~rc.enter_hover_mode /\ TakeoffEnabled /\ request = "TAKEOFF"

TakeoffAllowed(cmdRecent, speed) ==
    recent.odom /\ ~cmdRecent /\ speed = "static" /\ detector.landed

RejectTakeoff(cmdRecent, speed) ==
    /\ TakeoffAsked
    /\ ~TakeoffAllowed(cmdRecent, speed)
    /\ EndCycle("MANUAL_CTRL", FALSE, "none")
    /\ UNCHANGED <<modeBefore, fcu, delayTrigger, prompted>>

RcInPosition(centered) == rc.is_hover_mode /\ rc.is_command_mode /\ centered

WaitForRc(cmdRecent, centered) ==
    /\ TakeoffAsked
    /\ TakeoffAllowed(cmdRecent, "static")
    /\ recent.rc /\ ~RcInPosition(centered)
    /\ pc' = "rcWait"
    /\ UNCHANGED <<rcVars, state, request, recent, modeBefore, reported, fcu,
                   onGround, detector, delayTrigger, output, prompted>>

\* the loop ends and the takeoff stays rejected
RcBackInPosition ==
    /\ pc = "rcWait"
    /\ RcInPosition(TRUE)
    /\ EndCycle("MANUAL_CTRL", FALSE, "none")
    /\ UNCHANGED <<modeBefore, fcu, delayTrigger, prompted>>

StateInTheSpins == "AUTO_TAKEOFF"

StartTakeoff(cmdRecent, centered) ==
    /\ TakeoffAsked
    /\ TakeoffAllowed(cmdRecent, "static")
    /\ recent.rc => RcInPosition(centered)
    /\ state' = StateInTheSpins
    /\ EnterOffboard
    /\ pc' = "modeWait"
    /\ prompted' = FALSE
    /\ UNCHANGED <<rcVars, request, recent, reported, onGround, detector,
                   delayTrigger, output>>

FinishTakeoff ==
    /\ pc = "modeWait"
    /\ IF AutoArm THEN Answered([fcu EXCEPT !.armed = TRUE]) ELSE UNCHANGED fcu
    /\ EndCycle("AUTO_TAKEOFF", FALSE, RebootCheck)
    /\ UNCHANGED <<modeBefore, delayTrigger, prompted>>

StayManual ==
    /\ ~rc.enter_hover_mode /\ ~TakeoffAsked
    /\ EndCycle("MANUAL_CTRL", FALSE, RebootCheck)
    /\ UNCHANGED <<modeBefore, fcu, delayTrigger, prompted>>

ManualCtrl(cmdRecent, centered, speed) ==
    /\ pc = "loop" /\ state = "MANUAL_CTRL"
    /\ \/ RejectHover(cmdRecent, speed)
       \/ EnterHover(cmdRecent, speed)
       \/ RejectTakeoff(cmdRecent, speed)
       \/ speed = "static" /\ WaitForRc(cmdRecent, centered)
       \/ speed = "static" /\ StartTakeoff(cmdRecent, centered)
       \/ StayManual

-----------------------------------------------------------------------------
(* The autonomous states *)

\* Faulty variant: the odometry is not checked.
IgnoresOdometry == ~rc.is_hover_mode
HandBack == ~rc.is_hover_mode \/ ~recent.odom

BackToManual ==
    /\ HandBack
    /\ ExitOffboard
    /\ EndCycle("MANUAL_CTRL", FALSE, "none")
    /\ UNCHANGED <<delayTrigger, prompted>>

AutoHover(cmdRecent, delayOver) ==
    LET commanded == rc.is_command_mode /\ cmdRecent
        offboard  == reported.mode = "OFFBOARD"
    IN  /\ pc = "loop" /\ state = "AUTO_HOVER"
        /\ \/ BackToManual
           \/ /\ ~HandBack /\ UNCHANGED <<modeBefore, fcu, prompted>>
              /\ \/ /\ commanded /\ offboard
                    /\ \E c12 \in Beneath : EndCycle("CMD_CTRL", c12, "none")
                    /\ UNCHANGED delayTrigger
                 \/ /\ commanded /\ ~offboard
                    /\ EndCycle("AUTO_HOVER", FALSE, "none")
                    /\ UNCHANGED delayTrigger
                 \/ /\ ~commanded /\ request = "LAND"
                    /\ EndCycle("AUTO_LAND", FALSE, "none")
                    /\ UNCHANGED delayTrigger
                 \/ /\ ~commanded /\ request # "LAND"
                    /\ LET sent == rc.enter_command_mode \/ (delayTrigger /\ delayOver)
                       IN  /\ delayTrigger' = (delayTrigger /\ ~sent)
                           /\ \E c12 \in Beneath :
                                EndCycle("AUTO_HOVER", c12,
                                         IF sent THEN "trigger" ELSE "none")

CmdCtrl(cmdRecent) ==
    LET commanded == rc.is_command_mode /\ cmdRecent
    IN  /\ pc = "loop" /\ state = "CMD_CTRL"
        /\ \/ BackToManual
           \/ /\ ~HandBack
              /\ \/ ~commanded /\ EndCycle("AUTO_HOVER", FALSE, "none")
                 \/ commanded /\ \E c12 \in Beneath : EndCycle("CMD_CTRL", c12, "none")
              /\ UNCHANGED <<modeBefore, fcu, delayTrigger, prompted>>

\* the motors speed up, or the set point climbs
Climb ==
    /\ pc = "loop" /\ state = "AUTO_TAKEOFF"
    /\ EndCycle("AUTO_TAKEOFF", FALSE, "none")
    /\ UNCHANGED <<modeBefore, fcu, delayTrigger, prompted>>

ReachHeight ==
    /\ pc = "loop" /\ state = "AUTO_TAKEOFF"
    /\ ~onGround
    /\ delayTrigger' = TRUE
    /\ EndCycle("AUTO_HOVER", FALSE, "none")
    /\ UNCHANGED <<modeBefore, fcu, prompted>>

AutoLand ==
    /\ pc = "loop" /\ state = "AUTO_LAND"
    /\ \/ BackToManual
       \/ /\ ~HandBack /\ ~rc.is_command_mode
          /\ EndCycle("AUTO_HOVER", FALSE, "none")
          /\ UNCHANGED <<modeBefore, fcu, delayTrigger, prompted>>
       \/ /\ ~HandBack /\ rc.is_command_mode /\ ~detector.landed
          /\ \E c12 \in Beneath : EndCycle("AUTO_LAND", c12, "none")
          /\ UNCHANGED <<modeBefore, fcu, delayTrigger, prompted>>

\* motors_idling; the disarm request is made when the FCU reports the ground
\* and the last trial is a second ago
IdleAndDisarm(mayDisarm) ==
    /\ pc = "loop" /\ state = "AUTO_LAND"
    /\ ~HandBack /\ rc.is_command_mode /\ detector.landed
    /\ \/ /\ mayDisarm /\ "done" \in FcuAnswers
          /\ \E leaves \in FcuAnswers :
                fcu' = [mode |-> IF leaves = "done" THEN modeBefore ELSE fcu.mode,
                        armed |-> FALSE]
          /\ EndCycle("MANUAL_CTRL", FALSE, "idle")
       \/ /\ ~mayDisarm \/ "refused" \in FcuAnswers
          /\ UNCHANGED fcu
          /\ EndCycle("AUTO_LAND", FALSE, "idle")
    /\ UNCHANGED <<modeBefore, delayTrigger, prompted>>

Process ==
    \/ \E cmdRecent, centered \in BOOLEAN, speed \in {"static", "slow", "fast"} :
            ManualCtrl(cmdRecent, centered, speed)
    \/ RcBackInPosition \/ FinishTakeoff
    \/ \E cmdRecent, delayOver \in BOOLEAN : AutoHover(cmdRecent, delayOver)
    \/ \E cmdRecent \in BOOLEAN : CmdCtrl(cmdRecent)
    \/ Climb \/ ReachHeight
    \/ AutoLand \/ \E mayDisarm \in BOOLEAN : IdleAndDisarm(mayDisarm)

-----------------------------------------------------------------------------
(* Callbacks, run by spinOnce *)

RcMessage(mode, gear, reboot) ==
    /\ RcFeed(mode, gear, reboot)
    /\ recent' = [recent EXCEPT !.rc = TRUE]
    /\ prompted' = (prompted \/ rc'.enter_hover_mode)
    /\ UNCHANGED <<state, pc, request, modeBefore, reported, fcu,
                   onGround, detector, delayTrigger, output>>

TakeoffLandMessage(cmd) ==
    /\ request' = cmd
    /\ prompted' = (prompted \/ cmd = "TAKEOFF")
    /\ UNCHANGED <<rcVars, state, pc, recent, modeBefore, reported, fcu,
                   onGround, detector, delayTrigger, output>>

StateMessage ==
    /\ reported' = fcu
    /\ UNCHANGED <<rcVars, state, pc, request, recent, modeBefore, fcu,
                   onGround, detector, delayTrigger, output, prompted>>

OdomMessage ==
    /\ recent' = [recent EXCEPT !.odom = TRUE]
    /\ UNCHANGED <<rcVars, state, pc, request, modeBefore, reported, fcu,
                   onGround, detector, delayTrigger, output, prompted>>

TimesOut(source) ==
    /\ recent' = [recent EXCEPT ![source] = FALSE]
    /\ UNCHANGED <<rcVars, state, pc, request, modeBefore, reported, fcu,
                   onGround, detector, delayTrigger, output, prompted>>

-----------------------------------------------------------------------------
(* The pilot's other controls, the FCU's failsafes and the vehicle *)

FcuChanges ==
    /\ \/ \E mode \in PilotModes : fcu' = [fcu EXCEPT !.mode = mode]
       \/ PilotModes # {} /\ fcu' = [fcu EXCEPT !.armed = TRUE]
       \/ onGround /\ fcu' = [fcu EXCEPT !.armed = FALSE]
    /\ UNCHANGED <<rcVars, state, pc, request, recent, modeBefore, reported,
                   onGround, detector, delayTrigger, output, prompted>>

\* it leaves the ground under the pilot, or on a set point that rises
VehicleMoves ==
    /\ \/ /\ onGround /\ fcu.armed
          /\ fcu.mode # "OFFBOARD" \/ state \in {"AUTO_TAKEOFF", "AUTO_HOVER", "CMD_CTRL"}
          /\ onGround' = FALSE
       \/ ~onGround /\ onGround' = TRUE
    /\ UNCHANGED <<rcVars, state, pc, request, recent, modeBefore, reported,
                   fcu, detector, delayTrigger, output, prompted>>

Callback ==
    \/ \E mode \in ModeLevels, gear \in GearLevels, reboot \in RebootLevels :
            RcMessage(mode, gear, reboot)
    \/ \E cmd \in {"TAKEOFF", "LAND"} : TakeoffLandMessage(cmd)
    \/ StateMessage \/ OdomMessage
    \/ \E source \in {"odom", "rc"} : TimesOut(source)

Next == Process \/ Callback \/ FcuChanges \/ VehicleMoves

Safety == Init /\ [][Next]_vars

\* The loop runs at ctrl_freq_max and process() never waits for anybody but in
\* rcWait, where Process is not enabled until the pilot acts.
Spec == Safety /\ WF_vars(Process)

-----------------------------------------------------------------------------
(* Properties *)

\* The variables have their types, and process() is left half done only in the
\* two loops that spin: the pilot is waited for in manual control, the mode
\* change after the state has become AUTO_TAKEOFF.
TypeOK ==
    /\ RcTypeOK
    /\ state \in States
    /\ pc \in {"loop", "rcWait", "modeWait"}
    /\ pc = "rcWait" => state = "MANUAL_CTRL"
    /\ pc = "modeWait" => state = "AUTO_TAKEOFF"
    /\ request \in {"none", "TAKEOFF", "LAND"}
    /\ recent \in [odom : BOOLEAN, rc : BOOLEAN]
    /\ modeBefore \in Modes \cup {""}
    /\ reported \in FcuStatus
    /\ fcu \in FcuStatus
    /\ onGround \in BOOLEAN
    /\ detector \in Detector
    /\ delayTrigger \in BOOLEAN
    /\ output \in Outputs
    /\ prompted \in BOOLEAN

\* Whatever was refused or reported late before, px4ctrl never flies without
\* a mode to hand back to, and that mode is not OFFBOARD itself.
ReturnModeKnown == state # "MANUAL_CTRL" => modeBefore \notin {"", "OFFBOARD"}

\* px4ctrl takes over only when asked since it last did: losing the odometry
\* hands control back until the pilot moves the switch again or another
\* takeoff is commanded, whatever flags callbacks raised in between.
TakesOverWhenAsked ==
    [][state = "MANUAL_CTRL" /\ state' # "MANUAL_CTRL" => prompted]_vars

\* Outside manual flight the land detector reports a landing only after both
\* constraints have held for TIME_KEEP_C in the current flight; what its static
\* variables remember of an earlier flight does not count.
LandingTakesTime ==
    [][state' # "MANUAL_CTRL" /\ ~detector.landed /\ detector'.landed
         => detector'.run > KeepCycles + 1]_vars

\* While the pilot keeps the switch down, or the odometry stays away, px4ctrl
\* does not keep hovering, following commands or landing.
HandsBack ==
    <>[](~rc.is_hover_mode \/ ~recent.odom)
        => []<>(state \in {"MANUAL_CTRL", "AUTO_TAKEOFF"})

(* What comments and messages of the code say, and the code does not do *)

\* "MANUAL_CTRL: px4ctrl is deactived. FCU is controled by the remote
\* controller only" (PX4CtrlFSM.h:58): it leaves OFFBOARD when it gets there.
ManualLeavesOffboard ==
    [][state # "MANUAL_CTRL" /\ state' = "MANUAL_CTRL" => fcu'.mode # "OFFBOARD"]_vars

\* "land detector says that the drone is not landed now" (PX4CtrlFSM.cpp:95):
\* no takeoff starts in the air.
TakeoffFromGround ==
    [][state = "MANUAL_CTRL" /\ state' = "AUTO_TAKEOFF" => onGround]_vars
=============================================================================

-------------------------- MODULE PX4CtrlFSMProofs --------------------------
(***************************************************************************)
(* Proofs about PX4CtrlFSM, for every set of switch positions, flight      *)
(* controller modes and answers, and every length of TIME_KEEP_C.          *)
(***************************************************************************)
EXTENDS PX4CtrlFSM, TLAPS

\* what every call of process() that runs to its end has in common
Ends(next, c12, sends) ==
    /\ EndCycle(next, c12, sends)
    /\ next \in States /\ c12 \in BOOLEAN /\ sends \in Outputs
    /\ state = "MANUAL_CTRL" \/ pc = "modeWait" => ~c12

CycleEnds == \E next \in States, c12 \in BOOLEAN, sends \in Outputs : Ends(next, c12, sends)

-----------------------------------------------------------------------------
(* Types, and the mode to hand back to *)

FlightInv == TypeOK /\ ReturnModeKnown

LEMMA RcRecord ==
    ASSUME NEW seen \in BOOLEAN, NEW mode \in Levels, NEW gear \in Levels,
           NEW reboot \in Levels, NEW hover \in BOOLEAN, NEW hovers \in BOOLEAN,
           NEW command \in BOOLEAN, NEW commands \in BOOLEAN, NEW reboots \in BOOLEAN
    PROVE  [seen |-> seen, mode |-> mode, gear |-> gear, reboot |-> reboot,
            is_hover_mode |-> hover, enter_hover_mode |-> hovers,
            is_command_mode |-> command, enter_command_mode |-> commands,
            toggle_reboot |-> reboots] \in RcData
BY DEF RcData

LEMMA RcInitType == RcInit => RcTypeOK
<1>1. -1 \in Levels
  BY DEF Levels
<1> QED
  BY <1>1, RcRecord DEF RcInit, RcTypeOK

LEMMA RcFeedType ==
    ASSUME RcTypeOK, NEW mode \in ModeLevels, NEW gear \in GearLevels,
           NEW reboot \in RebootLevels, RcFeed(mode, gear, reboot)
    PROVE  RcTypeOK'
<1> DEFINE hover    == mode > 0
           command  == IF hover THEN gear > 0 ELSE rc.is_command_mode
           commands == \/ hover /\ Rises(Last("gear", gear), gear)
                       \/ rc.enter_command_mode /\ ~(hover /\ gear < 0)
           hovers   == Rises(Last("mode", mode), mode)
           reboots  == /\ RebootAllowed(hover, command)
                       /\ Rises(Last("reboot", reboot), reboot)
<1>1. mode \in Levels /\ gear \in Levels /\ reboot \in Levels
  BY LevelsAssumption
<1>2. rc.is_command_mode \in BOOLEAN
  BY DEF RcTypeOK, RcData
<1>3. hover \in BOOLEAN /\ command \in BOOLEAN /\ commands \in BOOLEAN
  <2>1. hover \in BOOLEAN
    OBVIOUS
  <2>2. command \in BOOLEAN
    <3>1. CASE mode > 0
      <4>1. command = (gear > 0)
        BY <3>1
      <4> HIDE DEF command
      <4> QED  BY <4>1
    <3>2. CASE ~(mode > 0)
      <4>1. command = rc.is_command_mode
        BY <3>2
      <4> HIDE DEF command
      <4> QED  BY <4>1, <1>2
    <3> QED  BY <3>1, <3>2
  <2>3. commands \in BOOLEAN
    BY Zenon
  <2> QED  BY <2>1, <2>2, <2>3
<1>4. hovers \in BOOLEAN /\ reboots \in BOOLEAN
  BY DEF Rises, RebootAllowed
<1>5. rc' = [seen |-> TRUE, mode |-> mode, gear |-> gear, reboot |-> reboot,
             is_hover_mode |-> hover, enter_hover_mode |-> hovers,
             is_command_mode |-> command, enter_command_mode |-> commands,
             toggle_reboot |-> reboots]
  BY DEF RcFeed
<1>6. rc' \in RcData
  <2> TRUE \in BOOLEAN
    OBVIOUS
  <2> HIDE DEF hover, command, commands, hovers, reboots
  <2> QED  BY <1>1, <1>3, <1>4, <1>5 DEF RcData
<1>7. modeSeenLow' \in BOOLEAN
  BY DEF RcFeed, RcTypeOK
<1> QED
  BY <1>6, <1>7 DEF RcTypeOK

LEMMA RcClearType == RcTypeOK /\ RcClear => RcTypeOK'
BY DEF RcTypeOK, RcData, RcClear

LEMMA DetectorType ==
    ASSUME TypeOK, NEW next \in States, NEW c12 \in BOOLEAN, LandDetector(next, c12)
    PROVE  detector' \in Detector
<1>1. detector.since \in 0..(KeepCycles + 1) /\ detector.run \in 0..(KeepCycles + 2)
  BY DEF TypeOK, Detector
<1>2. Capped(detector.since, KeepCycles + 1) \in 0..(KeepCycles + 1)
  BY <1>1, KeepAssumption DEF Capped
<1>3. Capped(detector.run, KeepCycles + 2) \in 0..(KeepCycles + 2)
  BY <1>1, KeepAssumption DEF Capped
<1>4. 0 \in 0..(KeepCycles + 1) /\ 0 \in 0..(KeepCycles + 2)
  BY KeepAssumption
<1>5. detector.landed \in BOOLEAN /\ detector.c12 \in BOOLEAN
      /\ detector.wasManual \in BOOLEAN /\ reported.armed \in BOOLEAN
  BY DEF TypeOK, Detector, FcuStatus
<1> QED
  BY <1>2, <1>3, <1>4, <1>5 DEF LandDetector, Detector, RecordC12

LEMMA EndCycleType ==
    ASSUME FlightInv, CycleEnds,
           fcu' \in FcuStatus, modeBefore' \in Modes \cup {""},
           state' # "MANUAL_CTRL" => modeBefore' \notin {"", "OFFBOARD"},
           delayTrigger' \in BOOLEAN, prompted' \in BOOLEAN
    PROVE  FlightInv'
<1>1. PICK next \in States, c12 \in BOOLEAN, sends \in Outputs : Ends(next, c12, sends)
  BY DEF CycleEnds
<1>2. detector' \in Detector
  BY <1>1, DetectorType DEF Ends, EndCycle, FlightInv
<1>3. RcTypeOK' /\ request' = "none"
  BY <1>1, RcClearType DEF Ends, EndCycle, ClearFlags, FlightInv, TypeOK
<1>4. state' \in States /\ pc' = "loop" /\ output' \in Outputs
      /\ UNCHANGED <<recent, reported, onGround>>
  BY <1>1 DEF Ends, EndCycle
<1> QED
  BY <1>2, <1>3, <1>4 DEF FlightInv, TypeOK, ReturnModeKnown

LEMMA ModesHelp == "OFFBOARD" \in Modes /\ "MANUAL" \in Modes /\ "" \notin Modes
BY ModesAssumption DEF Modes

\* a request to the FCU leaves it with a type-correct status
LEMMA AnsweredType ==
    ASSUME fcu \in FcuStatus, NEW status \in FcuStatus, Answered(status)
    PROVE  fcu' \in FcuStatus
BY DEF Answered

LEMMA ModeStatus ==
    ASSUME fcu \in FcuStatus, NEW mode \in Modes
    PROVE  [fcu EXCEPT !.mode = mode] \in FcuStatus
BY DEF FcuStatus

LEMMA ArmedStatus ==
    ASSUME fcu \in FcuStatus, NEW armed \in BOOLEAN
    PROVE  [fcu EXCEPT !.armed = armed] \in FcuStatus
BY DEF FcuStatus

LEMMA EnterOffboardType ==
    ASSUME FlightInv, EnterOffboard
    PROVE  fcu' \in FcuStatus /\ modeBefore' \in Modes /\ modeBefore' \notin {"", "OFFBOARD"}
<1>1. fcu \in FcuStatus /\ reported.mode \in Modes
  BY DEF FlightInv, TypeOK, FcuStatus
<1>2. fcu' \in FcuStatus
  BY <1>1, ModesHelp, ModeStatus, AnsweredType DEF EnterOffboard
<1>3. modeBefore' \in Modes /\ modeBefore' \notin {"", "OFFBOARD"}
  BY <1>1, ModesHelp DEF EnterOffboard, ModeToReturnTo
<1> QED
  BY <1>2, <1>3

LEMMA ExitOffboardType ==
    ASSUME FlightInv, state # "MANUAL_CTRL", ExitOffboard
    PROVE  fcu' \in FcuStatus /\ UNCHANGED modeBefore
<1>1. fcu \in FcuStatus /\ modeBefore \in Modes
  BY DEF FlightInv, TypeOK, ReturnModeKnown
<1> QED
  BY <1>1, ModeStatus, AnsweredType DEF ExitOffboard

LEMMA BeneathIsBoolean == Beneath \subseteq BOOLEAN
BY DEF Beneath

LEMMA ManualCtrlEnds ==
    ASSUME NEW cmdRecent \in BOOLEAN, NEW speed \in {"static", "slow", "fast"},
           \/ RejectHover(cmdRecent, speed)
           \/ EnterHover(cmdRecent, speed)
           \/ RejectTakeoff(cmdRecent, speed)
           \/ StayManual
    PROVE  CycleEnds
<1>1. RebootCheck \in Outputs
  BY DEF RebootCheck, Outputs
<1>2. CASE EnterHover(cmdRecent, speed)
  <2>1. Ends("AUTO_HOVER", FALSE, RebootCheck)
    BY <1>1, <1>2 DEF EnterHover, Ends, States
  <2> QED  BY <1>1, <2>1 DEF CycleEnds, States
<1>3. CASE RejectHover(cmdRecent, speed) \/ RejectTakeoff(cmdRecent, speed)
  <2>1. Ends("MANUAL_CTRL", FALSE, "none")
    BY <1>3 DEF RejectHover, RejectTakeoff, Ends, States, Outputs
  <2> QED  BY <2>1 DEF CycleEnds, States, Outputs
<1>4. CASE StayManual
  <2>1. Ends("MANUAL_CTRL", FALSE, RebootCheck)
    BY <1>1, <1>4 DEF StayManual, Ends, States
  <2> QED  BY <1>1, <2>1 DEF CycleEnds, States
<1> QED
  BY <1>2, <1>3, <1>4

LEMMA BackToManualEnds == BackToManual => CycleEnds
<1> SUFFICES ASSUME BackToManual PROVE CycleEnds
  OBVIOUS
<1>1. Ends("MANUAL_CTRL", FALSE, "none")
  BY DEF BackToManual, Ends, States, Outputs
<1> QED
  BY <1>1 DEF CycleEnds, States, Outputs

\* every step of the loop but the two that suspend it ends a cycle
LEMMA AutonomousEnds ==
    ASSUME \/ \E cmdRecent, delayOver \in BOOLEAN : AutoHover(cmdRecent, delayOver)
           \/ \E cmdRecent \in BOOLEAN : CmdCtrl(cmdRecent)
           \/ Climb \/ ReachHeight \/ RcBackInPosition \/ FinishTakeoff
           \/ AutoLand \/ \E mayDisarm \in BOOLEAN : IdleAndDisarm(mayDisarm)
    PROVE  CycleEnds
<1>1. ASSUME NEW cmdRecent \in BOOLEAN, NEW delayOver \in BOOLEAN,
             AutoHover(cmdRecent, delayOver)
      PROVE  CycleEnds
  <2> DEFINE sent == rc.enter_command_mode \/ (delayTrigger /\ delayOver)
             sends == IF sent THEN "trigger" ELSE "none"
  <2>1. CASE BackToManual
    BY <2>1, BackToManualEnds
  <2>2. ASSUME NEW c12 \in Beneath, state = "AUTO_HOVER", pc = "loop",
               EndCycle("CMD_CTRL", c12, "none")
        PROVE  CycleEnds
    <3>1. Ends("CMD_CTRL", c12, "none")
      BY <2>2, BeneathIsBoolean DEF Ends, States, Outputs
    <3> QED  BY <3>1, BeneathIsBoolean DEF CycleEnds, States, Outputs
  <2>3. ASSUME NEW c12 \in Beneath, NEW s \in {"trigger", "none"}, state = "AUTO_HOVER", pc = "loop",
               EndCycle("AUTO_HOVER", c12, s)
        PROVE  CycleEnds
    <3>1. Ends("AUTO_HOVER", c12, s)
      BY <2>3, BeneathIsBoolean DEF Ends, States, Outputs
    <3> QED  BY <3>1, BeneathIsBoolean DEF CycleEnds, States, Outputs
  <2>4. ASSUME EndCycle("AUTO_LAND", FALSE, "none")
        PROVE  CycleEnds
    <3>1. Ends("AUTO_LAND", FALSE, "none")
      BY <2>4 DEF Ends, States, Outputs
    <3> QED  BY <3>1 DEF CycleEnds, States, Outputs
  <2>5. FALSE \in Beneath /\ sends \in {"trigger", "none"}
    BY DEF Beneath
  <2> HIDE DEF sends
  <2> QED  BY <1>1, <2>1, <2>2, <2>3, <2>4, <2>5 DEF AutoHover, sends
<1>2. ASSUME NEW cmdRecent \in BOOLEAN, CmdCtrl(cmdRecent)
      PROVE  CycleEnds
  <2>1. CASE BackToManual
    BY <2>1, BackToManualEnds
  <2>2. CASE EndCycle("AUTO_HOVER", FALSE, "none")
    <3>1. Ends("AUTO_HOVER", FALSE, "none")
      BY <2>2 DEF Ends, States, Outputs
    <3> QED  BY <3>1 DEF CycleEnds, States, Outputs
  <2>3. ASSUME NEW c12 \in Beneath, state = "CMD_CTRL", pc = "loop",
               EndCycle("CMD_CTRL", c12, "none")
        PROVE  CycleEnds
    <3>1. Ends("CMD_CTRL", c12, "none")
      BY <2>3, BeneathIsBoolean DEF Ends, States, Outputs
    <3> QED  BY <3>1, BeneathIsBoolean DEF CycleEnds, States, Outputs
  <2> QED  BY <1>2, <2>1, <2>2, <2>3 DEF CmdCtrl
<1>3. CASE Climb \/ FinishTakeoff
  <2>1. RebootCheck \in Outputs
    BY DEF RebootCheck, Outputs
  <2>2. Ends("AUTO_TAKEOFF", FALSE, "none") \/ Ends("AUTO_TAKEOFF", FALSE, RebootCheck)
    BY <1>3, <2>1 DEF Climb, FinishTakeoff, Ends, States, Outputs
  <2> QED  BY <2>1, <2>2 DEF CycleEnds, States, Outputs
<1>4. CASE ReachHeight
  <2>1. Ends("AUTO_HOVER", FALSE, "none")
    BY <1>4 DEF ReachHeight, Ends, States, Outputs
  <2> QED  BY <2>1 DEF CycleEnds, States, Outputs
<1>5. CASE RcBackInPosition
  <2>1. Ends("MANUAL_CTRL", FALSE, "none")
    BY <1>5 DEF RcBackInPosition, Ends, States, Outputs
  <2> QED  BY <2>1 DEF CycleEnds, States, Outputs
<1>6. CASE AutoLand
  <2>1. CASE BackToManual
    BY <2>1, BackToManualEnds
  <2>2. CASE EndCycle("AUTO_HOVER", FALSE, "none")
    <3>1. Ends("AUTO_HOVER", FALSE, "none")
      BY <2>2 DEF Ends, States, Outputs
    <3> QED  BY <3>1 DEF CycleEnds, States, Outputs
  <2>3. ASSUME NEW c12 \in Beneath, state = "AUTO_LAND", pc = "loop",
               EndCycle("AUTO_LAND", c12, "none")
        PROVE  CycleEnds
    <3>1. Ends("AUTO_LAND", c12, "none")
      BY <2>3, BeneathIsBoolean DEF Ends, States, Outputs
    <3> QED  BY <3>1, BeneathIsBoolean DEF CycleEnds, States, Outputs
  <2> QED  BY <1>6, <2>1, <2>2, <2>3 DEF AutoLand
<1>7. ASSUME NEW mayDisarm \in BOOLEAN, IdleAndDisarm(mayDisarm)
      PROVE  CycleEnds
  <2>1. Ends("MANUAL_CTRL", FALSE, "idle") \/ Ends("AUTO_LAND", FALSE, "idle")
    BY <1>7 DEF IdleAndDisarm, Ends, States, Outputs
  <2> QED  BY <2>1 DEF CycleEnds, States, Outputs
<1> QED
  BY <1>1, <1>2, <1>3, <1>4, <1>5, <1>6, <1>7

\* what a process() step does to the variables EndCycle leaves open
LEMMA ProcessOutcome ==
    ASSUME FlightInv, Process
    PROVE  /\ fcu' \in FcuStatus
           /\ modeBefore' \in Modes \cup {""}
           /\ state' # "MANUAL_CTRL" => modeBefore' \notin {"", "OFFBOARD"}
           /\ delayTrigger' \in BOOLEAN /\ prompted' \in BOOLEAN
<1> DEFINE Outcome == /\ fcu' \in FcuStatus
                      /\ modeBefore' \in Modes \cup {""}
                      /\ state' # "MANUAL_CTRL" => modeBefore' \notin {"", "OFFBOARD"}
                      /\ delayTrigger' \in BOOLEAN /\ prompted' \in BOOLEAN
<1>1. /\ fcu \in FcuStatus /\ modeBefore \in Modes \cup {""}
      /\ delayTrigger \in BOOLEAN /\ prompted \in BOOLEAN
      /\ state # "MANUAL_CTRL" => modeBefore \notin {"", "OFFBOARD"}
  BY DEF FlightInv, TypeOK, ReturnModeKnown
<1>2. ASSUME UNCHANGED <<modeBefore, fcu, prompted>>, delayTrigger' \in BOOLEAN,
             state # "MANUAL_CTRL" \/ state' = "MANUAL_CTRL"
      PROVE  Outcome
  BY <1>1, <1>2
<1>3. ASSUME state # "MANUAL_CTRL", BackToManual
      PROVE  Outcome
  <2>1. fcu' \in FcuStatus /\ UNCHANGED modeBefore
    BY <1>3, ExitOffboardType DEF BackToManual
  <2>2. state' = "MANUAL_CTRL" /\ UNCHANGED <<delayTrigger, prompted>>
    BY <1>3 DEF BackToManual, EndCycle
  <2> QED  BY <1>1, <2>1, <2>2
<1>4. ASSUME NEW cmdRecent \in BOOLEAN, NEW centered \in BOOLEAN,
             NEW speed \in {"static", "slow", "fast"},
             ManualCtrl(cmdRecent, centered, speed)
      PROVE  Outcome
  <2>1. CASE RejectHover(cmdRecent, speed) \/ RejectTakeoff(cmdRecent, speed) \/ StayManual
    BY <1>1, <1>2, <2>1 DEF RejectHover, RejectTakeoff, StayManual, EndCycle
  <2>2. CASE EnterHover(cmdRecent, speed)
    BY <1>1, <2>2, EnterOffboardType DEF EnterHover
  <2>3. CASE WaitForRc(cmdRecent, centered)
    BY <1>1, <1>2, <1>4, <2>3 DEF WaitForRc, ManualCtrl
  <2>4. CASE StartTakeoff(cmdRecent, centered)
    BY <1>1, <2>4, EnterOffboardType DEF StartTakeoff
  <2> QED  BY <1>4, <2>1, <2>2, <2>3, <2>4 DEF ManualCtrl
<1>5. CASE RcBackInPosition
  BY <1>1, <1>2, <1>5 DEF RcBackInPosition, EndCycle
<1>6. CASE FinishTakeoff
  <2>1. state = "AUTO_TAKEOFF"
    BY <1>6 DEF FinishTakeoff, FlightInv, TypeOK
  <2>2. fcu' \in FcuStatus
    BY <1>1, <1>6, ArmedStatus, AnsweredType DEF FinishTakeoff
  <2> QED  BY <1>1, <1>6, <2>1, <2>2 DEF FinishTakeoff
<1>7. ASSUME NEW cmdRecent \in BOOLEAN, NEW delayOver \in BOOLEAN,
             AutoHover(cmdRecent, delayOver)
      PROVE  Outcome
  <2>1. CASE BackToManual
    BY <1>3, <1>7, <2>1 DEF AutoHover
  <2>2. CASE ~BackToManual
    <3>1. UNCHANGED <<modeBefore, fcu, prompted>> /\ state = "AUTO_HOVER"
      BY <1>7, <2>2 DEF AutoHover
    <3>2. delayTrigger' \in BOOLEAN
      BY <1>1, <1>7, <2>2 DEF AutoHover
    <3> QED  BY <1>2, <3>1, <3>2
  <2> QED  BY <2>1, <2>2
<1>8. ASSUME NEW cmdRecent \in BOOLEAN, CmdCtrl(cmdRecent)
      PROVE  Outcome
  BY <1>1, <1>2, <1>3, <1>8 DEF CmdCtrl
<1>9. CASE Climb
  BY <1>1, <1>2, <1>9 DEF Climb
<1>10. CASE ReachHeight
  BY <1>1, <1>2, <1>10 DEF ReachHeight
<1>11. CASE AutoLand
  BY <1>1, <1>2, <1>3, <1>11 DEF AutoLand
<1>12. ASSUME NEW mayDisarm \in BOOLEAN, IdleAndDisarm(mayDisarm)
       PROVE  Outcome
  <2>1. modeBefore \in Modes
    BY <1>1, <1>12 DEF IdleAndDisarm
  <2>2. fcu' \in FcuStatus
    <3>1. ASSUME NEW mode \in Modes
          PROVE  [mode |-> mode, armed |-> FALSE] \in FcuStatus
      BY DEF FcuStatus
    <3>2. ASSUME NEW leaves \in FcuAnswers
          PROVE  (IF leaves = "done" THEN modeBefore ELSE fcu.mode) \in Modes
      BY <1>1, <2>1 DEF FcuStatus
    <3> QED  BY <1>1, <1>12, <3>1, <3>2 DEF IdleAndDisarm
  <2> QED  BY <1>1, <1>12, <2>2 DEF IdleAndDisarm
<1> QED
  BY <1>4, <1>5, <1>6, <1>7, <1>8, <1>9, <1>10, <1>11, <1>12 DEF Process

LEMMA ProcessEndsOrSpins ==
    ASSUME FlightInv, Process
    PROVE  \/ CycleEnds
           \/ /\ UNCHANGED <<rcVars, request, recent, reported, onGround, detector, output>>
              /\ pc = "loop" /\ state = "MANUAL_CTRL"
              /\ \/ pc' = "rcWait" /\ UNCHANGED <<state, prompted>>
                 \/ /\ pc' = "modeWait" /\ state' = "AUTO_TAKEOFF"
                    /\ request = "TAKEOFF" /\ prompted' = FALSE
<1>1. ASSUME NEW cmdRecent \in BOOLEAN, NEW centered \in BOOLEAN,
             NEW speed \in {"static", "slow", "fast"},
             ManualCtrl(cmdRecent, centered, speed)
      PROVE  CycleEnds \/ WaitForRc(cmdRecent, centered) \/ StartTakeoff(cmdRecent, centered)
  BY <1>1, ManualCtrlEnds DEF ManualCtrl
<1>2. ASSUME NEW cmdRecent \in BOOLEAN, NEW centered \in BOOLEAN,
             NEW speed \in {"static", "slow", "fast"},
             ManualCtrl(cmdRecent, centered, speed)
      PROVE  pc = "loop" /\ state = "MANUAL_CTRL"
  BY <1>2 DEF ManualCtrl
<1> QED
  BY <1>1, <1>2, AutonomousEnds DEF Process, WaitForRc, StartTakeoff, TakeoffAsked,
     StateInTheSpins

LEMMA CallbackType ==
    ASSUME FlightInv, Callback \/ FcuChanges \/ VehicleMoves
    PROVE  FlightInv'
<1>1. /\ fcu \in FcuStatus /\ reported \in FcuStatus /\ onGround \in BOOLEAN
      /\ recent \in [odom : BOOLEAN, rc : BOOLEAN] /\ prompted \in BOOLEAN
      /\ RcTypeOK
  BY DEF FlightInv, TypeOK
<1>2. ASSUME NEW mode \in ModeLevels, NEW gear \in GearLevels,
             NEW reboot \in RebootLevels, RcMessage(mode, gear, reboot)
      PROVE  FlightInv'
  <2>1. RcTypeOK'
    BY <1>1, <1>2, RcFeedType DEF RcMessage
  <2>2. recent' \in [odom : BOOLEAN, rc : BOOLEAN]
    BY <1>1, <1>2 DEF RcMessage
  <2>3. prompted' \in BOOLEAN
    BY <1>2, Zenon DEF RcMessage
  <2> QED  BY <1>2, <2>1, <2>2, <2>3 DEF RcMessage, FlightInv, TypeOK, ReturnModeKnown
<1>3. ASSUME NEW cmd \in {"TAKEOFF", "LAND"}, TakeoffLandMessage(cmd)
      PROVE  FlightInv'
  BY <1>3 DEF TakeoffLandMessage, FlightInv, TypeOK, ReturnModeKnown, rcVars, RcTypeOK
<1>4. CASE StateMessage
  BY <1>4 DEF StateMessage, FlightInv, TypeOK, ReturnModeKnown, rcVars, RcTypeOK
<1>5. CASE OdomMessage
  BY <1>5 DEF OdomMessage, FlightInv, TypeOK, ReturnModeKnown, rcVars, RcTypeOK
<1>6. ASSUME NEW source \in {"odom", "rc"}, TimesOut(source)
      PROVE  FlightInv'
  BY <1>6 DEF TimesOut, FlightInv, TypeOK, ReturnModeKnown, rcVars, RcTypeOK
<1>7. CASE FcuChanges
  <2>1. PilotModes \subseteq Modes
    BY DEF Modes
  <2>2. fcu' \in FcuStatus
    BY <1>1, <1>7, <2>1, ModeStatus, ArmedStatus DEF FcuChanges
  <2> QED  BY <1>7, <2>2 DEF FcuChanges, FlightInv, TypeOK, ReturnModeKnown, rcVars, RcTypeOK
<1>8. CASE VehicleMoves
  BY <1>8 DEF VehicleMoves, FlightInv, TypeOK, ReturnModeKnown, rcVars, RcTypeOK
<1> QED
  BY <1>2, <1>3, <1>4, <1>5, <1>6, <1>7, <1>8 DEF Callback

LEMMA FlightInvariant == Safety => []FlightInv
<1>1. Init => FlightInv
  <2> SUFFICES ASSUME Init PROVE FlightInv
    OBVIOUS
  <2>1. RcTypeOK
    BY RcInitType DEF Init
  <2>2. fcu \in FcuStatus
    BY DEF Init, FcuStatus
  <2>3. detector \in Detector
    <3>1. KeepCycles + 1 \in 0..(KeepCycles + 1) /\ 0 \in 0..(KeepCycles + 2)
      BY KeepAssumption
    <3> QED  BY <3>1 DEF Init, Detector
  <2> QED  BY <2>1, <2>2, <2>3 DEF Init, FlightInv, TypeOK, ReturnModeKnown, States, Outputs
<1>2. FlightInv /\ [Next]_vars => FlightInv'
  <2> SUFFICES ASSUME FlightInv, [Next]_vars PROVE FlightInv'
    OBVIOUS
  <2>1. CASE Process
    <3>1. CASE CycleEnds
      BY <2>1, <3>1, ProcessOutcome, EndCycleType
    <3>2. CASE ~CycleEnds
      BY <2>1, <3>2, ProcessOutcome, ProcessEndsOrSpins
      DEF FlightInv, TypeOK, ReturnModeKnown, rcVars, RcTypeOK, States
    <3> QED  BY <3>1, <3>2
  <2>2. CASE Callback \/ FcuChanges \/ VehicleMoves
    BY <2>2, CallbackType
  <2>3. CASE UNCHANGED vars
    BY <2>3 DEF vars, fsmVars, rcVars, FlightInv, TypeOK, ReturnModeKnown, RcTypeOK
  <2> QED  BY <2>1, <2>2, <2>3 DEF Next
<1> QED
  BY <1>1, <1>2, PTL DEF Safety

\* The variables of px4ctrl have their types, and process() is half done only
\* in manual control (waiting for the pilot) or in AUTO_TAKEOFF (waiting for
\* the mode change).
THEOREM TypeCorrect == Safety => []TypeOK
<1>1. FlightInv => TypeOK
  BY DEF FlightInv
<1> QED
  BY <1>1, FlightInvariant, PTL

\* Every autonomous state knows a mode to hand back to that is not OFFBOARD,
\* whatever toggle_offboard_mode() was refused and whatever was reported late.
THEOREM HandBackModeKnown == Safety => []ReturnModeKnown
<1>1. FlightInv => ReturnModeKnown
  BY DEF FlightInv
<1> QED
  BY <1>1, FlightInvariant, PTL

-----------------------------------------------------------------------------
(* px4ctrl takes over only when asked *)

\* a raised flag is a request not yet answered, except in the spins of a
\* takeoff, whose own flags are still raised
AskedInv ==
    pc # "modeWait" => (rc.enter_hover_mode \/ request = "TAKEOFF" => prompted)

LEMMA CallbackFrame ==
    ASSUME Callback \/ FcuChanges \/ VehicleMoves \/ UNCHANGED vars
    PROVE  UNCHANGED <<state, pc, detector>>
BY DEF Callback, FcuChanges, VehicleMoves, RcMessage, TakeoffLandMessage, StateMessage,
       OdomMessage, TimesOut, vars, fsmVars

\* the two ways out of manual control
LEMMA TakesOver ==
    ASSUME FlightInv, Process, state = "MANUAL_CTRL", state' # "MANUAL_CTRL"
    PROVE  pc = "loop" /\ (rc.enter_hover_mode \/ request = "TAKEOFF")
<1>1. ASSUME NEW cmdRecent \in BOOLEAN, NEW centered \in BOOLEAN,
             NEW speed \in {"static", "slow", "fast"},
             ManualCtrl(cmdRecent, centered, speed)
      PROVE  pc = "loop" /\ (rc.enter_hover_mode \/ request = "TAKEOFF")
  BY <1>1 DEF ManualCtrl, RejectHover, EnterHover, RejectTakeoff, WaitForRc,
              StartTakeoff, StayManual, TakeoffAsked, EndCycle
<1>2. pc # "modeWait"
  BY DEF FlightInv, TypeOK
<1> QED
  BY <1>1, <1>2 DEF Process, RcBackInPosition, FinishTakeoff, AutoHover, CmdCtrl, Climb,
     ReachHeight, AutoLand, IdleAndDisarm, EndCycle

LEMMA AskedInvariant == Safety => [](FlightInv /\ AskedInv)
<1>1. Init => AskedInv
  <2> SUFFICES ASSUME Init PROVE ~rc.enter_hover_mode /\ request = "none"
    BY DEF AskedInv
  <2>1. rc.enter_hover_mode = FALSE
    BY DEF Init, RcInit
  <2>2. request = "none"
    BY DEF Init
  <2> QED  BY <2>1, <2>2
<1>2. FlightInv /\ AskedInv /\ [Next]_vars => AskedInv'
  <2> SUFFICES ASSUME FlightInv, AskedInv, [Next]_vars PROVE AskedInv'
    OBVIOUS
  <2>1. CASE Process
    <3>1. CASE CycleEnds
      <4>1. request' = "none" /\ rc' = [rc EXCEPT !.enter_hover_mode = FALSE,
                                                  !.enter_command_mode = FALSE,
                                                  !.toggle_reboot = FALSE]
        BY <3>1 DEF CycleEnds, Ends, EndCycle, ClearFlags, RcClear
      <4>2. rc'.enter_hover_mode = FALSE
        BY <4>1 DEF FlightInv, TypeOK, RcTypeOK, RcData
      <4> QED  BY <4>1, <4>2 DEF AskedInv
    <3>2. CASE ~CycleEnds
      BY <2>1, <3>2, ProcessEndsOrSpins DEF AskedInv, rcVars
    <3> QED  BY <3>1, <3>2
  <2>2. CASE Callback
    <3>1. ASSUME NEW mode \in ModeLevels, NEW gear \in GearLevels,
                 NEW reboot \in RebootLevels, RcMessage(mode, gear, reboot)
          PROVE  AskedInv'
      BY <3>1 DEF RcMessage, AskedInv
    <3>2. ASSUME NEW cmd \in {"TAKEOFF", "LAND"}, TakeoffLandMessage(cmd)
          PROVE  AskedInv'
      BY <3>2 DEF TakeoffLandMessage, AskedInv, rcVars
    <3>3. CASE StateMessage \/ OdomMessage \/ \E source \in {"odom", "rc"} : TimesOut(source)
      BY <3>3 DEF StateMessage, OdomMessage, TimesOut, AskedInv, rcVars
    <3> QED  BY <2>2, <3>1, <3>2, <3>3 DEF Callback
  <2>3. CASE FcuChanges \/ VehicleMoves \/ UNCHANGED vars
    BY <2>3 DEF FcuChanges, VehicleMoves, AskedInv, vars, fsmVars, rcVars
  <2> QED  BY <2>1, <2>2, <2>3 DEF Next
<1> QED
  BY <1>1, <1>2, FlightInvariant, PTL DEF Safety

\* px4ctrl leaves manual control only when the pilot's switch or a takeoff
\* message has asked for it since it last did.
THEOREM TakeoverIsAsked == Safety => TakesOverWhenAsked
<1>1. FlightInv /\ AskedInv /\ [Next]_vars
        => [state = "MANUAL_CTRL" /\ state' # "MANUAL_CTRL" => prompted]_vars
  <2> SUFFICES ASSUME FlightInv, AskedInv, [Next]_vars,
                      state = "MANUAL_CTRL", state' # "MANUAL_CTRL"
               PROVE  prompted
    OBVIOUS
  <2>1. CASE Process
    BY <2>1, TakesOver DEF AskedInv
  <2>2. CASE Callback \/ FcuChanges \/ VehicleMoves \/ UNCHANGED vars
    BY <2>2, CallbackFrame
  <2> QED  BY <2>1, <2>2 DEF Next
<1> QED
  BY <1>1, AskedInvariant, PTL DEF Safety, TakesOverWhenAsked

-----------------------------------------------------------------------------
(* The land detector needs TIME_KEEP_C of the current flight *)

\* the statics of land_detector() agree with the state machine, and while it
\* counts, the time it has counted has been spent in this flight
DetectorInv ==
    /\ detector.wasManual = (state = "MANUAL_CTRL" \/ pc = "modeWait")
    /\ detector.c12 /\ ~detector.landed => detector.run >= detector.since + 1

LEMMA DetectorStep ==
    ASSUME FlightInv, DetectorInv, NEW next \in States, NEW c12 \in BOOLEAN,
           NEW sends \in Outputs, Ends(next, c12, sends)
    PROVE  /\ detector'.wasManual = (next = "MANUAL_CTRL")
           /\ detector'.c12 /\ ~detector'.landed => detector'.run >= detector'.since + 1
           /\ next # "MANUAL_CTRL" /\ ~detector.landed /\ detector'.landed
                => detector'.run > KeepCycles + 1
<1> DEFINE activated == detector.wasManual /\ next \in {"AUTO_HOVER", "AUTO_TAKEOFF"}
           landed    == detector.landed /\ ~activated
           idle      == next = "MANUAL_CTRL" /\ ~reported.armed
           since     == Capped(detector.since, KeepCycles + 1)
           kept      == c12 /\ detector.c12 /\ since > KeepCycles
           run       == IF c12 /\ ~activated THEN Capped(detector.run, KeepCycles + 2) ELSE 0
<1>1. /\ detector.since \in 0..(KeepCycles + 1) /\ detector.run \in 0..(KeepCycles + 2)
      /\ detector.landed \in BOOLEAN /\ detector.c12 \in BOOLEAN
  BY DEF FlightInv, TypeOK, Detector
<1>2. LandDetector(next, c12)
  BY DEF Ends, EndCycle
<1>3. /\ detector'.landed = (idle \/ landed \/ kept)
      /\ detector'.wasManual = (next = "MANUAL_CTRL")
      /\ detector'.c12 = (IF idle THEN detector.c12 ELSE ~landed /\ c12)
      /\ detector'.since = (IF ~idle /\ (landed \/ (c12 /\ ~detector.c12)) THEN 0 ELSE since)
      /\ detector'.run = run
  BY <1>2 DEF LandDetector, RecordC12
<1>4. c12 => ~activated
  BY DEF DetectorInv, Ends
<1>5. /\ since = IF detector.since < KeepCycles + 1 THEN detector.since + 1 ELSE KeepCycles + 1
      /\ c12 => run = IF detector.run < KeepCycles + 2 THEN detector.run + 1 ELSE KeepCycles + 2
  BY <1>4 DEF Capped
<1>6. detector.c12 /\ ~detector.landed => detector.run >= detector.since + 1
  BY DEF DetectorInv
<1>7. landed = (detector.landed /\ ~activated)
  OBVIOUS
<1>8. ASSUME detector'.c12, ~detector'.landed PROVE detector'.run >= detector'.since + 1
  <2>1. ~idle /\ ~landed /\ ~kept /\ c12 /\ ~activated /\ ~detector.landed
    BY <1>3, <1>4, <1>8
  <2> HIDE DEF idle, landed, kept, activated, since, run
  <2> QED  BY <1>1, <1>3, <1>5, <1>6, <2>1, KeepAssumption
<1>9. ASSUME next # "MANUAL_CTRL", ~detector.landed, detector'.landed
      PROVE  detector'.run > KeepCycles + 1
  <2>1. kept
    BY <1>3, <1>9
  <2>2. c12 /\ detector.c12 /\ since > KeepCycles
    BY <2>1
  <2> HIDE DEF idle, landed, kept, activated, since, run
  <2> QED  BY <1>1, <1>3, <1>5, <1>6, <1>9, <2>2, KeepAssumption
<1> QED
  BY <1>3, <1>8, <1>9

LEMMA DetectorInvariant == Safety => [](FlightInv /\ DetectorInv)
<1>1. Init => DetectorInv
  <2> SUFFICES ASSUME Init PROVE DetectorInv
    OBVIOUS
  <2>1. detector.wasManual = TRUE /\ detector.c12 = FALSE
    BY DEF Init
  <2>2. state = "MANUAL_CTRL"
    BY DEF Init
  <2> QED  BY <2>1, <2>2 DEF DetectorInv
<1>2. FlightInv /\ DetectorInv /\ [Next]_vars => DetectorInv'
  <2> SUFFICES ASSUME FlightInv, DetectorInv, [Next]_vars PROVE DetectorInv'
    OBVIOUS
  <2>1. CASE CycleEnds
    <3>1. PICK next \in States, c12 \in BOOLEAN, sends \in Outputs : Ends(next, c12, sends)
      BY <2>1 DEF CycleEnds
    <3>2. state' = next /\ pc' = "loop"
      BY <3>1 DEF Ends, EndCycle
    <3> QED  BY <3>1, <3>2, DetectorStep DEF DetectorInv
  <2>2. CASE Process /\ ~CycleEnds
    BY <2>2, ProcessEndsOrSpins DEF DetectorInv
  <2>3. CASE Callback \/ FcuChanges \/ VehicleMoves \/ UNCHANGED vars
    BY <2>3, CallbackFrame DEF DetectorInv
  <2> QED  BY <2>1, <2>2, <2>3 DEF Next
<1> QED
  BY <1>1, <1>2, FlightInvariant, PTL DEF Safety

\* Outside manual control a landing is reported only after the two constraints
\* have held without a break for TIME_KEEP_C of the current flight.
THEOREM LandingNeedsTime == Safety => LandingTakesTime
<1>1. FlightInv /\ DetectorInv /\ [Next]_vars
        => [state' # "MANUAL_CTRL" /\ ~detector.landed /\ detector'.landed
              => detector'.run > KeepCycles + 1]_vars
  <2> SUFFICES ASSUME FlightInv, DetectorInv, [Next]_vars,
                      state' # "MANUAL_CTRL", ~detector.landed, detector'.landed
               PROVE  detector'.run > KeepCycles + 1
    OBVIOUS
  <2>1. CASE CycleEnds
    <3>1. PICK next \in States, c12 \in BOOLEAN, sends \in Outputs : Ends(next, c12, sends)
      BY <2>1 DEF CycleEnds
    <3>2. state' = next
      BY <3>1 DEF Ends, EndCycle
    <3> QED  BY <3>1, <3>2, DetectorStep
  <2>2. CASE Process /\ ~CycleEnds
    BY <2>2, ProcessEndsOrSpins
  <2>3. CASE Callback \/ FcuChanges \/ VehicleMoves \/ UNCHANGED vars
    BY <2>3, CallbackFrame
  <2> QED  BY <2>1, <2>2, <2>3 DEF Next
<1> QED
  BY <1>1, DetectorInvariant, PTL DEF Safety, LandingTakesTime

-----------------------------------------------------------------------------
(* The switch that is up when px4ctrl starts *)

\* a switch that was seen low may rise
DeliberateInv ==
    /\ HoverRequestDeliberate
    /\ rc.seen /\ rc.mode < 0 => modeSeenLow

LEMMA DeliberateFeed ==
    ASSUME RcTypeOK, DeliberateInv, NEW mode \in Levels, NEW gear \in Levels,
           NEW reboot \in Levels, RcFeed(mode, gear, reboot)
    PROVE  DeliberateInv'
<1>1. /\ rc'.seen = TRUE /\ rc'.mode = mode
      /\ rc'.enter_hover_mode = Rises(Last("mode", mode), mode)
      /\ modeSeenLow' = (modeSeenLow \/ mode < 0)
  BY DEF RcFeed
<1>2. Last("mode", mode) = IF rc.seen THEN rc.mode ELSE mode
  BY DEF Last
<1>3. Rises(Last("mode", mode), mode) => modeSeenLow
  <2>1. mode \in Int /\ rc.mode \in Int /\ rc.seen \in BOOLEAN
    BY DEF RcTypeOK, RcData, Levels
  <2> QED
    BY <1>2, <2>1 DEF Rises, DeliberateInv
<1> QED
  BY <1>1, <1>3 DEF DeliberateInv, HoverRequestDeliberate

LEMMA DeliberateInvariant == Safety => []DeliberateInv
<1>1. Init => DeliberateInv
  <2> SUFFICES ASSUME Init PROVE rc.seen = FALSE /\ rc.enter_hover_mode = FALSE
    BY DEF DeliberateInv, HoverRequestDeliberate
  <2> QED
    BY DEF Init, RcInit
<1>2. FlightInv /\ DeliberateInv /\ [Next]_vars => DeliberateInv'
  <2> SUFFICES ASSUME FlightInv, DeliberateInv, [Next]_vars PROVE DeliberateInv'
    OBVIOUS
  <2>1. ASSUME UNCHANGED rcVars PROVE DeliberateInv'
    BY <2>1 DEF rcVars, DeliberateInv, HoverRequestDeliberate
  <2>2. CASE Process
    <3>1. CASE CycleEnds
      <4>1. RcClear
        BY <3>1 DEF CycleEnds, Ends, EndCycle, ClearFlags
      <4>2. rc'.enter_hover_mode = FALSE /\ rc'.seen = rc.seen /\ rc'.mode = rc.mode
            /\ modeSeenLow' = modeSeenLow
        BY <4>1 DEF FlightInv, TypeOK, RcTypeOK, RcData, RcClear
      <4> QED  BY <4>2 DEF DeliberateInv, HoverRequestDeliberate
    <3>2. CASE ~CycleEnds
      BY <2>1, <2>2, <3>2, ProcessEndsOrSpins
    <3> QED  BY <3>1, <3>2
  <2>3. ASSUME NEW mode \in ModeLevels, NEW gear \in GearLevels,
               NEW reboot \in RebootLevels, RcMessage(mode, gear, reboot)
        PROVE  DeliberateInv'
    BY <2>3, DeliberateFeed, LevelsAssumption DEF RcMessage, FlightInv, TypeOK
  <2>4. CASE \/ StateMessage \/ OdomMessage \/ FcuChanges \/ VehicleMoves
             \/ \E cmd \in {"TAKEOFF", "LAND"} : TakeoffLandMessage(cmd)
             \/ \E source \in {"odom", "rc"} : TimesOut(source)
    BY <2>1, <2>4 DEF StateMessage, OdomMessage, FcuChanges, VehicleMoves,
         TakeoffLandMessage, TimesOut
  <2>5. CASE UNCHANGED vars
    BY <2>1, <2>5 DEF vars, fsmVars
  <2> QED  BY <2>2, <2>3, <2>4, <2>5 DEF Next, Callback
<1> QED
  BY <1>1, <1>2, FlightInvariant, PTL DEF Safety

\* A switch that is up when px4ctrl starts asks for nothing until it was moved down.
THEOREM HoverIsDeliberate == Safety => []HoverRequestDeliberate
<1>1. DeliberateInv => HoverRequestDeliberate
  BY DEF DeliberateInv
<1> QED
  BY <1>1, DeliberateInvariant, PTL

-----------------------------------------------------------------------------
(* Handing back: what HandsBack needs besides a loop that keeps running *)

Flying == state \in {"AUTO_HOVER", "CMD_CTRL", "AUTO_LAND"}

\* the first cycle with the switch down or without odometry ends in manual
\* control, and asks the FCU for the mode it had when px4ctrl took over
HandsBackInOneCycle ==
    [][Flying /\ HandBack /\ Process
         => state' = "MANUAL_CTRL" /\ fcu'.mode \in {fcu.mode, modeBefore}]_vars

ReturnModeKept == [][state # "MANUAL_CTRL" => UNCHANGED modeBefore]_vars

LEMMA FlyingIsInTheLoop ==
    ASSUME FlightInv, Flying
    PROVE  /\ pc = "loop" /\ state \notin {"MANUAL_CTRL", "AUTO_TAKEOFF"}
           /\ fcu = [mode |-> fcu.mode, armed |-> fcu.armed]
<1>1. pc \in {"loop", "rcWait", "modeWait"} /\ fcu \in FcuStatus
  BY DEF FlightInv, TypeOK
<1>2. pc # "rcWait" /\ pc # "modeWait"
  BY DEF FlightInv, TypeOK, Flying
<1> QED
  BY <1>1, <1>2 DEF Flying, FcuStatus

LEMMA BackToManualHands ==
    ASSUME FlightInv, Flying, BackToManual
    PROVE  state' = "MANUAL_CTRL" /\ fcu'.mode \in {fcu.mode, modeBefore}
<1>1. [fcu EXCEPT !.mode = modeBefore].mode = modeBefore
  BY FlyingIsInTheLoop
<1> QED
  BY <1>1 DEF BackToManual, EndCycle, ExitOffboard, Answered

\* Whoever lowers the switch or loses the odometry in flight has the vehicle
\* back after one cycle of the loop, whatever mode changes the FCU refused.
THEOREM HandsBackAtOnce == Safety => HandsBackInOneCycle
<1>1. FlightInv => [Flying /\ HandBack /\ Process
                      => state' = "MANUAL_CTRL" /\ fcu'.mode \in {fcu.mode, modeBefore}]_vars
  <2> SUFFICES ASSUME FlightInv, Flying, HandBack, Process
               PROVE  state' = "MANUAL_CTRL" /\ fcu'.mode \in {fcu.mode, modeBefore}
    OBVIOUS
  <2>1. pc = "loop" /\ state \notin {"MANUAL_CTRL", "AUTO_TAKEOFF"}
    BY FlyingIsInTheLoop
  <2>2. BackToManual
    <3>1. ASSUME NEW cmdRecent \in BOOLEAN, NEW delayOver \in BOOLEAN,
                 AutoHover(cmdRecent, delayOver)
          PROVE  BackToManual
      BY <3>1 DEF AutoHover
    <3>2. ASSUME NEW cmdRecent \in BOOLEAN, CmdCtrl(cmdRecent)
          PROVE  BackToManual
      BY <3>2 DEF CmdCtrl
    <3>3. CASE AutoLand
      BY <3>3 DEF AutoLand
    <3>4. ASSUME NEW mayDisarm \in BOOLEAN PROVE ~IdleAndDisarm(mayDisarm)
      BY DEF IdleAndDisarm
    <3>5. /\ \A cmdRecent, centered \in BOOLEAN, speed \in {"static", "slow", "fast"} :
                ~ManualCtrl(cmdRecent, centered, speed)
          /\ ~RcBackInPosition /\ ~FinishTakeoff /\ ~Climb /\ ~ReachHeight
      BY <2>1 DEF ManualCtrl, RcBackInPosition, FinishTakeoff, Climb, ReachHeight
    <3> QED  BY <3>1, <3>2, <3>3, <3>4, <3>5 DEF Process
  <2> QED  BY <2>2, BackToManualHands
<1> QED
  BY <1>1, FlightInvariant, PTL DEF Safety, HandsBackInOneCycle

\* The mode to hand back to is the one px4ctrl found when it took over: no
\* cycle, message or failsafe in flight replaces it.
THEOREM ReturnModeStays == Safety => ReturnModeKept
<1>1. FlightInv /\ [Next]_vars => [state # "MANUAL_CTRL" => UNCHANGED modeBefore]_vars
  <2> SUFFICES ASSUME FlightInv, Next, state # "MANUAL_CTRL"
               PROVE  UNCHANGED modeBefore
    BY DEF vars
  <2>1. ASSUME NEW cmdRecent \in BOOLEAN, NEW centered \in BOOLEAN,
               NEW speed \in {"static", "slow", "fast"}
        PROVE  ~ManualCtrl(cmdRecent, centered, speed)
    BY DEF ManualCtrl
  <2>2. pc # "rcWait"
    BY DEF FlightInv, TypeOK
  <2>3. BackToManual => UNCHANGED modeBefore
    BY DEF BackToManual, ExitOffboard
  <2>4. ASSUME NEW cmdRecent \in BOOLEAN, NEW delayOver \in BOOLEAN,
               AutoHover(cmdRecent, delayOver)
        PROVE  UNCHANGED modeBefore
    BY <2>3, <2>4 DEF AutoHover
  <2>5. ASSUME NEW cmdRecent \in BOOLEAN, CmdCtrl(cmdRecent)
        PROVE  UNCHANGED modeBefore
    BY <2>3, <2>5 DEF CmdCtrl
  <2>6. CASE AutoLand
    BY <2>3, <2>6 DEF AutoLand
  <2>7. ASSUME NEW mayDisarm \in BOOLEAN, IdleAndDisarm(mayDisarm)
        PROVE  UNCHANGED modeBefore
    BY <2>7 DEF IdleAndDisarm
  <2>8. CASE RcBackInPosition \/ FinishTakeoff \/ Climb \/ ReachHeight
    BY <2>2, <2>8 DEF RcBackInPosition, FinishTakeoff, Climb, ReachHeight
  <2>9. CASE Callback \/ FcuChanges \/ VehicleMoves
    BY <2>9 DEF Callback, FcuChanges, VehicleMoves, RcMessage, TakeoffLandMessage,
         StateMessage, OdomMessage, TimesOut
  <2> QED  BY <2>1, <2>4, <2>5, <2>6, <2>7, <2>8, <2>9 DEF Next, Process
<1> QED
  BY <1>1, FlightInvariant, PTL DEF Safety, ReturnModeKept
=============================================================================

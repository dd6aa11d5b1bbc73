----------------------------- MODULE RcSwitches -----------------------------
(***************************************************************************)
(* The switches of the remote controller as px4ctrl sees them              *)
(* (RC_Data_t, px4ctrl/src/input.cpp).  A channel is reduced to where it   *)
(* lies relative to its threshold: -1 below, 0 exactly at it, 1 above; the *)
(* code compares with < and with >, so 0 is neither low nor high.          *)
(*                                                                         *)
(* enter_hover_mode, enter_command_mode and toggle_reboot are events: a    *)
(* message raises them and the end of the control cycle clears them.       *)
(***************************************************************************)
EXTENDS Integers

CONSTANTS
    ModeLevels,      \* what channel 5 (mode) may read
    GearLevels,      \* what channel 6 (gear) may read
    RebootLevels     \* what channel 8 (reboot_cmd) may read

Levels == {-1, 0, 1}

ASSUME LevelsAssumption ==
    /\ ModeLevels \subseteq Levels
    /\ GearLevels \subseteq Levels
    /\ RebootLevels \subseteq Levels

VARIABLES
    rc,         \* rc_data
    modeSeenLow \* history: a message has shown the mode switch below threshold

rcVars == <<rc, modeSeenLow>>

RcData == [seen : BOOLEAN,                             \* have_init_last_*
           mode : Levels, gear : Levels, reboot : Levels,
           is_hover_mode : BOOLEAN, enter_hover_mode : BOOLEAN,
           is_command_mode : BOOLEAN, enter_command_mode : BOOLEAN,
           toggle_reboot : BOOLEAN]

\* Faulty variant: without have_init_last_* the channels start below threshold.
RcInitSeen ==
    /\ rc = [seen |-> TRUE, mode |-> -1, gear |-> -1, reboot |-> -1,
             is_hover_mode |-> TRUE, enter_hover_mode |-> FALSE,
             is_command_mode |-> TRUE, enter_command_mode |-> FALSE,
             toggle_reboot |-> FALSE]
    /\ modeSeenLow = FALSE

RcInit ==
    /\ rc = [seen |-> FALSE, mode |-> -1, gear |-> -1, reboot |-> -1,
             is_hover_mode |-> TRUE, enter_hover_mode |-> FALSE,
             is_command_mode |-> TRUE, enter_command_mode |-> FALSE,
             toggle_reboot |-> FALSE]
    /\ modeSeenLow = FALSE

Rises(last, now) == last < 0 /\ now > 0

\* the last_* value a message is compared with
Last(channel, now) == IF rc.seen THEN rc[channel] ELSE now

RebootAllowed(hover, command) == ~hover /\ ~command

RcFeed(mode, gear, reboot) ==
    LET hover   == mode > 0
        command == IF hover THEN gear > 0 ELSE rc.is_command_mode
        entersCommand ==
            \/ hover /\ Rises(Last("gear", gear), gear)
            \/ rc.enter_command_mode /\ ~(hover /\ gear < 0)
    IN  /\ rc' = [seen |-> TRUE, mode |-> mode, gear |-> gear, reboot |-> reboot,
                  is_hover_mode |-> hover,
                  enter_hover_mode |-> Rises(Last("mode", mode), mode),
                  is_command_mode |-> command,
                  enter_command_mode |-> entersCommand,
                  toggle_reboot |-> /\ RebootAllowed(hover, command)
                                    /\ Rises(Last("reboot", reboot), reboot)]
        /\ modeSeenLow' = (modeSeenLow \/ mode < 0)

\* STEP6 of PX4CtrlFSM::process()
RcClear ==
    /\ rc' = [rc EXCEPT !.enter_hover_mode = FALSE,
                        !.enter_command_mode = FALSE,
                        !.toggle_reboot = FALSE]
    /\ UNCHANGED modeSeenLow

-----------------------------------------------------------------------------
(* Properties *)

RcTypeOK == rc \in RcData /\ modeSeenLow \in BOOLEAN

\* A request to hover is deliberate: a switch that is already up when px4ctrl
\* starts raises none until it has been moved down.
HoverRequestDeliberate == rc.enter_hover_mode => modeSeenLow
=============================================================================

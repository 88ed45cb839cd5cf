------------------------- MODULE MCPressureTrigger -------------------------
(***************************************************************************)
(* Instances of PressureTrigger for TLC: the look-back of one minute is    *)
(* four of the loop's 15-second pauses, two units each, so that a sample   *)
(* also comes between two queries; a cycle may take half a pause longer;   *)
(* samples are kept a little longer than they are in the window.           *)
(***************************************************************************)
EXTENDS PressureTrigger

OneMinute == 8
OnePause == 2
SlowCycle == 3
=============================================================================

---------------------------- MODULE MCMediaControl ----------------------------
(* An instance of MediaControl for TLC: a clock of 16 values that starts       *)
(* before its sign bit is set and before it wraps.                             *)
EXTENDS MediaControl, TLC
MCStarts == {6, 14}
MCBudgets == {1}
===============================================================================

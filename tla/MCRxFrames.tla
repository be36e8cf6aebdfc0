------------------------------ MODULE MCRxFrames ------------------------------
(* Small instances of RxFrames for TLC. *)
EXTENDS RxFrames, TLC

(* Two-packet keyframe with one parity, then deltas of one packet each. *)
MCDataCount == [f \in Frames |-> IF f = 1 THEN 2 ELSE 1]
MCParityRows == [f \in Frames |-> IF f = 1 THEN (0 :> {0, 1}) ELSE << >>]

(* Three-packet keyframe without parity, so that an entry stays incomplete     *)
(* while more packets arrive.                                                  *)
MCWideDataCount == [f \in Frames |-> IF f = 1 THEN 3 ELSE 1]
MCNoParityRows == [f \in Frames |-> << >>]
=============================================================================

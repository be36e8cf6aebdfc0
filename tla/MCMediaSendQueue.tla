---------------------------- MODULE MCMediaSendQueue ----------------------------
(* Small instances of MediaSendQueue for TLC: every priority, and one shape    *)
(* with more than one packet.                                                  *)
EXTENDS MediaSendQueue

MCShapes ==
  {[tag |-> "control", count |-> 1, spread |-> 1],
   [tag |-> "retransmit", count |-> 1, spread |-> 1],
   [tag |-> "nack", count |-> 1, spread |-> 2],
   [tag |-> "delta", count |-> 1, spread |-> 1],
   [tag |-> "delta", count |-> 2, spread |-> 1]}
=============================================================================

----------------------------- MODULE ReorderWindow -----------------------------
(* What the sequence layer of the viewer promises the frame layer, with        *)
(* unbounded packet numbers: a position that only moves forward, late packets  *)
(* passed on at once, and runs of consecutive packets released from the        *)
(* position or from beyond a gap that is given up.  When a packet is held and  *)
(* when a gap is given up is left open.                                        *)
EXTENDS Integers, Sequences

CONSTANTS
  Numbers,      \* the packet numbers, a set of naturals
  NoPosition    \* before the first packet; not a natural

VARIABLES
  position,  \* number of the next packet wanted
  held,      \* packets received ahead of it and kept
  out        \* the packets released by the last call

vars == <<position, held, out>>

Run(first, last) == [i \in 1 .. last - first + 1 |-> first + i - 1]

Init ==
  /\ position = NoPosition
  /\ held = {}
  /\ out = << >>

(* A packet behind the position is passed on out of order. *)
Late ==
  /\ position # NoPosition
  /\ \E n \in Numbers : n < position /\ out' = <<n>>
  /\ UNCHANGED <<position, held>>

(* A packet ahead of the position is kept; nothing is released. *)
Hold ==
  /\ position # NoPosition
  /\ \/ UNCHANGED held
     \/ \E n \in Numbers : n > position /\ held' = held \cup {n}
  /\ out' = << >>
  /\ UNCHANGED position

(* A run of consecutive packets at or beyond the position is released: packets *)
(* that were held, and perhaps the one that just arrived (or a copy of it may  *)
(* stay held).  The run stops at a number that is not held.                    *)
Release ==
  \E first, last \in Numbers :
    /\ first <= last
    /\ position = NoPosition \/ first >= position
    /\ out' = Run(first, last)
    /\ position' = last + 1
    /\ \E arrived \in {{}} \cup {{n} : n \in Numbers} :
         /\ first .. last \subseteq held \cup arrived
         /\ held' \subseteq held \cup arrived
         /\ held' \cup arrived = (held \ (first .. last)) \cup arrived
    /\ position' \notin held'

(* The stream starts anew. *)
Reset ==
  /\ position' = NoPosition
  /\ held' = {}
  /\ out' = << >>

Next == Late \/ Hold \/ Release \/ Reset
Spec == Init /\ [][Next]_vars
=============================================================================

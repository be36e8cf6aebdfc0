------------------------------ MODULE SeqReorder ------------------------------
(* The viewer's sequence layer (App/src/module/media.js): media packets carry  *)
(* a 32-bit sequence number; pop_ready_packets_by_seq returns the packets that *)
(* may go on to frame reassembly, keeps packets that are far ahead, and gives  *)
(* a gap up when it is small, when the packet behind it is old enough, or when *)
(* too many packets are kept.                                                  *)
(*                                                                             *)
(* A packet is the number n the sharer gave it, counted from the first one;    *)
(* its sequence number on the wire is SeqOf(n), which wraps.  The network loses, *)
(* reorders and repeats packets (a retransmission repeats the number).  The    *)
(* adaptive thresholds are constants here; the age of a kept packet is a       *)
(* choice.                                                                     *)
EXTENDS Integers, Sequences, FiniteSets

CONSTANTS
  NumSent,       \* the sharer sends packets 0..NumSent-1 (bound)
  MaxCopies,     \* copies of a packet the network delivers at most (bound)
  FirstSeq,      \* wire sequence number of packet 0
  Modulus,       \* 2^32 in the code
  GapThreshold,  \* get_adaptive_reorder_gap_threshold
  MaxPending     \* RX_SEQ_REORDER_MAX_PENDING

ASSUME SeqAssumption ==
  /\ NumSent \in Nat \ {0} /\ MaxCopies \in Nat
  /\ Modulus \in Nat /\ Modulus % 2 = 0
  /\ 2 * NumSent < Modulus          \* fewer packets in flight than half the range
  /\ FirstSeq \in 0 .. Modulus - 1
  /\ GapThreshold \in 1 .. (Modulus \div 2) - 1    \* at most 64 in the code
  /\ MaxPending \in Nat \ {0}

Numbers == 0 .. NumSent - 1
NoSeq == -1
Half == Modulus \div 2
SeqOf(n) == (FirstSeq + n) % Modulus

VARIABLES
  copies,        \* copies[n]: copies of packet n the network may still deliver
  expected_seq,  \* rx_expected_seq, NoSeq for null
  pending,       \* packets in rx_reorder_pending
  ready,         \* the packets returned by the last call
  lost,          \* rx_delta_lost_packets, counted from the last reset on
  position,      \* history: the number expected_seq stands for
  ordered,       \* history: packets released at or beyond the position
  released,      \* history: packets released at all
  received       \* history: packets that arrived at least once

vars == <<copies, expected_seq, pending, ready, lost, position, ordered, released, received>>

TypeOK ==
  /\ copies \in [Numbers -> 0 .. MaxCopies]
  /\ expected_seq \in 0 .. Modulus - 1 \cup {NoSeq}
  /\ pending \subseteq Numbers
  /\ ready \in Seq(Numbers)
  /\ lost \in Nat
  /\ position \in 0 .. NumSent \cup {NoSeq}
  /\ ordered \subseteq Numbers
  /\ released \subseteq Numbers
  /\ received \subseteq Numbers

Init ==
  /\ copies = [n \in Numbers |-> MaxCopies]
  /\ expected_seq = NoSeq
  /\ pending = {}
  /\ ready = << >>
  /\ lost = 0
  /\ position = NoSeq
  /\ ordered = {}
  /\ released = {}
  /\ received = {}

-------------------------------------------------------------------------------
(* seq_forward_distance; mutant: one bit of the difference is masked off. *)
MaskedDistance(seq, from) == (seq - from) % Half
ForwardDistance(seq, from) == (seq - from) % Modulus

(* seq + 1 >>> 0; mutant: the number does not wrap. *)
SeqPlusOne(seq) == seq + 1
SeqAfter(seq) == (seq + 1) % Modulus

(* What a gap adds to the loss counter; mutant: both its ends are counted. *)
LossInclusive(gap) == gap + 1
LossOf(gap) == gap

KeptSeqs(kept) == {SeqOf(n) : n \in kept}
KeptPacket(seq, kept) == CHOOSE n \in kept : SeqOf(n) = seq

(* flush_contiguous_pending_packets stops at the first number not kept: it     *)
(* takes len packets from sequence number seq on.                              *)
RunLength(seq, len, kept) ==
  /\ \A i \in 0 .. len - 1 : (seq + i) % Modulus \in KeptSeqs(kept)
  /\ (seq + len) % Modulus \notin KeptSeqs(kept)

(* What stays in the map after a flush. *)
Remaining(kept, run) == kept \ {run[i] : i \in DOMAIN run}

(* Return the packets of head and those that follow it, seq being the number   *)
(* after head; `steps' is what expected_seq has moved by before the flush.     *)
ReturnRun(head, seq, kept, steps) ==
  \E len \in 0 .. Cardinality(kept) :
    /\ RunLength(seq, len, kept)
    /\ LET run == [i \in 1 .. len |-> KeptPacket((seq + i - 1) % Modulus, kept)]
       IN /\ ready' = head \o run
          /\ pending' = Remaining(kept, run)
          /\ expected_seq' = (seq + len) % Modulus
          /\ position' = position + steps + len
          /\ ordered' = ordered \cup {ready'[i] : i \in DOMAIN ready'}
          /\ released' = released \cup {ready'[i] : i \in DOMAIN ready'}

ReturnNothing(kept) ==
  /\ ready' = << >>
  /\ pending' = kept
  /\ UNCHANGED <<expected_seq, lost, position, ordered, released>>

(* The kept packets promote_pending_packet_after_timeout may resume at; those  *)
(* at or behind expected_seq are passed over.                                  *)
Candidates(kept) ==
  {n \in kept : ForwardDistance(SeqOf(n), expected_seq) \in 1 .. Half - 1}

(* Give up the gap in front of the nearest one. *)
Promote(kept) ==
  \E n \in Candidates(kept) :
    LET gap == ForwardDistance(SeqOf(n), expected_seq)
    IN /\ \A m \in Candidates(kept) : gap <= ForwardDistance(SeqOf(m), expected_seq)
       /\ lost' = lost + LossOf(gap)
       /\ ReturnRun(<< >>, SeqOf(n), kept, gap)

(* Without `force' the nearest one may still be too young. *)
PromoteIfDue(kept, force) ==
  \/ Promote(kept)
  \/ (~force \/ Candidates(kept) = {}) /\ ReturnNothing(kept)

(* The limit on kept packets; mutant: it is tested before the packet is kept.  *)
OverLimitLate(kept) == Cardinality(kept) > MaxPending + 1
OverLimit(kept) == Cardinality(kept) > MaxPending

-------------------------------------------------------------------------------
(* pop_ready_packets_by_seq, by the place of packet n. *)

Arrives(n) ==
  /\ copies[n] > 0
  /\ copies' = [copies EXCEPT ![n] = @ - 1]
  /\ received' = received \cup {n}

Gap(n) == ForwardDistance(SeqOf(n), expected_seq)

FirstPacket(n) ==
  /\ expected_seq = NoSeq
  /\ Arrives(n)
  /\ ready' = <<n>>
  /\ expected_seq' = SeqAfter(SeqOf(n))
  /\ position' = n + 1
  /\ ordered' = {n}
  /\ released' = {n}
  /\ UNCHANGED <<pending, lost>>

NextPacket(n) ==
  /\ expected_seq # NoSeq /\ Gap(n) = 0
  /\ Arrives(n)
  /\ ReturnRun(<<n>>, SeqAfter(SeqOf(n)), pending, 1)
  /\ UNCHANGED lost

(* A small gap is given up at once: the packets in it count as lost. *)
SmallGap(n) ==
  /\ expected_seq # NoSeq /\ Gap(n) \in 1 .. GapThreshold
  /\ Arrives(n)
  /\ lost' = lost + LossOf(Gap(n))
  /\ ReturnRun(<<n>>, SeqAfter(SeqOf(n)), pending, Gap(n) + 1)

LargeGap(n) ==
  /\ expected_seq # NoSeq /\ Gap(n) \in GapThreshold + 1 .. Half - 1
  /\ Arrives(n)
  /\ LET kept == pending \cup {n} IN PromoteIfDue(kept, OverLimit(kept))

(* Behind the position: passed on at once, as out of order. *)
LatePacket(n) ==
  /\ expected_seq # NoSeq /\ Gap(n) >= Half
  /\ Arrives(n)
  /\ ready' = <<n>>
  /\ released' = released \cup {n}
  /\ UNCHANGED <<expected_seq, pending, lost, position, ordered>>

(* check_rx_health looks at the age of the nearest kept packet. *)
HealthPromotes ==
  /\ expected_seq # NoSeq
  /\ Promote(pending)
  /\ UNCHANGED <<copies, received>>

(* The position and the kept packets are forgotten; the counts begin again. *)
Forgets ==
  /\ expected_seq' = NoSeq
  /\ pending' = {}
  /\ ready' = << >>
  /\ lost' = 0
  /\ position' = NoSeq
  /\ ordered' = {}
  /\ released' = {}
  /\ received' = {}

(* close_decoder and stop_viewer_pipeline; a new stream is numbered anew. *)
Reset == Forgets /\ copies' = [n \in Numbers |-> MaxCopies]

(* The start click of a viewer whose stream goes on (start_share_or_view). *)
ViewerStarts == Forgets /\ UNCHANGED copies

Next ==
  \/ \E n \in Numbers :
       FirstPacket(n) \/ NextPacket(n) \/ SmallGap(n) \/ LargeGap(n) \/ LatePacket(n)
  \/ HealthPromotes \/ Reset \/ ViewerStarts

Spec == Init /\ [][Next]_vars

-------------------------------------------------------------------------------
(* Properties. *)

(* No more than RX_SEQ_REORDER_MAX_PENDING packets are kept once a call has    *)
(* returned: the forced promotion always finds one to resume at.               *)
PendingBound == Cardinality(pending) <= MaxPending

(* The loss counter is exact: every number the position has passed is either a *)
(* packet that was released in its place or counted as lost, never both.       *)
LossCounted ==
  ordered # {} =>
    LET start == CHOOSE n \in ordered : \A m \in ordered : n <= m
    IN lost + Cardinality(ordered) = position - start

(* No packet that arrived vanishes: it was released or it is kept. *)
NothingVanishes == received \subseteq released \cup pending

(* Every packet and every number is accounted for: a packet that arrived was   *)
(* released or is kept, a number that was passed was released or counted lost. *)
EveryNumberAccounted == LossCounted /\ NothingVanishes

(* The wrapping sequence numbers implement the window over plain numbers. *)
Window == INSTANCE ReorderWindow
            WITH NoPosition <- NoSeq, held <- pending, out <- ready
ImplementsWindow == Window!Spec
=============================================================================

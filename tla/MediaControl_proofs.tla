-------------------------- MODULE MediaControl_proofs --------------------------
(* What the 32-bit times of the control packets come to, for every size of the *)
(* clock's ring and every time the program may start at.                       *)
(*                                                                             *)
(* A round-trip time or a remaining time is right when two times a message     *)
(* carries are less than half a turn apart; the invariant keeps them there.    *)
EXTENDS MediaControl, TLAPS

(* The outstanding probe bears the time it was sent at.                        *)
ProbeIsKnown == probe.awaiting => probe.ts = Signed(probe.wall) /\ probe.wall <= now

(* Every deadline that is still on its way lies around the present.            *)
Near(t) == t - now \in (-ticks) .. RepairTime
DeadlinesNear ==
  /\ \A p \in Packets : /\ pending[p] # 0 => Near(pending[p])
                        /\ nack[p].at = "missing" => Near(nack[p].due)
  /\ \A m \in net : m.kind = "nack" => Near(m.due)

(* Calls that have passed the limit together exceed it by less than their      *)
(* number.                                                                     *)
CountsLimited == \A p \in Packets : cache[p].count + suspended[p] <= MaxRetransmits + MaxSuspended - 1

Inv == TypeOK /\ PendingHasTimer /\ ProbeIsKnown /\ DeadlinesNear /\ CountsLimited

-------------------------------------------------------------------------------
(* Arithmetic of the ring *)

LEMMA RingFacts == Half \in Nat \ {0} /\ Ring = 2 * Half /\ Ring \in Nat \ {0}
  BY ControlAssumption DEF Half

LEMMA Division ==
  ASSUME NEW x \in Int
  PROVE  x = (Ring * (x \div Ring)) + (x % Ring) /\ x \div Ring \in Int /\ x % Ring \in 0 .. Ring - 1
  BY RingFacts, SMTT(30)

LEMMA MultipleInRing ==
  ASSUME NEW k \in Int, Ring * k < Ring, Ring * k > -Ring
  PROVE  k = 0
<1>1. Ring \in Int /\ Ring > 0
  BY RingFacts
<1>2. ASSUME k >= 1 PROVE FALSE
  <2>1. Ring * k = Ring * (k - 1) + Ring /\ Ring * (k - 1) >= 0
    BY <1>1, <1>2
  <2> QED
    BY <1>1, <2>1
<1>3. ASSUME k <= -1 PROVE FALSE
  <2>1. Ring * k = (-Ring) - (Ring * (-(k + 1))) /\ Ring * (-(k + 1)) >= 0
    BY <1>1, <1>3
  <2> QED
    BY <1>1, <2>1
<1> QED
  BY <1>2, <1>3

LEMMA RemainderIsUnique ==
  ASSUME NEW x \in Int, NEW k \in Int, NEW y \in 0 .. Ring - 1, x = (Ring * k) + y
  PROVE  x % Ring = y
<1> DEFINE q == x \div Ring
           m == x % Ring
<1>1. x = (Ring * q) + m /\ q \in Int /\ m \in 0 .. Ring - 1
  BY Division
<1> HIDE DEF q, m
<1>2. Ring * (q - k) = y - m
  BY <1>1, RingFacts
<1>3. q - k = 0
  <2>1. y - m < Ring /\ y - m > -Ring
    BY <1>1, RingFacts
  <2> QED
    BY <2>1, <1>1, <1>2, MultipleInRing
<1>4. m = y
  BY <1>1, <1>3, RingFacts
<1> QED
  BY <1>4 DEF m

LEMMA CutRanges ==
  ASSUME NEW t \in Int
  PROVE  Unsigned(t) \in 0 .. Ring - 1 /\ Signed(t) \in (-Half) .. (Half - 1)
<1>1. t % Ring \in 0 .. Ring - 1
  BY Division
<1>2. (t + Half) % Ring \in 0 .. Ring - 1
  BY Division, RingFacts
<1> QED
  BY <1>1, <1>2, RingFacts DEF Unsigned, Signed

(* The distance of two cut times is the true one, within half a turn.          *)
LEMMA RemainingIsTrue ==
  ASSUME NEW due \in Nat, now \in Nat, due - now \in (-Half) .. (Half - 1)
  PROVE  Remaining(due) = due - now
<1> DEFINE a == due \div Ring
           b == now \div Ring
           u == due % Ring
           v == now % Ring
           y == due - now + Half
<1>1. due = (Ring * a) + u /\ a \in Int /\ u \in 0 .. Ring - 1
  BY Division
<1>2. now = (Ring * b) + v /\ b \in Int /\ v \in 0 .. Ring - 1
  BY Division
<1>3. Remaining(due) = ((u - v + Half) % Ring) - Half
  BY DEF Remaining, Signed, Unsigned
<1> HIDE DEF a, b, u, v
<1>4. b - a \in Int /\ y \in 0 .. Ring - 1 /\ u - v + Half \in Int
  BY <1>1, <1>2, RingFacts
<1>5. Ring * (b - a) = (Ring * b) - (Ring * a)
  BY <1>1, <1>2, RingFacts
<1>6. u - v + Half = (Ring * (b - a)) + y
  <2>1. Ring * a \in Int /\ Ring * b \in Int
    BY <1>1, <1>2, RingFacts
  <2> HIDE DEF y
  <2>2. y = due - now + Half
    BY DEF y
  <2> QED
    BY <1>1, <1>2, <1>5, <2>1, <2>2, RingFacts
<1>7. (u - v + Half) % Ring = y
  BY <1>4, <1>6, RemainderIsUnique
<1> QED
  BY <1>3, <1>7, RingFacts

(* The time since a probe, read off two cut times, is right to a millisecond.  *)
LEMMA RttIsElapsed ==
  ASSUME NEW m, m.since \in Nat, now \in Nat, NEW wall \in Nat,
         wall <= now, now - wall <= ProbeTimeout, Unsigned(m.since) = Signed(wall)
  PROVE  RttOf(m) - (now - wall) \in -1 .. 1
<1> DEFINE q == (wall + Half) \div Ring
           h == (wall + Half) % Ring
           e == now - wall
           d == Signed(now) - Unsigned(m.since)
<1>1. wall + Half = (Ring * q) + h /\ q \in Int /\ h \in 0 .. Ring - 1
  <2>1. wall + Half \in Int
    BY RingFacts
  <2> QED
    BY <2>1, Division
<1>2. h >= Half /\ Unsigned(m.since) = h - Half
  <2>1. Unsigned(m.since) \in 0 .. Ring - 1
    BY CutRanges
  <2>2. Unsigned(m.since) = h - Half
    BY DEF Signed
  <2> HIDE DEF h
  <2> QED
    BY <1>1, <2>1, <2>2, RingFacts
<1>3. e \in 0 .. ProbeTimeout /\ ProbeTimeout \in Nat /\ ProbeTimeout > 0 /\ e < Half
  BY ControlAssumption, RingFacts
<1>4. RttOf(m) = Clamp(IF d < 0 THEN d + Ring - 1 ELSE d, 1, ProbeTimeout)
  BY DEF RttOf
<1>5. now + Half = (Ring * q) + (h + e)
  <2>1. Ring * q \in Int
    BY <1>1, RingFacts
  <2> HIDE DEF q, h
  <2> QED
    BY <1>1, <2>1, RingFacts
<1>6. CASE h + e < Ring
  <2>1. h + e \in 0 .. Ring - 1 /\ now + Half \in Int
    BY <1>1, <1>3, <1>6, RingFacts
  <2>2. (now + Half) % Ring = h + e
    BY <1>1, <1>5, <2>1, RemainderIsUnique
  <2>3. d = e
    BY <1>1, <1>2, <1>3, <2>2, RingFacts DEF Signed
  <2> QED
    BY <1>3, <1>4, <2>3 DEF Clamp
<1>7. CASE h + e >= Ring
  <2>1. h + e - Ring \in 0 .. Ring - 1 /\ now + Half \in Int /\ q + 1 \in Int
    BY <1>1, <1>3, <1>7, RingFacts
  <2>2. now + Half = (Ring * (q + 1)) + (h + e - Ring)
    <3>1. Ring * (q + 1) = (Ring * q) + Ring /\ Ring * q \in Int
      BY <1>1, RingFacts
    <3> HIDE DEF q, h
    <3> QED
      BY <1>1, <1>3, <1>5, <3>1, RingFacts
  <2>3. (now + Half) % Ring = h + e - Ring
    BY <2>1, <2>2, RemainderIsUnique
  <2>4. d = e - Ring
    BY <1>1, <1>2, <1>3, <2>3, RingFacts DEF Signed
  <2>5. e > 0
    BY <1>1, <1>3, <1>7, RingFacts
  <2>6. RttOf(m) = Clamp(e - 1, 1, ProbeTimeout)
    BY <1>3, <1>4, <2>4, RingFacts
  <2> QED
    BY <1>3, <2>5, <2>6 DEF Clamp
<1> QED
  BY <1>1, <1>3, <1>6, <1>7, RingFacts

-------------------------------------------------------------------------------
(* The invariant *)

LEMMA ConstantFacts ==
  /\ MaxTicks \in Nat /\ MaxTicks <= Half
  /\ UnknownRtt \in Nat /\ Guard \in Nat /\ RetryGap \in Nat
  /\ ProbeTimeout \in Nat \ {0} /\ RepairTime \in Nat \ {0} /\ RepairTime < Half
  /\ MaxRounds \in Nat \ {0} /\ MaxRetransmits \in Nat \ {0} /\ MaxSuspended \in Nat \ {0}
  /\ Starts \subseteq Nat /\ Budgets \subseteq Nat \ {0}
  BY ControlAssumption, TicksAssumption

(* What a packet's records become, field by field.                             *)
LEMMA Unheld ==
  ASSUME NEW Counts, NEW r \in [sent : BOOLEAN, held : BOOLEAN, count : Counts]
  PROVE  /\ [r EXCEPT !.held = FALSE] \in [sent : BOOLEAN, held : BOOLEAN, count : Counts]
         /\ [r EXCEPT !.held = FALSE].count = r.count
  OBVIOUS

LEMMA NackStarts ==
  ASSUME NEW at \in {"unknown", "missing", "over"}, NEW due \in Nat
  PROVE  NoNack(at, due) \in [at : {"unknown", "missing", "over"}, attempts : 0 .. MaxRounds,
                              last : Nat, due : Nat]
  BY ConstantFacts DEF NoNack

LEMMA NackAsked ==
  ASSUME NEW r \in [at : {"unknown", "missing", "over"}, attempts : 0 .. MaxRounds,
                    last : Nat, due : Nat],
         r.attempts < MaxRounds, NEW t \in Nat
  PROVE  /\ [r EXCEPT !.attempts = @ + 1, !.last = t]
              \in [at : {"unknown", "missing", "over"}, attempts : 0 .. MaxRounds,
                   last : Nat, due : Nat]
         /\ [r EXCEPT !.attempts = @ + 1, !.last = t].at = r.at
         /\ [r EXCEPT !.attempts = @ + 1, !.last = t].due = r.due
<1> DEFINE n == r.attempts + 1
<1>1. n \in 0 .. MaxRounds
  BY ConstantFacts
<1> HIDE DEF n
<1>2. [r EXCEPT !.attempts = n, !.last = t]
        \in [at : {"unknown", "missing", "over"}, attempts : 0 .. MaxRounds, last : Nat, due : Nat]
  BY <1>1
<1> QED
  BY <1>2 DEF n

LEMMA InitInv == Init => Inv
<1> SUFFICES ASSUME Init PROVE Inv
  OBVIOUS
<1>1. TypeOK
  <2>1. now \in Nat /\ ticks \in 0 .. MaxTicks /\ rtt \in 0 .. ProbeTimeout
    BY ConstantFacts DEF Init
  <2>2. probe \in [awaiting : BOOLEAN, id : 0 .. Ring - 1, ts : -Half .. Half - 1,
                   wall : Nat, timer : BOOLEAN]
    BY RingFacts DEF Init, Reset
  <2>3. cache \in [Packets -> [sent : BOOLEAN, held : BOOLEAN,
                               count : 0 .. MaxRetransmits + MaxSuspended - 1]]
    BY ConstantFacts DEF Init
  <2>4. suspended \in [Packets -> 0 .. MaxSuspended]
    BY ConstantFacts DEF Init
  <2>5. nack \in [Packets -> [at : {"unknown", "missing", "over"}, attempts : 0 .. MaxRounds,
                              last : Nat, due : Nat]]
    BY ConstantFacts DEF Init, NoNack
  <2> QED
    BY <2>1, <2>2, <2>3, <2>4, <2>5 DEF Init, TypeOK
<1>2. PendingHasTimer /\ ProbeIsKnown /\ DeadlinesNear
  BY DEF Init, PendingHasTimer, ProbeIsKnown, DeadlinesNear, Reset, NoNack
<1>3. CountsLimited
  BY ConstantFacts DEF Init, CountsLimited
<1> QED
  BY <1>1, <1>2, <1>3 DEF Inv

LEMMA TickInv == Inv /\ Tick => Inv'
<1> SUFFICES ASSUME Inv, Tick PROVE Inv'
  OBVIOUS
<1> USE DEF Tick, sharer, viewer
<1>1. TypeOK'
  BY ConstantFacts DEF Inv, TypeOK
<1>2. PendingHasTimer' /\ ProbeIsKnown' /\ CountsLimited'
  BY DEF Inv, TypeOK, PendingHasTimer, ProbeIsKnown, CountsLimited
<1>3. DeadlinesNear'
  <2>1. \A t \in Nat : Near(t) => Near(t)'
    BY ConstantFacts DEF Near, Inv, TypeOK
  <2>2. \A m \in net : m.kind = "nack" => m.due \in Nat
    BY DEF Inv, TypeOK, Messages
  <2> QED
    BY <2>1, <2>2 DEF Inv, TypeOK, DeadlinesNear
<1> QED
  BY <1>1, <1>2, <1>3 DEF Inv

LEMMA SendFeedbackReqInv == Inv /\ SendFeedbackReq => Inv'
<1> SUFFICES ASSUME Inv, SendFeedbackReq PROVE Inv'
  OBVIOUS
<1> USE DEF SendFeedbackReq, Request, time, viewer
<1>1. TypeOK'
  <2>1. probe.id + 1 \in Int /\ now \in Int
    BY DEF Inv, TypeOK
  <2>2. (probe.id + 1) % Ring \in 0 .. Ring - 1 /\ Signed(now) \in (-Half) .. (Half - 1)
    BY <2>1, CutRanges DEF Unsigned
  <2> QED
    BY <2>2 DEF Inv, TypeOK, Messages
<1>2. PendingHasTimer' /\ ProbeIsKnown' /\ CountsLimited' /\ DeadlinesNear'
  BY DEF Inv, TypeOK, PendingHasTimer, ProbeIsKnown, CountsLimited, DeadlinesNear, Near, Signed
<1> QED
  BY <1>1, <1>2 DEF Inv

LEMMA FeedbackInv ==
  ASSUME Inv, NEW m \in net, HandleFeedbackReq(m) \/ HandleFeedback(m)
  PROVE  Inv'
<1> USE DEF HandleFeedbackReq, HandleFeedback, Feedback, time, viewer, sharer
<1>1. TypeOK'
  <2>1. m \in Messages
    BY DEF Inv, TypeOK
  <2>2. CASE HandleFeedbackReq(m)
    BY <2>1, <2>2 DEF Inv, TypeOK, Messages
  <2>3. CASE HandleFeedback(m)
    <3>1. \A x \in Int : Clamp(x, 1, ProbeTimeout) \in 0 .. ProbeTimeout
      BY ConstantFacts DEF Clamp
    <3>2. m.since \in Nat
      BY <2>1, <2>3 DEF Messages
    <3>3. Signed(now) \in Int /\ Unsigned(m.since) \in Int
      BY <3>2, CutRanges DEF Inv, TypeOK
    <3>4. RttOf(m) \in 0 .. ProbeTimeout
      BY <3>1, <3>3, RingFacts DEF RttOf
    <3> QED
      BY <2>3, <3>4 DEF Inv, TypeOK
  <2> QED
    BY <2>2, <2>3
<1>2. PendingHasTimer' /\ CountsLimited'
  BY DEF Inv, PendingHasTimer, CountsLimited
<1>3. ProbeIsKnown'
  BY DEF Inv, TypeOK, ProbeIsKnown, Signed
<1>4. DeadlinesNear'
  BY DEF Inv, DeadlinesNear, Near
<1> QED
  BY <1>1, <1>2, <1>3, <1>4 DEF Inv

LEMMA CacheInv ==
  ASSUME Inv,
         \/ \E p \in Packets : SendFrame(p) \/ RetransmitEnds(p) \/ Evicts(p)
         \/ \E m \in net : HandleNack(m)
  PROVE  Inv'
<1> USE DEF SendFrame, RetransmitEnds, Evicts, HandleNack, BelowLimit, time, viewer
<1>1. TypeOK' /\ CountsLimited'
  <2>1. CASE \E p \in Packets : SendFrame(p)
    BY <2>1, ConstantFacts DEF Inv, TypeOK, CountsLimited
  <2>2. CASE \E p \in Packets : RetransmitEnds(p)
    BY <2>2, ConstantFacts DEF Inv, TypeOK, CountsLimited
  <2>3. CASE \E p \in Packets : Evicts(p)
    <3>1. PICK p \in Packets : Evicts(p)
      BY <2>3
    <3>2. cache'[p] \in [sent : BOOLEAN, held : BOOLEAN,
                         count : 0 .. MaxRetransmits + MaxSuspended - 1]
          /\ cache'[p].count = cache[p].count
      BY <3>1, Unheld DEF Inv, TypeOK
    <3> QED
      BY <3>1, <3>2 DEF Inv, TypeOK, CountsLimited
  <2>4. CASE \E m \in net : HandleNack(m)
    <3>1. PICK m \in net : HandleNack(m)
      BY <2>4
    <3>2. m.packet \in Packets
      BY <3>1 DEF Inv, TypeOK, Messages
    <3> QED
      BY <3>1, <3>2, ConstantFacts DEF Inv, TypeOK, CountsLimited
  <2> QED
    BY <2>1, <2>2, <2>3, <2>4
<1>2. PendingHasTimer' /\ ProbeIsKnown' /\ DeadlinesNear'
  BY DEF Inv, PendingHasTimer, ProbeIsKnown, Signed, DeadlinesNear, Near
<1> QED
  BY <1>1, <1>2 DEF Inv

LEMMA LossInv ==
  ASSUME Inv, NEW p \in Packets, NoticeMissing(p) \/ FrameLeaves(p)
  PROVE  Inv'
<1> USE DEF NoticeMissing, FrameLeaves, time, sharer
<1> DEFINE n == nack'[p]
<1>4. /\ nack' = [nack EXCEPT ![p] = n]
      /\ n \in [at : {"unknown", "missing", "over"}, attempts : 0 .. MaxRounds,
               last : Nat, due : Nat]
      /\ n.at = "missing" => n.due = now + RepairTime
  <2>1. now + RepairTime \in Nat
    BY ConstantFacts DEF Inv, TypeOK
  <2>2. n = NoNack("missing", now + RepairTime) \/ n = NoNack("over", 0)
    BY DEF Inv, TypeOK
  <2>3. nack' = [nack EXCEPT ![p] = n]
    BY DEF Inv, TypeOK
  <2> HIDE DEF n
  <2> QED
    BY <2>1, <2>2, <2>3, NackStarts DEF NoNack
<1> HIDE DEF n
<1>1. TypeOK'
  BY <1>4 DEF Inv, TypeOK
<1>2. PendingHasTimer' /\ ProbeIsKnown' /\ CountsLimited'
  BY DEF Inv, PendingHasTimer, ProbeIsKnown, Signed, CountsLimited
<1>3. DeadlinesNear'
  <2>1. \A q \in Packets : nack'[q].at = "missing" => Near(nack'[q].due)
    BY <1>4, ConstantFacts DEF Inv, TypeOK, DeadlinesNear, Near
  <2> QED
    BY <2>1 DEF Inv, DeadlinesNear, Near
<1> QED
  BY <1>1, <1>2, <1>3 DEF Inv

LEMMA HealthCheckInv == Inv /\ HealthCheck => Inv'
<1> SUFFICES ASSUME Inv, HealthCheck PROVE Inv'
  OBVIOUS
<1>1. PICK budget \in Budgets, confirmed \in SUBSET Missing :
      \E asked \in SUBSET {p \in confirmed : MayAsk(p) /\ ~Late(p, budget)} :
        Repairs(budget, confirmed, asked)
  BY DEF HealthCheck
<1>2. PICK asked \in SUBSET {p \in confirmed : MayAsk(p) /\ ~Late(p, budget)} :
        Repairs(budget, confirmed, asked)
  BY <1>1
<1>8. UNCHANGED <<time, open, sharer, net>>
  BY DEF HealthCheck
<1>3. \A p \in asked : /\ p \in Packets /\ nack[p].at = "missing"
                       /\ nack[p].attempts < MaxRounds
  BY DEF Missing, MayAsk
<1>4. TypeOK'
  <2>1. nack' \in [Packets -> [at : {"unknown", "missing", "over"}, attempts : 0 .. MaxRounds,
                               last : Nat, due : Nat]]
    <3> SUFFICES ASSUME NEW p \in Packets
                 PROVE  nack'[p] \in [at : {"unknown", "missing", "over"},
                          attempts : 0 .. MaxRounds, last : Nat, due : Nat]
      BY <1>2 DEF Repairs
    <3> QED
      <4> DEFINE Over == {q \in Missing : Late(q, budget)}
                           \cup {q \in confirmed : nack[q].attempts >= MaxRounds}
      <4>1. nack'[p] = IF p \in asked THEN [nack[p] EXCEPT !.attempts = @ + 1, !.last = now]
                       ELSE IF p \in Over THEN NoNack("over", 0) ELSE nack[p]
        BY <1>2 DEF Repairs
      <4> HIDE DEF Over
      <4>2. CASE p \in asked
        <5>1. nack[p].attempts < MaxRounds
          BY <1>3, <4>2
        <5>2. /\ now \in Nat
              /\ nack[p] \in [at : {"unknown", "missing", "over"}, attempts : 0 .. MaxRounds,
                              last : Nat, due : Nat]
          BY DEF Inv, TypeOK
        <5> QED
          BY <4>1, <4>2, <5>1, <5>2, NackAsked
      <4>3. CASE p \notin asked
        BY <4>1, <4>3, NackStarts DEF Inv, TypeOK
      <4> QED
        BY <4>2, <4>3
  <2>2. pending' \in [Packets -> Nat] /\ nack_timer' \in BOOLEAN
    BY <1>2 DEF Inv, TypeOK, Repairs
  <2> QED
    BY <1>8, <2>1, <2>2 DEF Inv, TypeOK, time, sharer
<1>5. ProbeIsKnown' /\ CountsLimited'
  BY <1>8 DEF Inv, ProbeIsKnown, Signed, CountsLimited, time, sharer
<1>6. PendingHasTimer'
  BY <1>2 DEF Inv, TypeOK, PendingHasTimer, Repairs
<1>7. DeadlinesNear'
  <2>1. now' = now /\ ticks' = ticks /\ net' = net
    BY <1>8 DEF time
  <2>2. \A p \in Packets : nack'[p].at = "missing" => Near(nack'[p].due)
    BY <1>2, <1>3 DEF Inv, TypeOK, DeadlinesNear, NoNack, Repairs
  <2>3. \A p \in Packets : pending'[p] # 0 => Near(pending'[p])
    BY <1>2, <1>3 DEF Inv, TypeOK, DeadlinesNear, Repairs
  <2> QED
    BY <2>1, <2>2, <2>3 DEF Inv, DeadlinesNear, Near
<1> QED
  BY <1>4, <1>5, <1>6, <1>7 DEF Inv

LEMMA FlushInv == Inv /\ FlushPendingNacks => Inv'
<1> SUFFICES ASSUME Inv, FlushPendingNacks PROVE Inv'
  OBVIOUS
<1> USE DEF FlushPendingNacks, Nack, time, sharer
<1>1. TypeOK'
  <2>1. \A p \in Packets : Nack(p, pending[p], now) \in Messages
    BY DEF Inv, TypeOK, Messages
  <2>2. net' \subseteq Messages
    BY <2>1 DEF Inv, TypeOK
  <2> QED
    BY <2>2 DEF Inv, TypeOK
<1>2. PendingHasTimer' /\ ProbeIsKnown' /\ CountsLimited'
  BY DEF Inv, PendingHasTimer, ProbeIsKnown, Signed, CountsLimited
<1>3. DeadlinesNear'
  BY DEF Inv, DeadlinesNear, Near
<1> QED
  BY <1>1, <1>2, <1>3 DEF Inv

LEMMA UsersInv ==
  ASSUME Inv,
         \/ \E e \in {"share", "viewer"} : MediaOpens(e) \/ MediaCloses(e)
         \/ ShareStarts \/ ShareStops \/ ViewerStops
  PROVE  Inv'
<1> USE DEF MediaOpens, MediaCloses, ShareStarts, ShareStops, ViewerStops, StopsNacks,
            Reset, NoNack, time, sharer, viewer
<1>1. TypeOK'
  <2>1. CASE \E e \in {"share", "viewer"} : MediaOpens(e) \/ MediaCloses(e)
    BY <2>1 DEF Inv, TypeOK
  <2>2. CASE ShareStarts
    BY <2>2, RingFacts, ConstantFacts DEF Inv, TypeOK
  <2>3. CASE ShareStops
    <3>1. \A p \in Packets : [cache[p] EXCEPT !.held = FALSE]
            \in [sent : BOOLEAN, held : BOOLEAN,
                 count : 0 .. MaxRetransmits + MaxSuspended - 1]
      BY Unheld DEF Inv, TypeOK
    <3> QED
      BY <2>3, <3>1, RingFacts, ConstantFacts DEF Inv, TypeOK
  <2>4. CASE ViewerStops
    <3>1. \A p \in Packets : nack'[p] \in [at : {"unknown", "missing", "over"},
            attempts : 0 .. MaxRounds, last : Nat, due : Nat]
      BY <2>4, ConstantFacts DEF Inv, TypeOK
    <3>2. nack' \in [Packets -> [at : {"unknown", "missing", "over"}, attempts : 0 .. MaxRounds,
                                 last : Nat, due : Nat]]
      BY <2>4, <3>1
    <3> QED
      BY <2>4, <3>2 DEF Inv, TypeOK
  <2> QED
    BY <2>1, <2>2, <2>3, <2>4
<1>2. PendingHasTimer' /\ ProbeIsKnown'
  BY DEF Inv, TypeOK, PendingHasTimer, ProbeIsKnown, Signed
<1>3. CountsLimited'
  <2>1. \A p \in Packets : suspended'[p] = suspended[p] /\ cache'[p].count = cache[p].count
    BY DEF Inv, TypeOK
  <2> QED
    BY <2>1 DEF Inv, CountsLimited
<1>4. DeadlinesNear'
  BY DEF Inv, TypeOK, DeadlinesNear, Near
<1> QED
  BY <1>1, <1>2, <1>3, <1>4 DEF Inv

LEMMA StepInv == Inv /\ [Next]_vars => Inv'
<1> SUFFICES ASSUME Inv, [Next]_vars PROVE Inv'
  OBVIOUS
<1>1. CASE UNCHANGED vars
  BY <1>1 DEF vars, Inv, TypeOK, Messages, PendingHasTimer, ProbeIsKnown, DeadlinesNear, Near,
              CountsLimited, Signed
<1>2. CASE Next
  BY <1>2, TickInv, SendFeedbackReqInv, FeedbackInv, CacheInv, LossInv, HealthCheckInv,
     FlushInv, UsersInv DEF Next
<1> QED
  BY <1>1, <1>2

LEMMA InvariantHolds == Spec => []Inv
<1>1. Init => Inv
  BY InitInv
<1>2. Inv /\ [Next]_vars => Inv'
  BY StepInv
<1> QED
  BY <1>1, <1>2, PTL DEF Spec

-------------------------------------------------------------------------------
(* The theorems *)

(* The state keeps its types; in particular a packet's retransmissions exceed  *)
(* their limit by less than the calls that may await their send at once.       *)
THEOREM TypeCorrect == Spec => []TypeOK
<1>1. Inv => TypeOK
  BY DEF Inv
<1> QED
  BY <1>1, InvariantHolds, PTL

(* No NACK waits in the map without a flush timer that will send it.           *)
THEOREM NoNackIsForgotten == Spec => []PendingHasTimer
<1>1. Inv => PendingHasTimer
  BY DEF Inv
<1> QED
  BY <1>1, InvariantHolds, PTL

LEMMA RttStep ==
  ASSUME Inv, [Next]_vars, rtt' # rtt, rtt' # 0
  PROVE  rtt' - (now - probe.wall) \in -1 .. 1
<1>1. PICK m \in net : HandleFeedback(m)
  BY DEF Next, vars, Tick, SendFeedbackReq, HandleFeedbackReq, SendFrame, NoticeMissing,
         FrameLeaves, HealthCheck, FlushPendingNacks, HandleNack, RetransmitEnds, Evicts,
         MediaOpens, MediaCloses, ShareStarts, ShareStops, ViewerStops, sharer
<1>2. m.since \in Nat
  BY DEF Inv, TypeOK, Messages
<1>3. now \in Nat /\ probe.wall \in Nat /\ probe.wall <= now /\ Unsigned(m.since) = Signed(probe.wall)
  BY <1>1 DEF HandleFeedback, Accepts, EchoMatches, Inv, TypeOK, ProbeIsKnown
<1>4. now - probe.wall <= ProbeTimeout /\ rtt' = RttOf(m)
  BY <1>1, <1>3, ConstantFacts DEF HandleFeedback
<1> QED
  BY <1>2, <1>3, <1>4, RttIsElapsed

(* Whatever the clock's low 32 bits do, a round-trip time that is taken over   *)
(* is the time since the outstanding probe, to a millisecond.                  *)
THEOREM RttIsElapsedTime == Spec => RttIsTrue
<1>1. Inv /\ [Next]_vars => [rtt' # rtt /\ rtt' # 0 => rtt' - (now - probe.wall) \in -1 .. 1]_vars
  BY RttStep
<1> QED
  BY <1>1, InvariantHolds, PTL DEF Spec, RttIsTrue

LEMMA RetransmitStep ==
  ASSUME Inv, [Next]_vars, NEW p \in Packets, suspended'[p] > suspended[p]
  PROVE  \E m \in net : /\ m.kind = "nack" /\ m.packet = p
                        /\ m.due - now > EstimatedRtt + Guard
<1>5. suspended \in [Packets -> Nat] /\ suspended'[p] \in Int
  <2>1. suspended \in [Packets -> Nat] /\ suspended' \in [Packets -> Nat]
    BY StepInv, ConstantFacts DEF Inv, TypeOK
  <2> QED
    BY <2>1
<1>1. PICK m \in net : HandleNack(m)
  <2>1. \/ suspended' = suspended
        \/ \E q \in Packets : RetransmitEnds(q)
        \/ \E m \in net : HandleNack(m)
    BY DEF Next, vars, Tick, SendFeedbackReq, HandleFeedbackReq, HandleFeedback,
           SendFrame, NoticeMissing, FrameLeaves, HealthCheck, FlushPendingNacks,
           Evicts, MediaOpens, MediaCloses, ShareStarts, ShareStops, ViewerStops, sharer
  <2>2. suspended' # suspended
    BY <1>5
  <2>3. ASSUME NEW q \in Packets, RetransmitEnds(q) PROVE FALSE
    BY <1>5, <2>3 DEF RetransmitEnds
  <2> QED
    BY <2>1, <2>2, <2>3
<1>2. m.kind = "nack" /\ m.due \in Nat /\ m.packet = p
  BY <1>5, <1>1 DEF HandleNack, Inv, TypeOK, Messages
<1>3. now \in Nat /\ m.due - now \in (-Half) .. (Half - 1)
  BY <1>2, ConstantFacts, RingFacts DEF Inv, TypeOK, DeadlinesNear, Near
<1>4. Remaining(m.due) = m.due - now
  BY <1>2, <1>3, RemainingIsTrue
<1> QED
  BY <1>1, <1>2, <1>4 DEF HandleNack

(* The 32-bit test of a NACK's deadline is the test of the time really left.   *)
THEOREM RetransmitsInTime == Spec => NoLateRetransmit
<1>1. Inv /\ [Next]_vars =>
        [\A p \in Packets : suspended'[p] > suspended[p] =>
           \E m \in net : /\ m.kind = "nack" /\ m.packet = p
                          /\ m.due - now > EstimatedRtt + Guard]_vars
  BY RetransmitStep
<1> QED
  BY <1>1, InvariantHolds, PTL DEF Spec, NoLateRetransmit

===============================================================================

--------------------------- MODULE SeqReorder_proofs ---------------------------
(* The sequence layer for every range of sequence numbers, every threshold and *)
(* every number of packets below half that range: wrapping numbers order the   *)
(* packets as their plain numbers do.                                          *)
EXTENDS SeqReorder, FiniteSetTheorems, SequenceTheorems, TLAPS

-------------------------------------------------------------------------------
(* Sequence numbers                                                            *)

LEMMA RangeFacts ==
  /\ Modulus \in Nat \ {0} /\ Half \in Nat /\ Modulus = 2 * Half
  /\ NumSent \in Nat \ {0} /\ NumSent < Half /\ FirstSeq \in 0 .. Modulus - 1
  BY SeqAssumption DEF Half

LEMMA Division ==
  ASSUME NEW x \in Int
  PROVE  /\ x = (Modulus * (x \div Modulus)) + (x % Modulus)
         /\ x \div Modulus \in Int /\ x % Modulus \in 0 .. Modulus - 1
<1>1. Modulus \in Nat \ {0}
  BY RangeFacts
<1> QED
  BY <1>1, SMTT(30)

LEMMA SmallMultiple ==
  ASSUME NEW k \in Int, Modulus * k < Modulus, Modulus * k > -Modulus
  PROVE  k = 0
<1>1. Modulus \in Int /\ Modulus > 0
  BY RangeFacts
<1>2. ASSUME k >= 1 PROVE FALSE
  <2>1. Modulus * k = Modulus * (k - 1) + Modulus /\ Modulus * (k - 1) >= 0
    BY <1>1, <1>2
  <2> QED
    BY <1>1, <2>1
<1>3. ASSUME k <= -1 PROVE FALSE
  <2>1. Modulus * k = (-Modulus) - (Modulus * (-(k + 1))) /\ Modulus * (-(k + 1)) >= 0
    BY <1>1, <1>3
  <2> QED
    BY <1>1, <2>1
<1> QED
  BY <1>2, <1>3

LEMMA UniqueRemainder ==
  ASSUME NEW x \in Int, NEW k \in Int, NEW y \in 0 .. Modulus - 1, x = (Modulus * k) + y
  PROVE  x % Modulus = y
<1> DEFINE q == x \div Modulus
           r == x % Modulus
<1>1. x = (Modulus * q) + r /\ q \in Int /\ r \in 0 .. Modulus - 1
  BY Division
<1> HIDE DEF q, r
<1>2. Modulus * (q - k) = y - r /\ y - r < Modulus /\ y - r > -Modulus
  BY <1>1, RangeFacts
<1>3. q - k = 0
  BY <1>1, <1>2, SmallMultiple
<1>4. r = y
  BY <1>1, <1>3, RangeFacts
<1> QED
  BY <1>4 DEF r

(* The turn that packet n is in.                                               *)
Turn(n) == (FirstSeq + n) \div Modulus

LEMMA SeqOfIs ==
  ASSUME NEW n \in Nat
  PROVE  FirstSeq + n = (Modulus * Turn(n)) + SeqOf(n) /\ Turn(n) \in Int /\ SeqOf(n) \in 0 .. Modulus - 1
<1>1. FirstSeq + n \in Int
  BY RangeFacts
<1> QED
  BY <1>1, Division DEF SeqOf, Turn

LEMMA SeqOfPlus ==
  ASSUME NEW n \in Nat, NEW i \in Nat
  PROVE  (SeqOf(n) + i) % Modulus = SeqOf(n + i)
<1> DEFINE s == SeqOf(n)
           t == Turn(n)
           r == SeqOf(n + i)
           u == Turn(n + i)
<1>1. FirstSeq + n = (Modulus * t) + s /\ t \in Int /\ s \in 0 .. Modulus - 1
  BY SeqOfIs
<1>2. FirstSeq + (n + i) = (Modulus * u) + r /\ u \in Int /\ r \in 0 .. Modulus - 1
  BY SeqOfIs
<1> HIDE DEF s, t, r, u
<1>3. s + i = (Modulus * (u - t)) + r /\ u - t \in Int /\ s + i \in Int
  <2>1. Modulus * (u - t) = (Modulus * u) - (Modulus * t) /\ Modulus * u \in Int /\ Modulus * t \in Int
    BY <1>1, <1>2, RangeFacts
  <2> QED
    BY <1>1, <1>2, <2>1, RangeFacts
<1>4. (s + i) % Modulus = r
  BY <1>2, <1>3, UniqueRemainder
<1> QED
  BY <1>4 DEF s, r

LEMMA SeqOfInjective ==
  ASSUME NEW n \in 0 .. Modulus - 1, NEW m \in 0 .. Modulus - 1, SeqOf(n) = SeqOf(m)
  PROVE  n = m
<1> DEFINE s == SeqOf(n)
           t == Turn(n)
           u == Turn(m)
<1>1. FirstSeq + n = (Modulus * t) + s /\ t \in Int /\ s \in 0 .. Modulus - 1
  BY SeqOfIs, RangeFacts
<1>2. FirstSeq + m = (Modulus * u) + s /\ u \in Int
  BY SeqOfIs, RangeFacts
<1> HIDE DEF s, t, u
<1>3. Modulus * (t - u) = n - m
  <2>1. Modulus * (t - u) = (Modulus * t) - (Modulus * u) /\ Modulus * u \in Int /\ Modulus * t \in Int
    BY <1>1, <1>2, RangeFacts
  <2> QED
    BY <1>1, <1>2, <2>1, RangeFacts
<1>4. t - u = 0
  BY <1>1, <1>2, <1>3, SmallMultiple, RangeFacts
<1> QED
  BY <1>3, <1>4, RangeFacts

(* The distance on the wire is the true one ahead, and at least half the range *)
(* behind.                                                                     *)
LEMMA DistanceIs ==
  ASSUME NEW n \in 0 .. NumSent, NEW p \in 0 .. NumSent
  PROVE  ForwardDistance(SeqOf(n), SeqOf(p)) = IF n >= p THEN n - p ELSE Modulus - (p - n)
<1> DEFINE s == SeqOf(n)
           t == Turn(n)
           r == SeqOf(p)
           u == Turn(p)
           y == IF n >= p THEN n - p ELSE Modulus - (p - n)
           k == IF n >= p THEN u - t ELSE (u - t) - 1
<1>1. FirstSeq + n = (Modulus * t) + s /\ t \in Int /\ s \in 0 .. Modulus - 1
  BY SeqOfIs, RangeFacts
<1>2. FirstSeq + p = (Modulus * u) + r /\ u \in Int /\ r \in 0 .. Modulus - 1
  BY SeqOfIs, RangeFacts
<1> HIDE DEF s, t, r, u
<1>3. y \in 0 .. Modulus - 1 /\ k \in Int /\ s - r \in Int
  BY <1>1, <1>2, RangeFacts
<1>4. s - r = (Modulus * k) + y
  <2>1. Modulus * (u - t) = (Modulus * u) - (Modulus * t) /\ Modulus * u \in Int /\ Modulus * t \in Int
    BY <1>1, <1>2, RangeFacts
  <2>2. s - r = (Modulus * (u - t)) + (n - p)
    BY <1>1, <1>2, <2>1, RangeFacts
  <2>3. Modulus * ((u - t) - 1) = (Modulus * (u - t)) - Modulus /\ Modulus * (u - t) \in Int
    BY <1>1, <1>2, RangeFacts
  <2> QED
    BY <2>2, <2>3, RangeFacts
<1> HIDE DEF y, k
<1>5. (s - r) % Modulus = y
  BY <1>3, <1>4, UniqueRemainder
<1> QED
  BY <1>5 DEF ForwardDistance, s, r, y

-------------------------------------------------------------------------------
(* Runs of kept packets                                                        *)

(* A flush from packet p on takes the packets p, p + 1, ... as long as they    *)
(* are kept.                                                                   *)
LEMMA RunIs ==
  ASSUME NEW kept \in SUBSET Numbers, NEW p \in 0 .. NumSent, NEW len \in 0 .. Cardinality(kept),
         RunLength(SeqOf(p), len, kept)
  PROVE  /\ p + len \in 0 .. NumSent /\ p .. p + len - 1 \subseteq kept /\ p + len \notin kept
         /\ \A i \in 1 .. len : KeptPacket((SeqOf(p) + i - 1) % Modulus, kept) = p + i - 1
         /\ (SeqOf(p) + len) % Modulus = SeqOf(p + len)
<1>1. IsFiniteSet(kept) /\ Cardinality(kept) \in Nat /\ Cardinality(kept) <= NumSent
  <2>1. IsFiniteSet(Numbers) /\ Cardinality(Numbers) = NumSent
    BY FS_Interval, RangeFacts DEF Numbers
  <2> QED
    BY <2>1, FS_Subset, FS_CardinalityType
<1>2. len \in Nat /\ p \in Nat /\ \A i \in 0 .. len : p + i \in 0 .. Modulus - 1 /\ p + i \in Nat
  BY <1>1, RangeFacts
<1>3. \A i \in 0 .. len : (SeqOf(p) + i) % Modulus = SeqOf(p + i)
  BY <1>2, SeqOfPlus
<1>4. \A i \in 0 .. len : SeqOf(p + i) \in KeptSeqs(kept) <=> p + i \in kept
  <2> SUFFICES ASSUME NEW i \in 0 .. len, SeqOf(p + i) \in KeptSeqs(kept) PROVE p + i \in kept
    BY DEF KeptSeqs
  <2>1. PICK n \in kept : SeqOf(p + i) = SeqOf(n)
    BY DEF KeptSeqs
  <2>2. n \in 0 .. Modulus - 1
    BY RangeFacts DEF Numbers
  <2>3. n = p + i
    BY <1>2, <2>1, <2>2, SeqOfInjective
  <2> QED
    BY <2>3
<1>5. \A i \in 0 .. len - 1 : p + i \in kept
  BY <1>2, <1>3, <1>4 DEF RunLength
<1>6. p + len \notin kept
  BY <1>2, <1>3, <1>4 DEF RunLength
<1>7. p + len \in 0 .. NumSent
  <2>1. CASE len = 0
    BY <1>2, <2>1
  <2>2. CASE len # 0
    <3>1. p + (len - 1) \in Numbers
      BY <1>2, <1>5, <2>2
    <3> QED
      BY <1>2, <3>1, RangeFacts DEF Numbers
  <2> QED
    BY <2>1, <2>2
<1>8. p .. p + len - 1 \subseteq kept
  <2> SUFFICES ASSUME NEW m \in p .. p + len - 1 PROVE m \in kept
    OBVIOUS
  <2>1. m - p \in 0 .. len - 1 /\ p + (m - p) = m
    BY <1>2
  <2> QED
    BY <1>5, <2>1
<1>9. \A i \in 1 .. len : KeptPacket((SeqOf(p) + i - 1) % Modulus, kept) = p + i - 1
  <2> SUFFICES ASSUME NEW i \in 1 .. len
               PROVE  KeptPacket((SeqOf(p) + i - 1) % Modulus, kept) = p + i - 1
    OBVIOUS
  <2>1. i - 1 \in 0 .. len - 1 /\ i - 1 \in 0 .. len
    BY <1>2
  <2>2. p + (i - 1) \in kept /\ (SeqOf(p) + (i - 1)) % Modulus = SeqOf(p + (i - 1))
    BY <1>3, <1>5, <2>1
  <2>3. SeqOf(p) + i - 1 = SeqOf(p) + (i - 1) /\ p + i - 1 = p + (i - 1)
    BY <1>2, SeqOfIs
  <2>4. \A n \in kept : SeqOf(n) = SeqOf(p + (i - 1)) => n = p + (i - 1)
    <3> SUFFICES ASSUME NEW n \in kept, SeqOf(n) = SeqOf(p + (i - 1)) PROVE n = p + (i - 1)
      OBVIOUS
    <3>1. n \in 0 .. Modulus - 1
      BY RangeFacts DEF Numbers
    <3> QED
      BY <1>2, <2>1, <3>1, SeqOfInjective
  <2> QED
    BY <2>2, <2>3, <2>4 DEF KeptPacket
<1>10. (SeqOf(p) + len) % Modulus = SeqOf(p + len)
  BY <1>2, <1>3
<1> QED
  BY <1>6, <1>7, <1>8, <1>9, <1>10

(* The packets first .. last are returned, consecutive and from the position   *)
(* on or beyond a gap; those from lo on were kept.                             *)
Returned(first, last, lo, kept) ==
  /\ first \in Numbers /\ last \in Numbers /\ first <= last /\ position <= first
  /\ lo \in {first, first + 1} /\ lo .. last \subseteq kept
  /\ ready' = Window!Run(first, last)
  /\ pending' = kept \ (lo .. last)
  /\ last + 1 \notin kept
  /\ position' = last + 1
  /\ expected_seq' = SeqOf(last + 1)
  /\ ordered' = ordered \cup (first .. last)
  /\ released' = released \cup (first .. last)

(* A flush behind the packet that just arrived.                                *)
LEMMA FlushBehindPacket ==
  ASSUME NEW n \in Numbers, position \in 0 .. NumSent, position <= n, pending \subseteq Numbers,
         ReturnRun(<<n>>, SeqAfter(SeqOf(n)), pending, (n - position) + 1)
  PROVE  \E last \in Numbers : Returned(n, last, n + 1, pending)
<1> DEFINE p == n + 1
           run(len) == [i \in 1 .. len |-> KeptPacket((SeqOf(p) + i - 1) % Modulus, pending)]
<1>1. n \in Nat /\ p \in 0 .. NumSent /\ SeqAfter(SeqOf(n)) = SeqOf(p)
  BY RangeFacts, SeqOfPlus DEF Numbers, SeqAfter
<1>2. PICK len \in 0 .. Cardinality(pending) :
        /\ RunLength(SeqOf(p), len, pending)
        /\ ready' = <<n>> \o run(len)
        /\ pending' = Remaining(pending, run(len))
        /\ expected_seq' = (SeqOf(p) + len) % Modulus
        /\ position' = position + ((n - position) + 1) + len
        /\ ordered' = ordered \cup {ready'[i] : i \in DOMAIN ready'}
        /\ released' = released \cup {ready'[i] : i \in DOMAIN ready'}
  BY <1>1 DEF ReturnRun
<1>3. /\ p + len \in 0 .. NumSent /\ p .. p + len - 1 \subseteq pending /\ p + len \notin pending
      /\ \A i \in 1 .. len : KeptPacket((SeqOf(p) + i - 1) % Modulus, pending) = p + i - 1
      /\ (SeqOf(p) + len) % Modulus = SeqOf(p + len)
  <2>1. RunLength(SeqOf(p), len, pending) /\ p \in 0 .. NumSent /\ pending \in SUBSET Numbers
    BY <1>1, <1>2
  <2> HIDE DEF p
  <2> QED
    BY ONLY <2>1, len \in 0 .. Cardinality(pending), RunIs
<1>4. len \in Nat /\ n + len \in Numbers /\ (n + len) + 1 = p + len
  <2>1. len \in Nat
    BY <1>1, <1>2, <1>3
  <2> QED
    BY <1>1, <1>3, <2>1, RangeFacts DEF Numbers
<1>5. run(len) = [i \in 1 .. len |-> n + i]
  BY <1>1, <1>3, <1>4
<1> HIDE DEF run
<1>6. ready' = Window!Run(n, n + len)
  <2>1. \A i \in 1 .. len : n + i \in Nat
    BY <1>1, <1>4
  <2>2. <<n>> \o [i \in 1 .. len |-> n + i] = [i \in 1 .. (n + len) - n + 1 |-> n + i - 1]
    <3> DEFINE tail == [i \in 1 .. len |-> n + i]
    <3>1. tail \in Seq(Nat) /\ Len(tail) = len /\ <<n>> \in Seq(Nat)
      BY <1>1, <1>4, <2>1
    <3>2. Len(<<n>> \o tail) = len + 1 /\ <<n>> \o tail \in Seq(Nat)
      BY <1>4, <3>1
    <3>3. \A i \in 1 .. len + 1 : (<<n>> \o tail)[i] = n + i - 1
      BY <1>1, <1>4, <3>1
    <3>4. (n + len) - n + 1 = len + 1
      BY <1>1, <1>4
    <3> QED
      BY <3>2, <3>3, <3>4
  <2> QED
    BY <1>2, <1>5, <2>2 DEF Window!Run
<1>7. {ready'[i] : i \in DOMAIN ready'} = n .. n + len
  <2>1. (n + len) - n + 1 = len + 1
    BY <1>1, <1>4
  <2>2. ready' = [i \in 1 .. len + 1 |-> n + i - 1]
    BY <1>6, <2>1 DEF Window!Run
  <2>3. \A m \in n .. n + len : m - n + 1 \in 1 .. len + 1 /\ m = n + (m - n + 1) - 1
    BY <1>1, <1>4
  <2>4. \A i \in 1 .. len + 1 : n + i - 1 \in n .. n + len
    BY <1>1, <1>4
  <2> QED
    BY <2>2, <2>3, <2>4
<1>8. pending' = pending \ (n + 1 .. n + len)
  <2>1. \A m \in n + 1 .. n + len : m - n \in 1 .. len /\ m = n + (m - n)
    BY <1>1, <1>4
  <2>2. \A i \in 1 .. len : n + i \in n + 1 .. n + len
    BY <1>1, <1>4
  <2>3. {run(len)[i] : i \in DOMAIN run(len)} = n + 1 .. n + len
    BY <1>5, <2>1, <2>2
  <2> QED
    BY <1>2, <2>3 DEF Remaining
<1>9. position' = (n + len) + 1 /\ expected_seq' = SeqOf((n + len) + 1)
  BY <1>1, <1>2, <1>3, <1>4
<1>10. n + 1 .. n + len \subseteq pending /\ n <= n + len
  BY <1>1, <1>3, <1>4
<1> QED
  BY <1>1, <1>2, <1>3, <1>4, <1>6, <1>7, <1>8, <1>9, <1>10 DEF Returned

(* A flush from a kept packet on.                                              *)
LEMMA FlushFromKept ==
  ASSUME NEW kept \in SUBSET Numbers, NEW n \in kept, position \in 0 .. NumSent, position <= n,
         ReturnRun(<< >>, SeqOf(n), kept, n - position)
  PROVE  \E last \in Numbers : Returned(n, last, n, kept)
<1> DEFINE run(len) == [i \in 1 .. len |-> KeptPacket((SeqOf(n) + i - 1) % Modulus, kept)]
<1>1. n \in Nat /\ n \in 0 .. NumSent /\ n \in Numbers
  BY RangeFacts DEF Numbers
<1>2. PICK len \in 0 .. Cardinality(kept) :
        /\ RunLength(SeqOf(n), len, kept)
        /\ ready' = << >> \o run(len)
        /\ pending' = Remaining(kept, run(len))
        /\ expected_seq' = (SeqOf(n) + len) % Modulus
        /\ position' = position + (n - position) + len
        /\ ordered' = ordered \cup {ready'[i] : i \in DOMAIN ready'}
        /\ released' = released \cup {ready'[i] : i \in DOMAIN ready'}
  BY DEF ReturnRun
<1>3. /\ n + len \in 0 .. NumSent /\ n .. n + len - 1 \subseteq kept /\ n + len \notin kept
      /\ \A i \in 1 .. len : KeptPacket((SeqOf(n) + i - 1) % Modulus, kept) = n + i - 1
      /\ (SeqOf(n) + len) % Modulus = SeqOf(n + len)
  <2>1. RunLength(SeqOf(n), len, kept) /\ n \in 0 .. NumSent
    BY <1>1, <1>2
  <2> QED
    BY ONLY <2>1, len \in 0 .. Cardinality(kept), kept \in SUBSET Numbers, RunIs
<1> DEFINE last == n + len - 1
<1>4. len \in Nat \ {0} /\ last \in Numbers /\ last + 1 = n + len /\ n <= last /\ last - n + 1 = len
  <2>1. len \in Int /\ len >= 0
    BY <1>2
  <2>2. len # 0
    BY <1>1, <1>3
  <2> QED
    BY <1>1, <1>3, <2>1, <2>2, RangeFacts DEF Numbers
<1>5. run(len) = Window!Run(n, last)
  BY <1>3, <1>4 DEF Window!Run
<1>6. run(len) \in Seq(Nat)
  <2>1. \A i \in 1 .. len : n + i - 1 \in Nat
    BY <1>1, <1>4
  <2> QED
    BY <1>3, <1>4, <2>1
<1>7. ready' = Window!Run(n, last)
  BY <1>2, <1>5, <1>6
<1>8. {Window!Run(n, last)[i] : i \in DOMAIN Window!Run(n, last)} = n .. last
  <2>1. Window!Run(n, last) = [i \in 1 .. len |-> n + i - 1]
    BY <1>4 DEF Window!Run
  <2>2. \A m \in n .. last : m - n + 1 \in 1 .. len /\ m = n + (m - n + 1) - 1
    BY <1>1, <1>4
  <2>3. \A i \in 1 .. len : n + i - 1 \in n .. last
    BY <1>1, <1>4
  <2> QED
    BY <2>1, <2>2, <2>3
<1>9. pending' = kept \ (n .. last)
  BY <1>2, <1>5, <1>8 DEF Remaining
<1>10. position' = last + 1 /\ expected_seq' = SeqOf(last + 1)
  BY <1>1, <1>2, <1>3, <1>4
<1> HIDE DEF run, last
<1>11. last + 1 \notin kept /\ n .. last \subseteq kept
  BY <1>3, <1>4 DEF last
<1> QED
  BY <1>1, <1>2, <1>4, <1>7, <1>8, <1>9, <1>10, <1>11 DEF Returned

-------------------------------------------------------------------------------
(* The inductive invariant                                                     *)

(* LossCounted with its start as a witness.                                    *)
Counted ==
  \E start \in ordered :
    /\ \A m \in ordered : start <= m /\ m < position
    /\ lost + Cardinality(ordered) = position - start

(* expected_seq is the wire form of the position.                              *)
Synced ==
  \/ position = NoSeq /\ expected_seq = NoSeq /\ lost = 0
     /\ pending = {} /\ received = {} /\ ordered = {}
  \/ position \in 0 .. NumSent /\ expected_seq = SeqOf(position) /\ Counted

Inv == TypeOK /\ Synced /\ NothingVanishes /\ PendingBound

LEMMA FinitePackets ==
  ASSUME NEW S \in SUBSET Numbers
  PROVE  IsFiniteSet(S) /\ Cardinality(S) \in Nat
<1>1. IsFiniteSet(Numbers)
  BY FS_Interval, RangeFacts DEF Numbers
<1> QED
  BY <1>1, FS_Subset, FS_CardinalityType

LEMMA Started ==
  ASSUME Inv, expected_seq # NoSeq
  PROVE  position \in 0 .. NumSent /\ expected_seq = SeqOf(position) /\ Counted
  BY DEF Inv, Synced

LEMMA GapIs ==
  ASSUME Inv, expected_seq # NoSeq, NEW n \in Numbers
  PROVE  /\ Gap(n) = IF n >= position THEN n - position ELSE Modulus - (position - n)
         /\ ForwardDistance(SeqOf(n), expected_seq) = Gap(n)
<1>1. n \in 0 .. NumSent
  BY RangeFacts DEF Numbers
<1> QED
  BY <1>1, Started, DistanceIs DEF Gap

(* A gap below half the range is one ahead of the position.                    *)
LEMMA GapAhead ==
  ASSUME Inv, expected_seq # NoSeq, NEW n \in Numbers, Gap(n) < Half
  PROVE  position <= n /\ Gap(n) = n - position
  BY GapIs, Started, RangeFacts DEF Numbers

LEMMA GapBehind ==
  ASSUME Inv, expected_seq # NoSeq, NEW n \in Numbers, Gap(n) >= Half
  PROVE  n < position
  BY GapIs, Started, RangeFacts DEF Numbers

(* The packets returned were not counted before; the gap before them is.       *)
LEMMA ReturnedCounted ==
  ASSUME TypeOK, position \in 0 .. NumSent, Counted,
         NEW first, NEW last, NEW lo, NEW kept, Returned(first, last, lo, kept),
         lost' = lost + (first - position)
  PROVE  Counted' /\ ordered' \subseteq Numbers /\ lost' \in Nat
<1>1. first \in Nat /\ last \in Nat /\ first <= last /\ position <= first /\ position \in Nat
      /\ position' = last + 1 /\ ordered' = ordered \cup (first .. last)
      /\ first .. last \subseteq Numbers
  BY RangeFacts DEF Returned, Numbers
<1>2. PICK start \in ordered :
        /\ \A m \in ordered : start <= m /\ m < position
        /\ lost + Cardinality(ordered) = position - start
  BY DEF Counted
<1>3. ordered \subseteq Numbers /\ ordered \subseteq Nat /\ start \in Nat /\ lost \in Nat
  BY <1>2 DEF TypeOK, Numbers
<1>4. IsFiniteSet(first .. last) /\ Cardinality(first .. last) = last - first + 1
  BY <1>1, FS_Interval
<1>5. ordered \cap (first .. last) = {}
  BY <1>1, <1>2, <1>3
<1>6. Cardinality(ordered') = Cardinality(ordered) + (last - first + 1) /\ Cardinality(ordered) \in Nat
  <2>1. IsFiniteSet(ordered) /\ Cardinality(ordered) \in Nat
    BY <1>3, FinitePackets
  <2>2. Cardinality(ordered \cup (first .. last))
          = Cardinality(ordered) + Cardinality(first .. last) - Cardinality(ordered \cap (first .. last))
    BY <1>4, <2>1, FS_Union
  <2>3. Cardinality(ordered \cap (first .. last)) = 0
    BY <1>5, FS_EmptySet
  <2>4. Cardinality(ordered') = Cardinality(ordered) + Cardinality(first .. last)
    BY <1>1, <1>4, <2>1, <2>2, <2>3
  <2> QED
    BY <1>4, <2>1, <2>4
<1>7. lost' + Cardinality(ordered') = position' - start
  BY <1>1, <1>2, <1>3, <1>6
<1>8. \A m \in ordered' : start <= m /\ m < position'
  BY <1>1, <1>2, <1>3
<1>9. start \in ordered'
  BY <1>1
<1> QED
  BY <1>1, <1>3, <1>7, <1>8, <1>9 DEF Counted

LEMMA RunOfPackets ==
  ASSUME NEW first \in Numbers, NEW last \in Numbers, first <= last
  PROVE  Window!Run(first, last) \in Seq(Numbers)
<1> DEFINE len == last - first + 1
<1>1. len \in Nat /\ \A i \in 1 .. len : first + i - 1 \in Numbers
  BY RangeFacts DEF Numbers
<1>2. [i \in 1 .. len |-> first + i - 1] \in [1 .. len -> Numbers]
  BY <1>1
<1> HIDE DEF len
<1>3. [i \in 1 .. len |-> first + i - 1] \in Seq(Numbers)
  BY <1>1, <1>2
<1> QED
  BY <1>3 DEF Window!Run, len

(* Every release keeps the invariant; only the packet that arrived may be new. *)
LEMMA ReturnedInv ==
  ASSUME Inv, expected_seq # NoSeq,
         NEW kept \in SUBSET Numbers, NEW first, NEW last, NEW lo,
         Returned(first, last, lo, kept), lost' = lost + (first - position),
         copies' \in [Numbers -> 0 .. MaxCopies], received' \subseteq Numbers,
         received' \subseteq released \cup kept \cup {first},
         \/ kept = pending
         \/ lo = first /\ Cardinality(kept) <= MaxPending + 1
  PROVE  Inv'
<1>1. position \in 0 .. NumSent /\ Counted /\ TypeOK
  BY Started DEF Inv
<1>2. Counted' /\ ordered' \subseteq Numbers /\ lost' \in Nat
  BY <1>1, ReturnedCounted
<1>3. first \in Numbers /\ last \in Numbers /\ first <= last /\ lo \in {first, first + 1}
      /\ first .. last \subseteq Numbers /\ lo .. last \subseteq first .. last
      /\ first \in first .. last
  BY RangeFacts DEF Returned, Numbers
<1>4. position' \in 0 .. NumSent /\ expected_seq' = SeqOf(position')
  BY <1>3, RangeFacts DEF Returned, Numbers
<1>5. expected_seq' \in 0 .. Modulus - 1
  BY <1>4, SeqOfIs
<1>6. ready' \in Seq(Numbers)
  BY <1>3, RunOfPackets DEF Returned
<1>7. pending' \subseteq Numbers /\ released' \subseteq Numbers
  BY <1>1, <1>3 DEF Returned, TypeOK
<1>8. TypeOK'
  BY <1>2, <1>4, <1>5, <1>6, <1>7 DEF TypeOK
<1>9. NothingVanishes'
  BY <1>3 DEF Returned, NothingVanishes
<1>10. PendingBound'
  <2>1. IsFiniteSet(kept) /\ Cardinality(kept) \in Nat /\ MaxPending \in Nat
    BY FinitePackets, SeqAssumption
  <2>2. pending' \subseteq kept
    BY DEF Returned
  <2>3. CASE kept = pending
    BY <2>1, <2>2, <2>3, FS_Subset, FinitePackets DEF Inv, PendingBound
  <2>4. CASE lo = first /\ Cardinality(kept) <= MaxPending + 1
    <3>1. first \in kept /\ pending' \subseteq kept \ {first}
      BY <1>3, <2>4 DEF Returned
    <3>2. IsFiniteSet(kept \ {first}) /\ Cardinality(kept \ {first}) = Cardinality(kept) - 1
      BY <2>1, <3>1, FS_RemoveElement
    <3>3. Cardinality(pending') <= Cardinality(kept \ {first}) /\ Cardinality(pending') \in Nat
      BY <3>1, <3>2, FS_Subset, <1>7, FinitePackets
    <3> QED
      BY <2>1, <2>4, <3>2, <3>3 DEF PendingBound
  <2> QED
    BY <2>3, <2>4
<1> QED
  BY <1>2, <1>4, <1>8, <1>9, <1>10 DEF Inv, Synced

-------------------------------------------------------------------------------
(* The actions                                                                 *)

LEMMA ArrivesIs ==
  ASSUME TypeOK, NEW n \in Numbers, Arrives(n)
  PROVE  copies' \in [Numbers -> 0 .. MaxCopies] /\ received' = received \cup {n}
         /\ received' \subseteq Numbers
<1>1. MaxCopies \in Nat /\ copies[n] \in 0 .. MaxCopies
  BY SeqAssumption DEF TypeOK
<1>2. copies[n] - 1 \in 0 .. MaxCopies
  BY <1>1 DEF Arrives
<1> QED
  BY <1>2 DEF Arrives, TypeOK

(* The packet wanted, or one behind a small gap.                               *)
LEMMA ReleaseIs ==
  ASSUME Inv, NEW n \in Numbers, NextPacket(n) \/ SmallGap(n)
  PROVE  /\ expected_seq # NoSeq /\ Arrives(n) /\ lost' = lost + (n - position)
         /\ \E last \in Numbers : Returned(n, last, n + 1, pending)
<1>1. expected_seq # NoSeq /\ Arrives(n) /\ Gap(n) < Half /\ lost \in Nat /\ pending \subseteq Numbers
  BY RangeFacts, SeqAssumption DEF NextPacket, SmallGap, Inv, TypeOK, Half
<1>2. position <= n /\ Gap(n) = n - position /\ position \in 0 .. NumSent
  BY <1>1, GapAhead, Started
<1>3. ReturnRun(<<n>>, SeqAfter(SeqOf(n)), pending, (n - position) + 1)
      /\ lost' = lost + (n - position)
  <2>1. CASE NextPacket(n)
    <3>1. n - position = 0 /\ (n - position) + 1 = 1
      BY <1>2, <2>1 DEF NextPacket
    <3> QED
      BY <1>1, <2>1, <3>1 DEF NextPacket
  <2>2. CASE SmallGap(n)
    BY <1>2, <2>2 DEF SmallGap, LossOf
  <2> QED
    BY <2>1, <2>2
<1> QED
  BY <1>1, <1>2, <1>3, FlushBehindPacket

(* A gap given up in front of a kept packet.                                   *)
LEMMA PromoteIs ==
  ASSUME Inv, expected_seq # NoSeq, NEW kept \in SUBSET Numbers, Promote(kept)
  PROVE  \E n \in kept, last \in Numbers :
           Returned(n, last, n, kept) /\ lost' = lost + (n - position)
<1>1. PICK n \in Candidates(kept) :
        /\ lost' = lost + LossOf(ForwardDistance(SeqOf(n), expected_seq))
        /\ ReturnRun(<< >>, SeqOf(n), kept, ForwardDistance(SeqOf(n), expected_seq))
  BY DEF Promote
<1>2. n \in kept /\ n \in Numbers /\ Gap(n) \in 1 .. Half - 1
      /\ ForwardDistance(SeqOf(n), expected_seq) = Gap(n)
  BY GapIs DEF Candidates
<1>3. position <= n /\ Gap(n) = n - position /\ position \in 0 .. NumSent
  BY <1>2, RangeFacts, GapAhead, Started
<1>4. ReturnRun(<< >>, SeqOf(n), kept, n - position) /\ lost' = lost + (n - position)
  BY <1>1, <1>2, <1>3 DEF LossOf
<1> QED
  BY <1>2, <1>3, <1>4, FlushFromKept

(* A packet behind a large gap: with it, a gap is given up or all are kept.    *)
LEMMA LargeGapIs ==
  ASSUME Inv, NEW n \in Numbers, LargeGap(n)
  PROVE  /\ expected_seq # NoSeq /\ Arrives(n) /\ position < n
         /\ pending \cup {n} \in SUBSET Numbers /\ Cardinality(pending \cup {n}) <= MaxPending + 1
         /\ \/ Promote(pending \cup {n})
            \/ ReturnNothing(pending \cup {n}) /\ Cardinality(pending \cup {n}) <= MaxPending
<1> DEFINE kept == pending \cup {n}
<1>1. expected_seq # NoSeq /\ Arrives(n) /\ Gap(n) \in 1 .. Half - 1 /\ Gap(n) # 0
      /\ PromoteIfDue(kept, OverLimit(kept))
  BY SeqAssumption DEF LargeGap
<1>2. position < n
  BY <1>1, GapAhead, Started, RangeFacts DEF Numbers
<1>3. kept \in SUBSET Numbers
  BY DEF Inv, TypeOK
<1>4. n \in Candidates(kept)
  BY <1>1 DEF Candidates, Gap
<1>5. Cardinality(kept) \in Nat /\ Cardinality(kept) <= MaxPending + 1
  <2>1. pending \in SUBSET Numbers /\ Cardinality(pending) <= MaxPending /\ MaxPending \in Nat
    BY SeqAssumption DEF Inv, TypeOK, PendingBound
  <2>2. IsFiniteSet(pending) /\ Cardinality(pending) \in Nat
    BY <2>1, FinitePackets
  <2>3. Cardinality(kept) = IF n \in pending THEN Cardinality(pending) ELSE Cardinality(pending) + 1
    BY <2>2, FS_AddElement
  <2> QED
    BY <2>1, <2>2, <2>3
<1>6. \/ Promote(kept)
      \/ ReturnNothing(kept) /\ Cardinality(kept) <= MaxPending
  <2>1. MaxPending \in Nat
    BY SeqAssumption
  <2>2. Candidates(kept) # {}
    BY <1>4
  <2> HIDE DEF kept
  <2> QED
    BY <1>1, <1>5, <2>1, <2>2 DEF PromoteIfDue, OverLimit
<1> QED
  BY <1>1, <1>2, <1>3, <1>5, <1>6

LEMMA LateIs ==
  ASSUME Inv, NEW n \in Numbers, LatePacket(n)
  PROVE  expected_seq # NoSeq /\ Arrives(n) /\ n < position
  BY GapBehind DEF LatePacket

-------------------------------------------------------------------------------
(* The invariant is inductive                                                  *)

LEMMA InitInv == Init => Inv
<1> SUFFICES ASSUME Init PROVE Inv
  OBVIOUS
<1>1. MaxCopies \in 0 .. MaxCopies /\ 0 <= MaxPending
  BY SeqAssumption
<1>2. TypeOK
  BY <1>1 DEF Init, TypeOK
<1>3. Synced /\ NothingVanishes
  BY DEF Init, Synced, NothingVanishes
<1>4. PendingBound
  BY <1>1, FS_EmptySet DEF Init, PendingBound
<1> QED
  BY <1>2, <1>3, <1>4 DEF Inv

LEMMA FirstPacketInv ==
  ASSUME Inv, NEW n \in Numbers, FirstPacket(n)
  PROVE  Inv' /\ position = NoSeq /\ pending = {}
<1>1. position = NoSeq /\ lost = 0 /\ pending = {} /\ received = {} /\ ordered = {}
  <2>1. ~(position \in 0 .. NumSent /\ expected_seq = SeqOf(position))
    BY SeqOfIs DEF FirstPacket, NoSeq
  <2> QED
    BY <2>1 DEF Inv, Synced
<1>2. TypeOK /\ Arrives(n)
  BY DEF Inv, FirstPacket
<1>3. n \in Nat /\ n + 1 \in 0 .. NumSent /\ SeqAfter(SeqOf(n)) = SeqOf(n + 1)
  BY RangeFacts, SeqOfPlus DEF Numbers, SeqAfter
<1>4. TypeOK'
  <2>1. SeqAfter(SeqOf(n)) \in 0 .. Modulus - 1
    BY <1>3, SeqOfIs
  <2>2. <<n>> \in Seq(Numbers) /\ {n} \subseteq Numbers
    OBVIOUS
  <2>3. copies' \in [Numbers -> 0 .. MaxCopies] /\ received' \subseteq Numbers
    BY <1>2, ArrivesIs
  <2> QED
    BY <1>2, <1>3, <2>1, <2>2, <2>3 DEF FirstPacket, TypeOK
<1>5. Counted'
  <2>1. Cardinality({n}) = 1
    BY FS_Singleton
  <2>2. lost' = 0 /\ ordered' = {n} /\ position' = n + 1
    BY <1>1 DEF FirstPacket
  <2>3. n <= n /\ n < n + 1 /\ 0 + 1 = (n + 1) - n
    BY <1>3
  <2>4. n \in ordered' /\ (\A m \in ordered' : n <= m /\ m < position')
        /\ lost' + Cardinality(ordered') = position' - n
    BY <2>1, <2>2, <2>3
  <2> QED
    BY <2>4 DEF Counted
<1>6. Synced'
  BY <1>3, <1>5 DEF FirstPacket, Synced
<1>7. NothingVanishes'
  BY <1>1, <1>2, ArrivesIs DEF FirstPacket, NothingVanishes
<1>8. PendingBound'
  BY DEF FirstPacket, Inv, PendingBound
<1> QED
  BY <1>1, <1>4, <1>6, <1>7, <1>8 DEF Inv

LEMMA ReleaseInv ==
  ASSUME Inv, NEW n \in Numbers, NextPacket(n) \/ SmallGap(n)
  PROVE  Inv'
<1>1. PICK last \in Numbers : Returned(n, last, n + 1, pending)
  BY ReleaseIs
<1>2. expected_seq # NoSeq /\ lost' = lost + (n - position) /\ Arrives(n)
  BY ReleaseIs
<1>3. copies' \in [Numbers -> 0 .. MaxCopies] /\ received' = received \cup {n}
      /\ received' \subseteq Numbers
  BY <1>2, ArrivesIs DEF Inv
<1>4. received' \subseteq released \cup pending \cup {n}
  BY <1>3 DEF Inv, NothingVanishes
<1>5. pending \in SUBSET Numbers
  BY DEF Inv, TypeOK
<1> QED
  BY <1>1, <1>2, <1>3, <1>4, <1>5, ReturnedInv

(* Giving up a gap; kept holds the packet that arrived, if one did.            *)
LEMMA PromoteInv ==
  ASSUME Inv, expected_seq # NoSeq, NEW kept \in SUBSET Numbers, Promote(kept),
         copies' \in [Numbers -> 0 .. MaxCopies], received' \subseteq Numbers,
         received' \subseteq released \cup kept, Cardinality(kept) <= MaxPending + 1
  PROVE  Inv'
<1>1. PICK n \in kept, last \in Numbers :
        Returned(n, last, n, kept) /\ lost' = lost + (n - position)
  BY PromoteIs
<1>2. received' \subseteq released \cup kept \cup {n}
  OBVIOUS
<1> QED
  BY <1>1, <1>2, ReturnedInv

LEMMA HoldInv ==
  ASSUME Inv, expected_seq # NoSeq, NEW kept \in SUBSET Numbers, ReturnNothing(kept),
         copies' \in [Numbers -> 0 .. MaxCopies], received' \subseteq Numbers,
         received' \subseteq released \cup kept, Cardinality(kept) <= MaxPending
  PROVE  Inv'
<1>1. TypeOK'
  <2>1. << >> \in Seq(Numbers)
    OBVIOUS
  <2> QED
    BY <2>1 DEF Inv, TypeOK, ReturnNothing
<1>2. Synced'
  <2>1. Counted'
    BY Started DEF Counted, ReturnNothing
  <2> QED
    BY <2>1, Started DEF ReturnNothing, Synced
<1>3. NothingVanishes' /\ PendingBound'
  BY DEF ReturnNothing, NothingVanishes, PendingBound
<1> QED
  BY <1>1, <1>2, <1>3 DEF Inv

LEMMA LargeGapInv ==
  ASSUME Inv, NEW n \in Numbers, LargeGap(n)
  PROVE  Inv'
<1> DEFINE kept == pending \cup {n}
<1>1. /\ expected_seq # NoSeq /\ Arrives(n)
      /\ kept \in SUBSET Numbers /\ Cardinality(kept) <= MaxPending + 1
      /\ Promote(kept) \/ (ReturnNothing(kept) /\ Cardinality(kept) <= MaxPending)
  BY LargeGapIs
<1>2. copies' \in [Numbers -> 0 .. MaxCopies] /\ received' = received \cup {n}
      /\ received' \subseteq Numbers
  BY <1>1, ArrivesIs DEF Inv
<1>3. received' \subseteq released \cup kept
  BY <1>2 DEF Inv, NothingVanishes
<1> HIDE DEF kept
<1> QED
  BY <1>1, <1>2, <1>3, PromoteInv, HoldInv

LEMMA LatePacketInv ==
  ASSUME Inv, NEW n \in Numbers, LatePacket(n)
  PROVE  Inv'
<1>1. expected_seq # NoSeq /\ Arrives(n)
  BY LateIs
<1>2. copies' \in [Numbers -> 0 .. MaxCopies] /\ received' = received \cup {n}
      /\ received' \subseteq Numbers
  BY <1>1, ArrivesIs DEF Inv
<1>3. <<n>> \in Seq(Numbers)
  OBVIOUS
<1>4. TypeOK'
  BY <1>2, <1>3 DEF Inv, TypeOK, LatePacket
<1>5. Synced'
  <2>1. Counted'
    BY <1>1, Started DEF Counted, LatePacket
  <2> QED
    BY <1>1, <2>1, Started DEF LatePacket, Synced
<1>6. NothingVanishes' /\ PendingBound'
  BY <1>2 DEF LatePacket, Inv, NothingVanishes, PendingBound
<1> QED
  BY <1>4, <1>5, <1>6 DEF Inv

LEMMA HealthPromotesInv ==
  ASSUME Inv, HealthPromotes
  PROVE  Inv'
<1>1. /\ expected_seq # NoSeq /\ Promote(pending) /\ pending \in SUBSET Numbers
      /\ copies' \in [Numbers -> 0 .. MaxCopies] /\ received' \subseteq Numbers
      /\ received' \subseteq released \cup pending
  BY DEF HealthPromotes, Inv, TypeOK, NothingVanishes
<1>2. Cardinality(pending) <= MaxPending + 1
  BY <1>1, FinitePackets, SeqAssumption DEF Inv, PendingBound
<1> QED
  BY <1>1, <1>2, PromoteInv

LEMMA ResetInv ==
  ASSUME Inv, Reset \/ ViewerStarts
  PROVE  Inv'
<1>1. MaxCopies \in 0 .. MaxCopies /\ 0 <= MaxPending
  BY SeqAssumption
<1>2. TypeOK'
  <2>1. copies' \in [Numbers -> 0 .. MaxCopies]
    BY <1>1 DEF Reset, ViewerStarts, Inv, TypeOK
  <2>2. Forgets
    BY DEF Reset, ViewerStarts
  <2> QED
    BY <2>1, <2>2 DEF Forgets, TypeOK
<1>3. Synced' /\ NothingVanishes'
  BY DEF Reset, ViewerStarts, Forgets, Synced, NothingVanishes
<1>4. PendingBound'
  BY <1>1, FS_EmptySet DEF Reset, ViewerStarts, Forgets, PendingBound
<1> QED
  BY <1>2, <1>3, <1>4 DEF Inv

LEMMA StutterInv == Inv /\ UNCHANGED vars => Inv'
  BY DEF vars, Inv, TypeOK, Synced, Counted, NothingVanishes, PendingBound

LEMMA NextInv == Inv /\ [Next]_vars => Inv'
<1> SUFFICES ASSUME Inv, [Next]_vars PROVE Inv'
  OBVIOUS
<1>1. CASE \E n \in Numbers :
             FirstPacket(n) \/ NextPacket(n) \/ SmallGap(n) \/ LargeGap(n) \/ LatePacket(n)
  BY <1>1, FirstPacketInv, ReleaseInv, LargeGapInv, LatePacketInv
<1>2. CASE HealthPromotes \/ Reset \/ ViewerStarts
  BY <1>2, HealthPromotesInv, ResetInv
<1>3. CASE UNCHANGED vars
  BY <1>3, StutterInv
<1> QED
  BY <1>1, <1>2, <1>3 DEF Next

(* The inductive invariant of the sequence layer. *)
THEOREM Invariance == Spec => []Inv
  BY InitInv, NextInv, PTL DEF Spec

(* Type correctness of the sequence layer's state. *)
THEOREM TypeCorrect == Spec => []TypeOK
  BY Invariance, PTL DEF Inv

(* pop_ready_packets_by_seq returns with at most RX_SEQ_REORDER_MAX_PENDING    *)
(* packets kept: the packet that exceeds the limit forces a promotion, which   *)
(* always finds a packet to resume at.                                         *)
THEOREM PendingBounded == Spec => []PendingBound
  BY Invariance, PTL DEF Inv

(* A packet that has arrived was released or is still kept, whatever the       *)
(* network lost, reordered or repeated.                                        *)
THEOREM NothingIsLost == Spec => []NothingVanishes
  BY Invariance, PTL DEF Inv

LEMMA CountedIsExact == Inv => LossCounted
<1> SUFFICES ASSUME Inv, ordered # {} PROVE LossCounted
  BY DEF LossCounted
<1>1. Counted /\ ordered \subseteq Nat
  <2>1. Counted
    BY DEF Inv, Synced
  <2>2. ordered \subseteq 0 .. NumSent - 1
    BY DEF Inv, TypeOK, Numbers
  <2> QED
    BY <2>1, <2>2
<1>2. PICK start \in ordered :
        /\ \A m \in ordered : start <= m /\ m < position
        /\ lost + Cardinality(ordered) = position - start
  BY <1>1 DEF Counted
<1>3. \A n \in ordered : (\A m \in ordered : n <= m) => n = start
  BY <1>1, <1>2
<1>4. (CHOOSE n \in ordered : \A m \in ordered : n <= m) = start
  BY <1>2, <1>3
<1> QED
  BY <1>2, <1>4 DEF LossCounted

(* The loss counter that feeds congestion control is exact: every number the   *)
(* position has passed was released in its place or counted as lost.           *)
THEOREM LossIsExact == Spec => []LossCounted
  BY Invariance, CountedIsExact, PTL

(* Both: no packet and no number goes missing in the layer.                    *)
THEOREM AllAccountedFor == Spec => []EveryNumberAccounted
  BY NothingIsLost, LossIsExact, PTL DEF EveryNumberAccounted

-------------------------------------------------------------------------------
(* The refinement                                                              *)

LEMMA InitWindow == Init => Window!Init
  BY DEF Init, Window!Init

(* A release of the window, from what was kept and what arrived.               *)
LEMMA ReturnedWindow ==
  ASSUME NEW n \in Numbers, NEW kept, NEW first, NEW last, NEW lo,
         Returned(first, last, lo, kept), pending \subseteq Numbers,
         \/ kept = pending /\ lo = first + 1 /\ first = n
         \/ lo = first /\ kept \subseteq pending \cup {n} /\ pending \subseteq kept
  PROVE  Window!Release
<1>1. first \in Numbers /\ last \in Numbers /\ first <= last /\ first \in Int /\ last \in Int
      /\ position' = last + 1 /\ ready' = Window!Run(first, last) /\ position <= first
      /\ lo .. last \subseteq kept /\ pending' = kept \ (lo .. last) /\ last + 1 \notin kept
  BY RangeFacts DEF Returned, Numbers
<1>2. first .. last \subseteq (lo .. last) \cup {first}
  BY <1>1
<1>3. /\ first .. last \subseteq pending \cup {n}
      /\ pending' \subseteq pending \cup {n}
      /\ pending' \cup {n} = (pending \ (first .. last)) \cup {n}
  <2>1. CASE kept = pending /\ lo = first + 1 /\ first = n
    <3>1. lo .. last \subseteq first .. last
      BY <1>1, <2>1
    <3> QED
      BY <1>1, <1>2, <2>1, <3>1
  <2>2. CASE lo = first /\ kept \subseteq pending \cup {n} /\ pending \subseteq kept
    BY <1>1, <2>2
  <2> QED
    BY <2>1, <2>2
<1>4. position' \notin pending'
  BY <1>1
<1>5. {n} \in {{}} \cup {{m} : m \in Numbers}
  OBVIOUS
<1> QED
  BY <1>1, <1>3, <1>4, <1>5 DEF Window!Release

LEMMA PacketWindow ==
  ASSUME Inv, NEW n \in Numbers,
         FirstPacket(n) \/ NextPacket(n) \/ SmallGap(n) \/ LargeGap(n) \/ LatePacket(n)
  PROVE  Window!Next
<1>1. pending \subseteq Numbers
  BY DEF Inv, TypeOK
<1>2. CASE FirstPacket(n)
  <2>1. position = NoSeq /\ pending = {}
    BY <1>2, FirstPacketInv
  <2>2. n \in Int /\ n .. n = {n} /\ n <= n
    BY DEF Numbers
  <2>3. <<n>> = Window!Run(n, n)
    <3>1. n - n + 1 = 1 /\ n + 1 - 1 = n
      BY <2>2
    <3>2. <<n>> = [i \in 1 .. 1 |-> n + i - 1]
      BY <3>1
    <3> QED
      BY <3>1, <3>2 DEF Window!Run
  <2>4. {n} \in {{}} \cup {{m} : m \in Numbers}
    OBVIOUS
  <2>5. Window!Release
    BY <1>2, <2>1, <2>2, <2>3, <2>4 DEF FirstPacket, Window!Release
  <2> QED
    BY <2>5 DEF Window!Next
<1>3. CASE NextPacket(n) \/ SmallGap(n)
  <2>1. PICK last \in Numbers : Returned(n, last, n + 1, pending)
    BY <1>3, ReleaseIs
  <2>2. Window!Release
    BY <1>1, <2>1, ReturnedWindow
  <2> QED
    BY <2>2 DEF Window!Next
<1>4. CASE LargeGap(n)
  <2> DEFINE kept == pending \cup {n}
  <2>1. /\ expected_seq # NoSeq /\ position < n /\ kept \in SUBSET Numbers
        /\ Promote(kept) \/ ReturnNothing(kept)
    BY <1>4, LargeGapIs
  <2>2. CASE Promote(kept)
    <3>1. PICK m \in kept, last \in Numbers : Returned(m, last, m, kept)
      BY <2>1, <2>2, PromoteIs
    <3>2. Window!Release
      BY <1>1, <3>1, ReturnedWindow
    <3> QED
      BY <3>2 DEF Window!Next
  <2>3. CASE ReturnNothing(kept)
    <3>1. position # NoSeq
      BY <2>1, Started, RangeFacts DEF NoSeq
    <3>2. Window!Hold
      BY <2>1, <2>3, <3>1 DEF ReturnNothing, Window!Hold, Numbers
    <3> QED
      BY <3>2 DEF Window!Next
  <2> QED
    BY <2>1, <2>2, <2>3
<1>5. CASE LatePacket(n)
  <2>1. n < position /\ position # NoSeq
    BY <1>5, LateIs, Started, RangeFacts DEF NoSeq
  <2>2. Window!Late
    BY <1>5, <2>1 DEF LatePacket, Window!Late
  <2> QED
    BY <2>2 DEF Window!Next
<1> QED
  BY <1>2, <1>3, <1>4, <1>5

LEMMA HealthPromotesWindow ==
  ASSUME Inv, HealthPromotes
  PROVE  Window!Next
<1>1. expected_seq # NoSeq /\ Promote(pending) /\ pending \in SUBSET Numbers
  BY DEF HealthPromotes, Inv, TypeOK
<1>2. PICK m \in pending, last \in Numbers : Returned(m, last, m, pending)
  BY <1>1, PromoteIs
<1>3. m \in Numbers
  BY <1>1
<1>4. Window!Release
  BY <1>1, <1>2, <1>3, ReturnedWindow
<1> QED
  BY <1>4 DEF Window!Next

LEMMA NextWindow == Inv /\ [Next]_vars => [Window!Next]_(Window!vars)
<1> SUFFICES ASSUME Inv, [Next]_vars PROVE [Window!Next]_(Window!vars)
  OBVIOUS
<1>1. CASE \E n \in Numbers :
             FirstPacket(n) \/ NextPacket(n) \/ SmallGap(n) \/ LargeGap(n) \/ LatePacket(n)
  BY <1>1, PacketWindow
<1>2. CASE HealthPromotes
  BY <1>2, HealthPromotesWindow
<1>3. CASE Reset \/ ViewerStarts
  BY <1>3 DEF Reset, ViewerStarts, Forgets, Window!Reset, Window!Next
<1>4. CASE UNCHANGED vars
  BY <1>4 DEF vars, Window!vars
<1> QED
  BY <1>1, <1>2, <1>3, <1>4 DEF Next

(* The sequence layer of media.js with its wrapping 32-bit numbers implements  *)
(* the window over plain numbers: the position only moves forward, and every   *)
(* run released is consecutive and starts at the position or beyond a gap.     *)
THEOREM WindowImplemented == Spec => ImplementsWindow
<1>1. Spec => Window!Init /\ [][Window!Next]_(Window!vars)
  BY InitWindow, NextWindow, Invariance, PTL DEF Spec
<1> QED
  BY <1>1, PTL DEF ImplementsWindow, Window!Spec
===============================================================================

--------------------------- MODULE SignalLink_proofs ---------------------------
(* Safety of the two ends of the signal connection for every number of breaks  *)
(* and every length an inbox may have.                                         *)
EXTENDS SignalLink, SequenceTheorems, TLAPS

EndRecords ==
  [ready : BOOLEAN, closing : BOOLEAN, signal_connected : BOOLEAN,
   media_open : BOOLEAN, start_requested : BOOLEAN, starting : BOOLEAN, cc_timer : BOOLEAN,
   bad_link_mode : BOOLEAN, hold : BOOLEAN, heartbeat : BOOLEAN,
   signal_state : {"", "on", "off"}]

Items == Messages \cup SystemEvents

Types ==
  /\ link \in BOOLEAN
  /\ inbox \in [Ends -> Seq(Items)]
  /\ end \in [Ends -> EndRecords]
  /\ breaks \in 0 .. MaxBreaks

(* An end that disconnects is no longer in bad-link mode, so it may forget     *)
(* that it was watching.                                                       *)
ClosingLeavesMode == end["viewer"].closing => ~end["viewer"].bad_link_mode

ModeInv == BadLinkBeats /\ ClosingLeavesMode

(* A watching viewer without a probe timer has the event of its connection     *)
(* still to read.                                                              *)
Unread(item, box) == \E i \in 1 .. Len(box) : box[i] = item
ProbeInv ==
  end["viewer"].start_requested /\ end["viewer"].signal_connected /\ end["viewer"].media_open
  => end["viewer"].cc_timer \/ Unread("connected", inbox["viewer"])

-------------------------------------------------------------------------------
(* Ends and their records *)

LEMMA EndsFacts == Ends = {"viewer", "share"} /\ Other("viewer") = "share" /\ Other("share") = "viewer"
  BY DEF Ends, Other

(* Sends, SendsBadLink, Answers and Becomes set the sender's record to `s' up  *)
(* to its connection flag and what it has told.                                *)
SameMode(r, s) ==
  /\ r \in EndRecords
  /\ r.closing = s.closing /\ r.media_open = s.media_open /\ r.start_requested = s.start_requested
  /\ r.cc_timer = s.cc_timer /\ r.bad_link_mode = s.bad_link_mode /\ r.heartbeat = s.heartbeat
  /\ r.signal_connected => s.signal_connected

LEMMA Unchanged == ASSUME NEW s \in EndRecords PROVE SameMode(s, s)
  BY DEF SameMode

LEMMA ConnectionSet ==
  ASSUME NEW s \in EndRecords, NEW b \in BOOLEAN, s.signal_connected
  PROVE  SameMode([s EXCEPT !.signal_connected = b], s)
  BY DEF SameMode, EndRecords

LEMMA StateTold ==
  ASSUME NEW s \in EndRecords, NEW t \in {"", "on", "off"}
  PROVE  SameMode([s EXCEPT !.signal_state = t], s)
  BY DEF SameMode, EndRecords

LEMMA SendsEnd ==
  ASSUME Types, NEW p \in Ends, NEW s \in EndRecords, NEW msg, NEW active \in BOOLEAN, NEW force,
         Sends(p, s, msg) \/ SendsBadLink(p, s, active, force) \/ Answers(p, s, msg) \/ Becomes(p, s)
  PROVE  \E r \in EndRecords : SameMode(r, s) /\ end' = [end EXCEPT ![p] = r]
<1>1. CASE end' = [end EXCEPT ![p] = s]
  BY <1>1, Unchanged
<1>2. CASE s.signal_connected /\ end' = [end EXCEPT ![p] = [s EXCEPT !.signal_connected = link]]
  BY <1>2, ConnectionSet DEF Types, SameMode
<1>3. CASE end' = [end EXCEPT ![p] = [s EXCEPT !.signal_state = Told(active)]]
  <2>1. Told(active) \in {"", "on", "off"}
    BY DEF Told
  <2> QED
    BY <1>3, <2>1, StateTold DEF SameMode
<1>4. \/ end' = [end EXCEPT ![p] = s]
      \/ s.signal_connected /\ end' = [end EXCEPT ![p] = [s EXCEPT !.signal_connected = link]]
      \/ end' = [end EXCEPT ![p] = [s EXCEPT !.signal_state = Told(active)]]
  BY DEF Sends, SendsBadLink, Answers, Becomes
<1> QED
  BY <1>1, <1>2, <1>3, <1>4

(* What the sender's new record must satisfy for the invariants about it.      *)
ModeOK(s) ==
  /\ s.bad_link_mode => s.start_requested
  /\ s.bad_link_mode <=> s.heartbeat
  /\ s.closing => ~s.bad_link_mode

ProbeOK(s) ==
  s.start_requested /\ s.signal_connected /\ s.media_open => s.cc_timer \/ Unread("connected", inbox["viewer"])

LEMMA OldRecords ==
  ASSUME Types, ModeInv, ProbeInv, NEW p \in Ends
  PROVE  end[p] \in EndRecords /\ (p = "viewer" => ModeOK(end[p]) /\ ProbeOK(end[p]))
  BY DEF Types, ModeInv, ProbeInv, BadLinkBeats, ClosingLeavesMode, ModeOK, ProbeOK

EndChange(p, s) == \E r \in EndRecords : SameMode(r, s) /\ end' = [end EXCEPT ![p] = r]

LEMMA EndChangeMode ==
  ASSUME Types, ModeInv, NEW p \in Ends, NEW s \in EndRecords, EndChange(p, s),
         p = "viewer" => ModeOK(s)
  PROVE  end' \in [Ends -> EndRecords] /\ ModeInv'
<1>1. PICK r \in EndRecords : SameMode(r, s) /\ end' = [end EXCEPT ![p] = r]
  BY DEF EndChange
<1>2. end' \in [Ends -> EndRecords]
  BY <1>1 DEF Types
<1>3. end'["viewer"] = IF p = "viewer" THEN r ELSE end["viewer"]
  BY <1>1, EndsFacts DEF Types
<1>4. ModeInv'
  BY <1>1, <1>3 DEF ModeInv, BadLinkBeats, ClosingLeavesMode, ModeOK, SameMode
<1> QED
  BY <1>2, <1>4

(* No step but the viewer's own reading takes "connected" from its inbox.      *)
KeepsConnected == Unread("connected", inbox["viewer"]) => Unread("connected", inbox'["viewer"])

LEMMA EndChangeProbe ==
  ASSUME Types, ProbeInv, NEW p \in Ends, NEW s \in EndRecords, EndChange(p, s),
         p = "viewer" => ProbeOK(s), KeepsConnected
  PROVE  ProbeInv'
<1>1. PICK r \in EndRecords : SameMode(r, s) /\ end' = [end EXCEPT ![p] = r]
  BY DEF EndChange
<1>2. end'["viewer"] = IF p = "viewer" THEN r ELSE end["viewer"]
  BY <1>1, EndsFacts DEF Types
<1> QED
  BY <1>1, <1>2 DEF ProbeInv, ProbeOK, SameMode, KeepsConnected

-------------------------------------------------------------------------------
(* Inboxes *)

(* An end answers what it reads, so together the inboxes do not grow by more   *)
(* than a new message; a break and a connection add the events.                *)
Total(f) == Len(f["viewer"]) + Len(f["share"])
LengthInv ==
  /\ link => Total(inbox) <= 2 * MaxInbox + 1
  /\ \A p \in Ends : Len(inbox[p]) <= 2 * MaxInbox + 2

LEMMA InboxFacts ==
  ASSUME Types
  PROVE  /\ MaxInbox \in Nat \ {0}
         /\ \A p \in Ends : inbox[p] \in Seq(Items) /\ Len(inbox[p]) \in Nat
  BY LinkAssumption DEF Types

LEMMA AppendKeeps ==
  ASSUME NEW box \in Seq(Items), NEW msg \in Items, NEW item
  PROVE  /\ Append(box, msg) \in Seq(Items) /\ Len(Append(box, msg)) = Len(box) + 1
         /\ Unread(item, box) => Unread(item, Append(box, msg))
  BY DEF Unread

LEMMA TotalOf ==
  ASSUME NEW f \in [Ends -> Seq(Items)], NEW p \in Ends, NEW q \in Ends, p # q
  PROVE  Total(f) = Len(f[p]) + Len(f[q])
<1>1. Len(f["viewer"]) \in Nat /\ Len(f["share"]) \in Nat
  BY EndsFacts
<1>2. CASE p = "viewer" /\ q = "share"
  BY <1>2 DEF Total
<1>3. CASE p = "share" /\ q = "viewer"
  BY <1>1, <1>3 DEF Total
<1> QED
  BY <1>2, <1>3, EndsFacts

LEMMA TailKeeps ==
  ASSUME NEW box \in Seq(Items), box # <<>>, NEW item
  PROVE  /\ Tail(box) \in Seq(Items) /\ Len(Tail(box)) = Len(box) - 1
         /\ Unread(item, box) /\ Head(box) # item => Unread(item, Tail(box))
<1>1. Tail(box) \in Seq(Items) /\ Len(Tail(box)) = Len(box) - 1 /\ Len(box) > 0
  OBVIOUS
<1>2. ASSUME Unread(item, box), Head(box) # item PROVE Unread(item, Tail(box))
  <2>1. PICK i \in 1 .. Len(box) : box[i] = item
    BY <1>2 DEF Unread
  <2>2. i # 1
    BY <1>2, <2>1
  <2>3. i - 1 \in 1 .. Len(Tail(box)) /\ Tail(box)[i - 1] = box[i]
    BY <1>1, <2>1, <2>2
  <2> QED
    BY <2>1, <2>3 DEF Unread
<1> QED
  BY <1>1, <1>2

(* A message that needs room, or none.                                         *)
BoxSend(q, msg) ==
  \/ inbox' = inbox
  \/ link /\ Room /\ inbox' = [inbox EXCEPT ![q] = Append(@, msg)]

LEMMA BoxSendInv ==
  ASSUME Types, LengthInv, NEW q \in Ends, NEW msg \in Items, BoxSend(q, msg), link' = link
  PROVE  inbox' \in [Ends -> Seq(Items)] /\ LengthInv' /\ KeepsConnected
<1>1. CASE inbox' = inbox
  BY <1>1 DEF Types, LengthInv, KeepsConnected
<1>2. CASE link /\ Room /\ inbox' = [inbox EXCEPT ![q] = Append(@, msg)]
  <2>1. inbox' \in [Ends -> Seq(Items)] /\ KeepsConnected
    BY <1>2, InboxFacts, AppendKeeps, EndsFacts DEF Types, KeepsConnected
  <2>2. \A p \in Ends : Len(inbox[p]) <= MaxInbox - 1
    BY <1>2, InboxFacts DEF Room
  <2>3. \A p \in Ends : Len(inbox'[p]) = IF p = q THEN Len(inbox[p]) + 1 ELSE Len(inbox[p])
    BY <1>2, InboxFacts, AppendKeeps DEF Types
  <2>4. LengthInv'
    <3> DEFINE m == MaxInbox
               v == Len(inbox["viewer"])
               s == Len(inbox["share"])
               v2 == Len(inbox'["viewer"])
               s2 == Len(inbox'["share"])
    <3>1. m \in Nat \ {0} /\ v \in Nat /\ s \in Nat /\ v <= m - 1 /\ s <= m - 1
      BY <2>2, InboxFacts, EndsFacts
    <3>2. (v2 = v + 1 /\ s2 = s) \/ (v2 = v /\ s2 = s + 1)
      BY <2>3, EndsFacts
    <3> HIDE DEF m, v, s, v2, s2
    <3>3. v2 + s2 <= 2 * m + 1 /\ v2 <= 2 * m + 2 /\ s2 <= 2 * m + 2
      BY <3>1, <3>2
    <3> QED
      BY <3>3, EndsFacts DEF LengthInv, Total, m, v2, s2
  <2> QED
    BY <2>1, <2>4
<1> QED
  BY <1>1, <1>2 DEF BoxSend

(* An item is read, and perhaps answered.                                      *)
BoxRead(p, msg) ==
  \/ inbox' = [inbox EXCEPT ![p] = Tail(@)]
  \/ link /\ inbox' = [[inbox EXCEPT ![p] = Tail(@)] EXCEPT ![Other(p)] = Append(@, msg)]

LEMMA BoxReadInv ==
  ASSUME Types, LengthInv, NEW p \in Ends, NEW msg \in Items,
         inbox[p] # <<>>, BoxRead(p, msg), link' = link
  PROVE  /\ inbox' \in [Ends -> Seq(Items)] /\ LengthInv'
         /\ KeepsConnected \/ (p = "viewer" /\ Head(inbox["viewer"]) = "connected")
<1> DEFINE q == Other(p)
<1>1. q \in Ends /\ q # p /\ Ends = {p, q}
  BY EndsFacts
<1>6. inbox' = [inbox EXCEPT ![p] = Tail(@)] \/ (link /\ inbox' = [[inbox EXCEPT ![p] = Tail(@)] EXCEPT ![q] = Append(@, msg)])
  BY DEF BoxRead
<1> HIDE DEF q
<1>2. /\ inbox'[p] = Tail(inbox[p])
      /\ inbox'[q] = inbox[q] \/ (link /\ inbox'[q] = Append(inbox[q], msg))
      /\ inbox' \in [Ends -> Seq(Items)]
  <2>1. inbox[p] \in Seq(Items) /\ inbox[q] \in Seq(Items) /\ Tail(inbox[p]) \in Seq(Items)
    BY <1>1, InboxFacts, TailKeeps
  <2>2. Append(inbox[q], msg) \in Seq(Items)
    BY <2>1, AppendKeeps
  <2>3. CASE inbox' = [inbox EXCEPT ![p] = Tail(@)]
    BY <1>1, <2>1, <2>3 DEF Types
  <2>4. CASE link /\ inbox' = [[inbox EXCEPT ![p] = Tail(@)] EXCEPT ![q] = Append(@, msg)]
    BY <1>1, <2>1, <2>2, <2>4 DEF Types
  <2> QED
    BY <1>6, <2>3, <2>4
<1>3. LengthInv'
  <2> DEFINE m == MaxInbox
             a == Len(inbox[p])
             b == Len(inbox[q])
             a2 == Len(inbox'[p])
             b2 == Len(inbox'[q])
  <2>1. m \in Nat \ {0} /\ a \in Nat /\ b \in Nat
    BY <1>1, InboxFacts
  <2>2. a2 = a - 1 /\ (b2 = b \/ (link /\ b2 = b + 1))
    <3>1. inbox[p] \in Seq(Items) /\ inbox[q] \in Seq(Items)
      BY <1>1, InboxFacts
    <3> QED
      BY <1>2, <3>1, AppendKeeps, TailKeeps
  <2>3. (link => a + b <= 2 * m + 1) /\ a <= 2 * m + 2 /\ b <= 2 * m + 2
    <3>1. Total(inbox) = a + b
      BY <1>1, TotalOf DEF Types
    <3> QED
      BY <1>1, <3>1 DEF LengthInv
  <2> HIDE DEF m, a, b, a2, b2
  <2>4. (link => a2 + b2 <= 2 * m + 1) /\ a2 <= 2 * m + 2 /\ b2 <= 2 * m + 2
    BY <2>1, <2>2, <2>3
  <2>5. Total(inbox') = a2 + b2
    BY <1>1, <1>2, TotalOf DEF a2, b2
  <2> QED
    BY <1>1, <2>4, <2>5 DEF LengthInv, m, a2, b2
<1>4. ASSUME p = "viewer", Head(inbox["viewer"]) # "connected" PROVE KeepsConnected
  <2>1. inbox["viewer"] \in Seq(Items) /\ inbox["viewer"] # <<>>
    BY <1>4, InboxFacts, EndsFacts
  <2> QED
    BY <1>2, <1>4, <2>1, TailKeeps DEF KeepsConnected
<1>5. ASSUME p = "share" PROVE KeepsConnected
  <2>1. q = "viewer" /\ inbox["viewer"] \in Seq(Items)
    BY <1>1, <1>5, InboxFacts, EndsFacts
  <2> QED
    BY <1>2, <2>1, AppendKeeps DEF KeepsConnected
<1> QED
  BY <1>2, <1>3, <1>4, <1>5, EndsFacts

(* A break keeps every event, and adds one.                                    *)
LEMMA BreakKeeps ==
  ASSUME NEW box \in Seq(Items), NEW k \in Nat, NEW p, Remains(p, box, k), NEW e \in Items
  PROVE  /\ Append(SubSeq(box, 1, k), e) \in Seq(Items)
         /\ Len(Append(SubSeq(box, 1, k), e)) = k + 1 /\ k <= Len(box)
         /\ Unread("connected", box) => Unread("connected", Append(SubSeq(box, 1, k), e))
<1> DEFINE part == SubSeq(box, 1, k)
<1>1. k <= Len(box) /\ \A i \in k + 1 .. Len(box) : box[i] \notin SystemEvents
  BY DEF Remains
<1>2. part \in Seq(Items) /\ Len(part) = k /\ \A i \in 1 .. k : part[i] = box[i]
  BY <1>1, SubSeqProperties
<1> HIDE DEF part
<1>3. Append(part, e) \in Seq(Items) /\ Len(Append(part, e)) = k + 1
  BY <1>2
<1>4. ASSUME Unread("connected", box) PROVE Unread("connected", part)
  <2>1. PICK i \in 1 .. Len(box) : box[i] = "connected"
    BY <1>4 DEF Unread
  <2>2. i \in 1 .. k
    BY <1>1, <2>1 DEF SystemEvents
  <2> QED
    BY <1>2, <2>1, <2>2 DEF Unread
<1>5. Unread("connected", part) => Unread("connected", Append(part, e))
  BY <1>2, AppendKeeps
<1> QED
  BY <1>1, <1>3, <1>4, <1>5 DEF part

-------------------------------------------------------------------------------
(* The actions.  First those that set one record and may send one message.     *)

Inv == Types /\ ModeInv /\ ProbeInv /\ LengthInv

LEMMA InitInv == Init => Inv
<1> SUFFICES ASSUME Init PROVE Inv
  OBVIOUS
<1>1. inbox \in [Ends -> Seq(Items)] /\ inbox["viewer"] = <<>> /\ inbox["share"] = <<>>
  <2>1. inbox = [p \in Ends |-> <<>>]
    BY DEF Init
  <2>2. <<>> \in Seq(Items)
    OBVIOUS
  <2> QED
    BY <2>1, <2>2, EndsFacts
<1>2. end \in [Ends -> EndRecords] /\ end["viewer"].start_requested = FALSE
      /\ end["viewer"].bad_link_mode = FALSE /\ end["viewer"].heartbeat = FALSE
  BY EndsFacts DEF Init, EndRecords
<1>3. link \in BOOLEAN /\ breaks \in 0 .. MaxBreaks
  <2>1. link \in BOOLEAN
    BY DEF Init
  <2>2. breaks \in 0 .. MaxBreaks
    <3>1. breaks = 0
      BY DEF Init
    <3> QED
      BY <3>1, LinkAssumption
  <2> QED
    BY <2>1, <2>2
<1>4. LengthInv
  <2>1. Len(<<>>) = 0 /\ link = FALSE
    BY DEF Init
  <2> QED
    BY <1>1, <2>1, LinkAssumption, EndsFacts DEF LengthInv
<1>5. ModeInv /\ ProbeInv
  BY <1>2 DEF ModeInv, BadLinkBeats, ClosingLeavesMode, ProbeInv
<1> QED
  BY <1>1, <1>2, <1>3, <1>4, <1>5 DEF Inv, Types

LEMMA SendStep ==
  ASSUME Inv, UNCHANGED <<link, breaks>>, NEW p \in Ends, NEW s \in EndRecords, EndChange(p, s),
         p = "viewer" => ModeOK(s) /\ ProbeOK(s),
         NEW q \in Ends, NEW msg \in Items, BoxSend(q, msg)
  PROVE  Inv'
<1>1. end' \in [Ends -> EndRecords] /\ ModeInv'
  BY EndChangeMode DEF Inv
<1>2. inbox' \in [Ends -> Seq(Items)] /\ LengthInv' /\ KeepsConnected
  BY BoxSendInv DEF Inv
<1>3. ProbeInv'
  BY <1>2, EndChangeProbe DEF Inv
<1> QED
  BY <1>1, <1>2, <1>3 DEF Inv, Types

LEMMA SendEffects ==
  ASSUME Inv, NEW p \in Ends, NEW s \in EndRecords, NEW msg \in Items, NEW active \in BOOLEAN,
         NEW force, Sends(p, s, msg) \/ SendsBadLink(p, s, active, force)
  PROVE  EndChange(p, s) /\ \E q \in Ends, m \in Items : BoxSend(q, m)
<1>1. EndChange(p, s)
  BY SendsEnd DEF Inv, EndChange
<1>2. Other(p) \in Ends /\ "bad-link" \in Items /\ "bad-link-clear" \in Items
  BY EndsFacts DEF Items, Messages
<1>3. ASSUME Sends(p, s, msg) PROVE BoxSend(Other(p), msg)
  BY <1>3 DEF Sends, Transmit, BoxSend
<1>4. ASSUME SendsBadLink(p, s, active, force)
      PROVE  BoxSend(Other(p), IF active THEN "bad-link" ELSE "bad-link-clear")
  BY <1>4 DEF SendsBadLink, Transmit, BoxSend
<1> QED
  BY <1>1, <1>2, <1>3, <1>4

LEMMA SetsOnly ==
  ASSUME Inv, UNCHANGED <<link, inbox, breaks>>, NEW p \in Ends, NEW s \in EndRecords,
         end' = [end EXCEPT ![p] = s], p = "viewer" => ModeOK(s) /\ ProbeOK(s)
  PROVE  Inv'
<1>1. EndChange(p, s)
  BY Unchanged DEF EndChange
<1>2. BoxSend(p, "join") /\ "join" \in Items
  BY DEF BoxSend, Items, Messages
<1> QED
  BY <1>1, <1>2, SendStep

(* The viewer enters and leaves the mode, and repeats it.                      *)
LEMMA ModeStep ==
  ASSUME Inv, ReceptionIsPoor \/ ReceptionIsGood \/ ShareEvaluates \/ HeartbeatTick
  PROVE  Inv'
<1> DEFINE v == end["viewer"]
<1>0. /\ v \in EndRecords /\ ModeOK(v) /\ ProbeOK(v) /\ "viewer" \in Ends /\ "share" \in Ends
      /\ end["share"] \in EndRecords
  BY OldRecords, EndsFacts DEF Inv
<1>1. CASE ReceptionIsPoor
  <2> DEFINE s == [v EXCEPT !.bad_link_mode = TRUE, !.hold = TRUE, !.heartbeat = TRUE]
  <2>1. s \in EndRecords /\ ModeOK(s) /\ ProbeOK(s)
    BY <1>0, <1>1 DEF ReceptionIsPoor, EndRecords, ModeOK, ProbeOK
  <2>2. \/ end' = [end EXCEPT !["viewer"] = s] /\ UNCHANGED inbox
        \/ SendsBadLink("viewer", s, TRUE, FALSE)
    BY <1>1 DEF ReceptionIsPoor, Enters
  <2>3. UNCHANGED <<link, breaks>>
    BY <1>1 DEF ReceptionIsPoor
  <2> HIDE DEF s
  <2> QED
    BY <1>0, <2>1, <2>2, <2>3, SetsOnly, SendEffects, SendStep DEF Items, Messages
<1>2. CASE ReceptionIsGood
  <2> DEFINE s == [v EXCEPT !.bad_link_mode = FALSE, !.heartbeat = FALSE]
  <2>1. s \in EndRecords /\ ModeOK(s) /\ ProbeOK(s)
    BY <1>0 DEF EndRecords, ModeOK, ProbeOK
  <2>2. SendsBadLink("viewer", s, FALSE, FALSE) /\ UNCHANGED <<link, breaks>>
    BY <1>2 DEF ReceptionIsGood, Leaves
  <2> HIDE DEF s
  <2> QED
    BY <1>0, <2>1, <2>2, SendEffects, SendStep DEF Items, Messages
<1>3. CASE ShareEvaluates
  <2> DEFINE s == [end["share"] EXCEPT !.bad_link_mode = FALSE, !.heartbeat = FALSE]
  <2>1. s \in EndRecords
    BY <1>0 DEF EndRecords
  <2>2. SendsBadLink("share", s, FALSE, FALSE) /\ UNCHANGED <<link, breaks>>
    BY <1>3 DEF ShareEvaluates, ShareLeaves, Leaves
  <2> HIDE DEF s
  <2> QED
    BY <1>0, <2>1, <2>2, SendEffects, SendStep DEF Items, Messages
<1>4. CASE HeartbeatTick
  <2>1. CASE v.bad_link_mode /\ v.start_requested
    <3>1. SendsBadLink("viewer", v, TRUE, TRUE) /\ UNCHANGED <<link, breaks>>
      BY <1>4, <2>1 DEF HeartbeatTick, Beats
    <3> HIDE DEF v
    <3> QED
      BY <1>0, <3>1, SendEffects, SendStep DEF Items, Messages
  <2>2. CASE ~(v.bad_link_mode /\ v.start_requested)
    <3> DEFINE s == [v EXCEPT !.heartbeat = FALSE]
    <3>1. s \in EndRecords /\ ModeOK(s) /\ ProbeOK(s)
      BY <1>0, <2>2 DEF EndRecords, ModeOK, ProbeOK
    <3>2. end' = [end EXCEPT !["viewer"] = s] /\ UNCHANGED <<link, inbox, breaks>>
      BY <1>0, <1>4, <2>2 DEF HeartbeatTick, Inv, Types
    <3> HIDE DEF s
    <3> QED
      BY <1>0, <3>1, <3>2, SetsOnly
  <2> QED
    BY <2>1, <2>2
<1> QED
  BY <1>1, <1>2, <1>3, <1>4

(* The users' starts and the end of the capture.                               *)
LEMMA UserStep ==
  ASSUME Inv, \/ \E p \in Ends : HoldLapses(p) \/ Connects(p)
              \/ ViewerStarts \/ ViewerProbed \/ ViewerReconnects
              \/ ShareStarts \/ SharePipelineStarted \/ TrackEnds
  PROVE  Inv'
<1> DEFINE v == end["viewer"]
           h == end["share"]
<1>0. /\ v \in EndRecords /\ ModeOK(v) /\ ProbeOK(v) /\ "viewer" \in Ends /\ "share" \in Ends
      /\ h \in EndRecords /\ "join" \in Items /\ "share-ended" \in Items
      /\ end \in [Ends -> EndRecords]
  BY OldRecords, EndsFacts DEF Inv, Types, Items, Messages
<1>1. ASSUME NEW p \in Ends, HoldLapses(p) PROVE Inv'
  <2> DEFINE s == [end[p] EXCEPT !.hold = FALSE]
  <2>1. s \in EndRecords /\ (p = "viewer" => ModeOK(s) /\ ProbeOK(s))
    BY <1>0 DEF EndRecords, ModeOK, ProbeOK
  <2>2. end' = [end EXCEPT ![p] = s] /\ UNCHANGED <<link, inbox, breaks>>
    BY <1>0, <1>1 DEF HoldLapses
  <2> HIDE DEF s
  <2> QED
    BY <2>1, <2>2, SetsOnly
<1>2. ASSUME NEW p \in Ends, Connects(p) PROVE Inv'
  <2> DEFINE s == [end[p] EXCEPT !.ready = TRUE]
  <2>1. s \in EndRecords /\ (p = "viewer" => ModeOK(s) /\ ProbeOK(s))
    BY <1>0 DEF EndRecords, ModeOK, ProbeOK
  <2>2. end' = [end EXCEPT ![p] = s] /\ UNCHANGED <<link, inbox, breaks>>
    BY <1>0, <1>2 DEF Connects
  <2> HIDE DEF s
  <2> QED
    BY <2>1, <2>2, SetsOnly
<1>3. CASE ViewerStarts
  <2> DEFINE opened == v.signal_connected /\ v.media_open
             s == [Restarted(v) EXCEPT !.starting = opened, !.cc_timer = @ \/ opened]
  <2>1. s \in EndRecords /\ ModeOK(s) /\ ProbeOK(s)
    <3> DEFINE r == Restarted(v)
    <3>1. /\ r \in EndRecords /\ r.start_requested /\ ~r.bad_link_mode /\ ~r.heartbeat
          /\ r.signal_connected = v.signal_connected /\ r.media_open = v.media_open
      BY <1>0 DEF Restarted, BadLinkReset, EndRecords
    <3> HIDE DEF r
    <3>2. CASE opened
      <4>1. s = [r EXCEPT !.starting = TRUE, !.cc_timer = TRUE]
        BY <3>1, <3>2 DEF r, EndRecords
      <4> QED
        BY <3>1, <4>1 DEF EndRecords, ModeOK, ProbeOK
    <3>3. CASE ~opened
      <4>1. s = [r EXCEPT !.starting = FALSE]
        BY <3>1, <3>3 DEF r, EndRecords
      <4> QED
        BY <3>1, <3>3, <4>1 DEF EndRecords, ModeOK, ProbeOK
    <3> QED
      BY <3>2, <3>3
  <2>2. end' = [end EXCEPT !["viewer"] = s] /\ UNCHANGED <<link, inbox, breaks>>
    BY <1>3 DEF ViewerStarts
  <2> HIDE DEF s
  <2> QED
    BY <1>0, <2>1, <2>2, SetsOnly
<1>7. CASE ViewerProbed
  <2> DEFINE s == [v EXCEPT !.starting = FALSE]
  <2>1. s \in EndRecords /\ ModeOK(s) /\ ProbeOK(s)
    BY <1>0 DEF EndRecords, ModeOK, ProbeOK
  <2>2. /\ UNCHANGED <<link, breaks>>
        /\ \/ Sends("viewer", s, "join")
           \/ end' = [end EXCEPT !["viewer"] = s] /\ UNCHANGED inbox
    BY <1>7 DEF ViewerProbed
  <2> HIDE DEF s
  <2> QED
    BY <1>0, <2>1, <2>2, SetsOnly, SendEffects, SendStep
<1>8. CASE ViewerReconnects
  <2> DEFINE s == [v EXCEPT !.signal_connected = FALSE, !.media_open = FALSE]
  <2>1. s \in EndRecords /\ ModeOK(s) /\ ProbeOK(s)
    BY <1>0 DEF EndRecords, ModeOK, ProbeOK
  <2>2. end' = [end EXCEPT !["viewer"] = s] /\ UNCHANGED <<link, inbox, breaks>>
    BY <1>0, <1>8 DEF ViewerReconnects
  <2> HIDE DEF s
  <2> QED
    BY <1>0, <2>1, <2>2, SetsOnly
<1>4. CASE ShareStarts
  <2> DEFINE s == [Restarted(h) EXCEPT !.starting = h.ready]
  <2>1. s \in EndRecords
    BY <1>0 DEF Restarted, BadLinkReset, EndRecords
  <2>2. end' = [end EXCEPT !["share"] = s] /\ UNCHANGED <<link, inbox, breaks>>
    BY <1>0, <1>4 DEF ShareStarts
  <2> HIDE DEF s
  <2> QED
    BY <1>0, <2>1, <2>2, SetsOnly
<1>5. CASE SharePipelineStarted
  <2> DEFINE s == [h EXCEPT !.starting = FALSE]
             c == [s EXCEPT !.cc_timer = TRUE]
  <2>1. s \in EndRecords /\ c \in EndRecords
    BY <1>0 DEF EndRecords
  <2>2. /\ UNCHANGED <<link, breaks>>
        /\ \/ Sends("share", c, "join")
           \/ end' = [end EXCEPT !["share"] = s] /\ UNCHANGED inbox
    BY <1>5 DEF SharePipelineStarted
  <2> HIDE DEF s, c
  <2> QED
    BY <1>0, <2>1, <2>2, SetsOnly, SendEffects, SendStep
<1>6. CASE TrackEnds
  <2> DEFINE s == [h EXCEPT !.start_requested = FALSE]
  <2>1. s \in EndRecords
    BY <1>0 DEF EndRecords
  <2>2. end' = [end EXCEPT !["share"] = s] /\ UNCHANGED <<link, breaks>>
    BY <1>0, <1>6 DEF TrackEnds
  <2>3. BoxSend("viewer", "share-ended")
    BY <1>6, EndsFacts DEF TrackEnds, Transmit, BoxSend
  <2> HIDE DEF s
  <2>4. EndChange("share", s)
    BY <2>1, <2>2, Unchanged DEF EndChange
  <2> QED
    BY <1>0, <2>1, <2>2, <2>3, <2>4, SendStep
<1> QED
  BY <1>1, <1>2, <1>3, <1>4, <1>5, <1>6, <1>7, <1>8

(* The handlers of an inbox.                                                   *)
LEMMA ReadStep ==
  ASSUME Inv, UNCHANGED <<link, breaks>>, NEW p \in Ends, inbox[p] # <<>>,
         NEW s \in EndRecords, EndChange(p, s), NEW msg \in Items, BoxRead(p, msg),
         p = "viewer" => ModeOK(s) /\ (s.start_requested /\ s.signal_connected =>
           s.cc_timer \/ (Head(inbox["viewer"]) # "connected" /\ ProbeOK(s)))
  PROVE  Inv'
<1>1. end' \in [Ends -> EndRecords] /\ ModeInv'
  BY EndChangeMode DEF Inv
<1>2. /\ inbox' \in [Ends -> Seq(Items)] /\ LengthInv'
      /\ KeepsConnected \/ (p = "viewer" /\ Head(inbox["viewer"]) = "connected")
  BY BoxReadInv DEF Inv
<1>3. ProbeInv'
  <2>1. CASE KeepsConnected
    <3>1. p = "viewer" => ProbeOK(s)
      BY DEF ProbeOK
    <3> QED
      BY <2>1, <3>1, EndChangeProbe DEF Inv
  <2>2. CASE p = "viewer" /\ Head(inbox["viewer"]) = "connected"
    <3>1. PICK r \in EndRecords : SameMode(r, s) /\ end' = [end EXCEPT !["viewer"] = r]
      BY <2>2 DEF EndChange
    <3>2. end'["viewer"] = r
      BY <3>1, EndsFacts DEF Inv, Types
    <3> QED
      BY <2>2, <3>1, <3>2 DEF ProbeInv, SameMode
  <2> QED
    BY <1>2, <2>1, <2>2
<1> QED
  BY <1>1, <1>2, <1>3 DEF Inv, Types

LEMMA AnswerEffects ==
  ASSUME Inv, NEW p \in Ends, NEW s \in EndRecords, NEW msg \in Items,
         Answers(p, s, msg) \/ Becomes(p, s)
  PROVE  EndChange(p, s) /\ BoxRead(p, msg)
<1>1. EndChange(p, s)
  BY SendsEnd DEF Inv, EndChange
<1>2. BoxRead(p, msg)
  BY DEF Answers, Becomes, BoxRead, Handled
<1> QED
  BY <1>1, <1>2

LEMMA HandleStep ==
  ASSUME Inv, NEW p \in Ends, Handle(p)
  PROVE  Inv'
<1> DEFINE e == end[p]
           item == Head(inbox[p])
<1>1. /\ e \in EndRecords /\ (p = "viewer" => ModeOK(e) /\ ProbeOK(e)) /\ "join" \in Items
      /\ inbox[p] # <<>> /\ UNCHANGED <<link, breaks>>
      /\ (p = "viewer" \/ p = "share") /\ (p = "viewer" => item = Head(inbox["viewer"]))
  BY OldRecords, EndsFacts DEF Inv, Items, Messages, Handle
<1>2. ASSUME NEW s \in EndRecords, Answers(p, s, "join") \/ Becomes(p, s),
             p = "viewer" => ModeOK(s) /\ (s.start_requested /\ s.signal_connected =>
               s.cc_timer \/ (item # "connected" /\ ProbeOK(s)))
      PROVE  Inv'
  BY <1>1, <1>2, AnswerEffects, ReadStep
<1> HIDE DEF e
<1>3. CASE item = "join" /\ OnJoin(p)
  <2> DEFINE s == [e EXCEPT !.cc_timer = @ \/ e.start_requested]
  <2>1. s \in EndRecords /\ (p = "viewer" => ModeOK(s) /\ ProbeOK(s))
    BY <1>1 DEF EndRecords, ModeOK, ProbeOK
  <2>2. IF p = "share" THEN Answers(p, e, "join") ELSE Becomes(p, s)
    BY <1>3 DEF OnJoin, e
  <2> HIDE DEF s
  <2> QED
    BY <1>1, <1>2, <1>3, <2>1, <2>2
<1>4. CASE item = "share-ended" /\ OnShareEnded(p)
  <2> DEFINE s == ShareEndedSeen(e)
  <2>1. s \in EndRecords /\ ModeOK(s) /\ ProbeOK(s)
    BY <1>1 DEF EndRecords, ModeOK, ProbeOK, ShareEndedSeen, BadLinkReset
  <2>2. Becomes(p, IF p = "viewer" THEN s ELSE e)
    BY <1>4 DEF OnShareEnded, e
  <2> HIDE DEF s
  <2> QED
    BY <1>1, <1>2, <1>4, <2>1, <2>2
<1>5. CASE item # "connected" /\ \E active \in BOOLEAN : OnBadLink(p, active)
  <2>1. PICK active \in BOOLEAN : OnBadLink(p, active)
    BY <1>5
  <2> DEFINE s == [e EXCEPT !.bad_link_mode = active, !.hold = active]
  <2>2. s \in EndRecords
    BY <1>1 DEF EndRecords
  <2>3. Becomes(p, IF p = "share" THEN s ELSE e)
    BY <2>1 DEF OnBadLink, e
  <2> HIDE DEF s
  <2> QED
    BY <1>1, <1>2, <1>5, <2>2, <2>3
<1>6. CASE item = "connected" /\ OnConnected(p)
  <2> DEFINE s == [e EXCEPT !.signal_connected = TRUE,
                            !.cc_timer = @ \/ (p = "viewer" /\ e.start_requested)]
  <2>1. s \in EndRecords /\ (p = "viewer" => ModeOK(s) /\ (s.start_requested => s.cc_timer))
    BY <1>1 DEF EndRecords, ModeOK
  <2>2. Answers(p, s, "join")
    BY <1>6 DEF OnConnected, e
  <2> HIDE DEF s
  <2> QED
    BY <1>1, <1>2, <2>1, <2>2
<1>7. CASE item = "disconnected" /\ OnDisconnected(p)
  <2> DEFINE s == [e EXCEPT !.signal_connected = FALSE]
  <2>1. s \in EndRecords /\ (p = "viewer" => ModeOK(s) /\ ProbeOK(s))
    BY <1>1 DEF EndRecords, ModeOK, ProbeOK
  <2>2. Becomes(p, s)
    BY <1>7 DEF OnDisconnected, e
  <2> HIDE DEF s
  <2> QED
    BY <1>1, <1>2, <1>7, <2>1, <2>2
<1> QED
  BY <1>3, <1>4, <1>5, <1>6, <1>7 DEF Handle

(* Breaks, disconnects and connections.                                        *)
LEMMA LinkedBound ==
  ASSUME Inv, link, NEW p \in Ends
  PROVE  Len(inbox[p]) <= 2 * MaxInbox + 1
<1> DEFINE q == Other(p)
           a == Len(inbox[p])
           b == Len(inbox[q])
           m == 2 * MaxInbox + 1
<1>1. q \in Ends /\ q # p
  BY EndsFacts
<1>2. a \in Nat /\ b \in Nat /\ m \in Nat
  BY <1>1, InboxFacts DEF Inv
<1>3. Total(inbox) = a + b
  BY <1>1, TotalOf DEF Inv, Types
<1>4. Total(inbox) <= m
  BY DEF Inv, LengthInv
<1> HIDE DEF a, b, m
<1>5. a <= m
  BY <1>2, <1>3, <1>4
<1> QED
  BY <1>5 DEF a, m

LEMMA LinkBreaksInv == Inv /\ LinkBreaks => Inv'
<1> SUFFICES ASSUME Inv, LinkBreaks PROVE Inv'
  OBVIOUS
<1>1. PICK kept \in [Ends -> 0 .. 2 * MaxInbox + 2] :
        /\ \A p \in Ends : Remains(p, inbox[p], kept[p])
        /\ inbox' = [p \in Ends |-> Append(SubSeq(inbox[p], 1, kept[p]), "disconnected")]
  BY DEF LinkBreaks
<1>2. \A p \in Ends : /\ inbox[p] \in Seq(Items) /\ kept[p] \in Nat /\ kept[p] <= 2 * MaxInbox + 2
                      /\ Remains(p, inbox[p], kept[p]) /\ "disconnected" \in Items
  BY <1>1, InboxFacts DEF Inv, Items, SystemEvents
<1>3. inbox' \in [Ends -> Seq(Items)]
  BY <1>1, <1>2, BreakKeeps
<1>4. KeepsConnected
  BY <1>1, <1>2, BreakKeeps, EndsFacts DEF KeepsConnected
<1>5. LengthInv'
  <2>1. link' = FALSE /\ link = TRUE
    BY DEF LinkBreaks, Inv, Types
  <2>2. SUFFICES ASSUME NEW p \in Ends PROVE Len(inbox'[p]) <= 2 * MaxInbox + 2
    BY <2>1 DEF LengthInv
  <2>3. Len(inbox'[p]) = kept[p] + 1 /\ kept[p] <= Len(inbox[p])
    BY <1>1, <1>2, BreakKeeps
  <2>4. Len(inbox[p]) <= 2 * MaxInbox + 1
    BY <2>1, LinkedBound
  <2> QED
    BY <1>2, <2>3, <2>4, InboxFacts DEF Inv
<1>6. end' = end /\ breaks' \in 0 .. MaxBreaks /\ link' \in BOOLEAN
  <2>1. breaks' \in 0 .. MaxBreaks
    BY LinkAssumption DEF LinkBreaks, Breaks, Inv, Types
  <2> QED
    BY <2>1 DEF LinkBreaks
<1>7. ModeInv' /\ ProbeInv'
  BY <1>4, <1>6 DEF Inv, ModeInv, BadLinkBeats, ClosingLeavesMode, ProbeInv, KeepsConnected
<1> QED
  BY <1>3, <1>5, <1>6, <1>7 DEF Inv, Types

LEMMA DisconnectsInv ==
  ASSUME Inv, NEW p \in Ends, Disconnects(p)
  PROVE  Inv'
<1> DEFINE q == Other(p)
           s == [BadLinkReset(end[p]) EXCEPT !.ready = FALSE, !.closing = TRUE,
                   !.signal_connected = FALSE, !.media_open = FALSE, !.cc_timer = FALSE]
           farewell == IF p = "share" /\ end[p].start_requested /\ end[p].signal_connected
                       THEN Append(inbox[q], "share-ended") ELSE inbox[q]
<1>1. /\ q \in Ends /\ q # p /\ inbox[q] \in Seq(Items) /\ end[p] \in EndRecords
      /\ "share-ended" \in Items /\ "disconnected" \in Items
  BY InboxFacts, EndsFacts DEF Inv, Types, Items, Messages, SystemEvents
<1>2. /\ farewell \in Seq(Items) /\ Len(farewell) <= Len(inbox[q]) + 1
      /\ farewell = inbox[q] \/ Len(farewell) = Len(inbox[q]) + 1
      /\ Unread("connected", inbox[q]) => Unread("connected", farewell)
  BY <1>1, AppendKeeps
<1>3. s \in EndRecords /\ ModeOK(s) /\ ProbeOK(s)
  BY <1>1 DEF EndRecords, ModeOK, ProbeOK, BadLinkReset
<1>4. /\ link' = FALSE /\ end' = [end EXCEPT ![p] = s] /\ breaks' = breaks + 1
      /\ breaks < MaxBreaks /\ (farewell = inbox[q] \/ Room)
  BY DEF Disconnects, Breaks
<1>5. PICK k \in 0 .. 2 * MaxInbox + 2 :
        /\ Remains(q, farewell, k)
        /\ inbox' = IF link THEN [inbox EXCEPT ![q] = Append(SubSeq(farewell, 1, k), "disconnected")]
                    ELSE inbox
  BY DEF Disconnects
<1> HIDE DEF q, s, farewell
<1>6. /\ Append(SubSeq(farewell, 1, k), "disconnected") \in Seq(Items)
      /\ Len(Append(SubSeq(farewell, 1, k), "disconnected")) = k + 1 /\ k <= Len(farewell)
      /\ Unread("connected", farewell)
           => Unread("connected", Append(SubSeq(farewell, 1, k), "disconnected"))
  BY <1>1, <1>2, <1>5, BreakKeeps, LinkAssumption
<1>7. inbox' \in [Ends -> Seq(Items)]
  BY <1>1, <1>5, <1>6 DEF Inv, Types
<1>8. KeepsConnected
  BY <1>1, <1>2, <1>5, <1>6, EndsFacts DEF KeepsConnected, Inv, Types
<1>9. LengthInv'
  <2>1. Len(inbox'[q]) <= 2 * MaxInbox + 2
    <3>1. CASE ~link
      BY <1>1, <1>5, <3>1 DEF Inv, LengthInv
    <3>2. CASE link
      <4>1. Len(inbox'[q]) = k + 1 /\ Len(inbox[q]) \in Nat /\ MaxInbox \in Nat \ {0}
        BY <1>1, <1>5, <1>6, <3>2, InboxFacts DEF Inv, Types
      <4>2. Len(farewell) <= 2 * MaxInbox + 1
        <5>1. CASE Room
          BY <1>1, <1>2, <4>1, <5>1 DEF Room
        <5>2. CASE farewell = inbox[q]
          BY <1>1, <3>2, <5>2, LinkedBound
        <5> QED
          BY <1>4, <5>1, <5>2
      <4> QED
        BY <1>2, <1>6, <4>1, <4>2
    <3> QED
      BY <3>1, <3>2
  <2>2. Len(inbox'[p]) <= 2 * MaxInbox + 2
    BY <1>1, <1>5 DEF Inv, Types, LengthInv
  <2> QED
    BY <1>1, <1>4, <2>1, <2>2, EndsFacts DEF LengthInv
<1>10. EndChange(p, s)
  BY <1>3, <1>4, Unchanged DEF EndChange
<1>11. end' \in [Ends -> EndRecords] /\ ModeInv' /\ ProbeInv'
  BY <1>3, <1>8, <1>10, EndChangeMode, EndChangeProbe DEF Inv
<1>12. breaks' \in 0 .. MaxBreaks
  BY <1>4, LinkAssumption DEF Inv, Types
<1> QED
  BY <1>4, <1>7, <1>9, <1>11, <1>12 DEF Inv, Types

LEMMA DisconnectEndsInv ==
  ASSUME Inv, NEW p \in Ends, DisconnectEnds(p)
  PROVE  Inv'
<1> DEFINE s == [end[p] EXCEPT !.closing = FALSE, !.start_requested = FALSE]
<1>1. /\ end[p] \in EndRecords /\ end[p].closing
      /\ p = "viewer" => ~end[p].bad_link_mode /\ ~end[p].heartbeat
  BY DEF DisconnectEnds, Inv, Types, ModeInv, ClosingLeavesMode, BadLinkBeats
<1>2. s \in EndRecords /\ (p = "viewer" => ModeOK(s)) /\ s.start_requested = FALSE
  BY <1>1 DEF EndRecords, ModeOK
<1>3. end' = [end EXCEPT ![p] = s] /\ UNCHANGED <<link, breaks>>
      /\ inbox' = [inbox EXCEPT ![p] = <<>>]
  BY <1>1 DEF DisconnectEnds, Inv, Types
<1> HIDE DEF s
<1>4. EndChange(p, s)
  BY <1>2, <1>3, Unchanged DEF EndChange
<1>5. end' \in [Ends -> EndRecords] /\ ModeInv'
  BY <1>2, <1>4, EndChangeMode DEF Inv
<1>6. inbox' \in [Ends -> Seq(Items)]
  <2>1. <<>> \in Seq(Items)
    OBVIOUS
  <2> QED
    BY <1>3, <2>1 DEF Inv, Types
<1>7. ProbeInv'
  <2>1. CASE p = "viewer"
    BY <1>2, <1>3, <2>1 DEF ProbeInv, Inv, Types
  <2>2. CASE p = "share"
    <3>1. KeepsConnected
      BY <1>3, <2>2, EndsFacts DEF KeepsConnected, Inv, Types
    <3> QED
      BY <1>2, <1>4, <2>2, <3>1, EndChangeProbe DEF Inv
  <2> QED
    BY <2>1, <2>2, EndsFacts
<1>8. LengthInv'
  <2> DEFINE q == Other(p)
  <2>1. q \in Ends /\ q # p /\ \A r \in Ends : r = p \/ r = q
    BY EndsFacts
  <2> HIDE DEF q
  <2>2. inbox'[q] = inbox[q] /\ Len(inbox'[p]) = 0 /\ Len(inbox[q]) \in Nat /\ MaxInbox \in Nat
    BY <1>3, <2>1, InboxFacts DEF Inv, Types
  <2>3. \A r \in Ends : Len(inbox'[r]) <= 2 * MaxInbox + 2
    BY <2>1, <2>2 DEF Inv, LengthInv
  <2>4. link => Total(inbox') <= 2 * MaxInbox + 1
    <3>1. Total(inbox') = 0 + Len(inbox[q])
      BY <1>6, <2>1, <2>2, TotalOf
    <3> QED
      BY <2>1, <2>2, <3>1, LinkedBound
  <2> QED
    BY <1>3, <2>3, <2>4 DEF LengthInv
<1> QED
  BY <1>3, <1>5, <1>6, <1>7, <1>8 DEF Inv, Types

LEMMA LinkOpensInv == Inv /\ LinkOpens => Inv'
<1> SUFFICES ASSUME Inv, LinkOpens PROVE Inv'
  OBVIOUS
<1> DEFINE s == [end["viewer"] EXCEPT !.signal_connected = TRUE, !.media_open = TRUE]
           box == inbox["share"] \o <<"connected", "join">>
<1>1. end["viewer"] \in EndRecords /\ ModeOK(end["viewer"])
  BY OldRecords, EndsFacts DEF Inv
<1>2. s \in EndRecords /\ ModeOK(s)
  BY <1>1 DEF EndRecords, ModeOK
<1>3. end' = [end EXCEPT !["viewer"] = s] /\ link' = TRUE /\ breaks' = breaks
      /\ inbox' = [inbox EXCEPT !["viewer"] = <<"connected">>, !["share"] = box] /\ Len(inbox["share"]) < MaxInbox
  BY EndsFacts DEF LinkOpens, Room, Inv, Types
<1> HIDE DEF s
<1>4. EndChange("viewer", s)
  BY <1>2, <1>3, Unchanged DEF EndChange
<1>5. end' \in [Ends -> EndRecords] /\ ModeInv'
  BY <1>2, <1>4, EndChangeMode, EndsFacts DEF Inv
<1>6. /\ box \in Seq(Items) /\ Len(box) = Len(inbox["share"]) + 2
      /\ <<"connected">> \in Seq(Items) /\ Len(<<"connected">>) = 1 /\ <<"connected">>[1] = "connected"
  BY InboxFacts, EndsFacts DEF Inv, Items, Messages, SystemEvents
<1> HIDE DEF box
<1>7. inbox' \in [Ends -> Seq(Items)] /\ inbox'["viewer"] = <<"connected">> /\ inbox'["share"] = box
  BY <1>3, <1>6, EndsFacts DEF Inv, Types
<1>8. ProbeInv'
  <2>1. Unread("connected", inbox'["viewer"])
    BY <1>6, <1>7 DEF Unread
  <2> QED
    BY <2>1 DEF ProbeInv
<1>9. LengthInv'
  <2>1. MaxInbox \in Nat \ {0} /\ Len(inbox["share"]) \in Nat
    BY InboxFacts, EndsFacts DEF Inv
  <2> QED
    <3> DEFINE v == Len(inbox'["viewer"])
               s2 == Len(inbox'["share"])
               m == MaxInbox
    <3>1. v = 1 /\ s2 <= m + 1 /\ m \in Nat \ {0} /\ s2 \in Nat
      <4> DEFINE n == Len(inbox["share"])
      <4>1. v = 1 /\ s2 = n + 2
        BY <1>6, <1>7
      <4>2. n < m
        BY <1>3
      <4>3. n \in Nat /\ m \in Nat \ {0}
        BY <2>1
      <4> HIDE DEF n, v, s2, m
      <4> QED
        BY <4>1, <4>2, <4>3
    <3> HIDE DEF v, s2, m
    <3>2. v + s2 <= 2 * m + 1 /\ v <= 2 * m + 2 /\ s2 <= 2 * m + 2
      BY <3>1
    <3> QED
      BY <3>2, EndsFacts DEF LengthInv, Total, v, s2, m
<1> QED
  BY <1>3, <1>5, <1>7, <1>8, <1>9 DEF Inv, Types

LEMMA StepInv == Inv /\ [Next]_vars => Inv'
<1> SUFFICES ASSUME Inv, [Next]_vars PROVE Inv'
  OBVIOUS
<1>1. CASE UNCHANGED vars
  BY <1>1 DEF vars, Inv, Types, ModeInv, BadLinkBeats, ClosingLeavesMode, ProbeInv, Unread,
              LengthInv, Total
<1>2. CASE Next
  BY <1>2, ModeStep, UserStep, HandleStep, LinkBreaksInv, DisconnectsInv, DisconnectEndsInv,
     LinkOpensInv DEF Next
<1> QED
  BY <1>1, <1>2

LEMMA InvariantHolds == Spec => []Inv
<1>1. Init => Inv
  BY InitInv
<1>2. Inv /\ [Next]_vars => Inv'
  BY StepInv
<1> QED
  BY <1>1, <1>2, PTL DEF Spec

-------------------------------------------------------------------------------
(* The theorems                                                                *)

(* The fields of both ends keep their types, and neither inbox outgrows its    *)
(* bound although answers, events and good-byes do not wait for room.          *)
THEOREM TypeCorrect == Spec => []TypeOK
<1>1. Inv => TypeOK
  BY DEF Inv, Types, LengthInv, TypeOK, EndRecords, Items
<1> QED
  BY <1>1, InvariantHolds, PTL

(* A viewer in bad-link mode is watching; its heartbeat runs in the mode and   *)
(* only in the mode.                                                           *)
THEOREM ModeHasHeartbeat == Spec => []BadLinkBeats
<1>1. Inv => BadLinkBeats
  BY DEF Inv, ModeInv
<1> QED
  BY <1>1, InvariantHolds, PTL

(* A viewer that watches on a connection and has read its events probes it,    *)
(* however many breaks, restarts and ends of the share came before.            *)
THEOREM WatchersProbe == Spec => []WatcherProbes
<1>1. Inv => WatcherProbes
  <2>1. ASSUME inbox["viewer"] = <<>> PROVE ~Unread("connected", inbox["viewer"])
    BY <2>1 DEF Unread
  <2> QED
    BY <2>1 DEF Inv, ProbeInv, WatcherProbes
<1> QED
  BY <1>1, InvariantHolds, PTL

===============================================================================

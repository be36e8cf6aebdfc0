----------------------------- MODULE MediaControl -----------------------------
(* The control packets of the media channel (App/src/module/media.js): the     *)
(* sharer's probes and the viewer's feedback, from which the sharer takes its  *)
(* round-trip time, and the viewer's NACKs, which the sharer answers with a    *)
(* retransmission when that time allows it.  Packets carry times cut to 32     *)
(* bits and travel by UDP: any of them is lost, late, repeated or overtaken.   *)
(*                                                                             *)
(* A message carries true times; handlers read them through Unsigned or        *)
(* Signed, as `>>> 0' and `& 0xffffffff' do.  Both machines have one clock     *)
(* (the code compares their clocks, too).  Each packet asked for belongs to a  *)
(* delta frame of its own.  Left out: the loss and jitter figures a feedback   *)
(* carries, what they do to the encoder and the FEC rate, and PLI packets.     *)
EXTENDS Integers, FiniteSets

CONSTANTS
  Packets,         \* media packets that may get lost
  Ring,            \* 2^32
  Starts,          \* Date.now() when the model starts
  MaxTicks,        \* bound: how far the clock goes
  MaxDelay,        \* bound: age at which a packet is gone from the network
  MaxProbes,       \* bound: probes on their way
  ProbeTimeout,    \* CC_PROBE_TIMEOUT_MS
  UnknownRtt,      \* NACK_UNKNOWN_RTT_MS
  Guard,           \* DELTA_NACK_REMAIN_GUARD_MS
  Budgets,         \* what get_rx_repair_budget_ms may return
  RepairTime,      \* the longest time from a loss to the frame's repair cutoff
  RetryGap,        \* NACK_RETRY_MIN_INTERVAL_MS
  MaxRounds,       \* DELTA_NACK_MAX_ROUNDS
  MaxRetransmits,  \* max_retransmits of a delta frame
  MaxSuspended     \* bound: retransmissions of one packet under way

Half == Ring \div 2

ASSUME ControlAssumption ==
  /\ Ring \in Nat \ {0} /\ Ring = 2 * Half
  /\ Starts \subseteq Nat \ {0} /\ Budgets \subseteq Nat \ {0}
  /\ {MaxTicks, MaxDelay, UnknownRtt, Guard, RetryGap} \subseteq Nat
  /\ {MaxProbes, ProbeTimeout, RepairTime, MaxRounds, MaxRetransmits, MaxSuspended} \subseteq Nat \ {0}
  /\ MaxDelay < Half /\ RepairTime < Half /\ ProbeTimeout < Half
(* No NACK is kept or on its way for half a turn of the clock (24.8 days).     *)
ASSUME TicksAssumption == MaxTicks <= Half

VARIABLES
  now,        \* Date.now()
  ticks,      \* bound: ticks so far
  open,       \* the ends whose media_transport_open holds
  probe,      \* the sharer's last probe and whether cc_timer runs
  rtt,        \* cc.rttMs of the sharer; 0 is unknown
  cache,      \* retrans_cache of the sharer, by packet
  suspended,  \* try_retransmit_packet calls that await their send, by packet
  nack,       \* nackMeta and the repair cutoff of the packet's frame
  pending,    \* pending_nacks: by packet its deadline, 0 when there is none
  nack_timer, \* nack_flush_timer
  net         \* packets on their way, in either direction

vars == <<now, ticks, open, probe, rtt, cache, suspended, nack, pending, nack_timer, net>>
sharer == <<probe, rtt, cache, suspended>>
viewer == <<nack, pending, nack_timer>>
time == <<now, ticks>>

Unsigned(t) == t % Ring
Signed(t) == ((t + Half) % Ring) - Half

Request(id, t) == [kind |-> "req", id |-> id, since |-> t]
Feedback(id, t) == [kind |-> "feedback", id |-> id, since |-> t]
Nack(p, due, t) == [kind |-> "nack", packet |-> p, due |-> due, since |-> t]

Messages ==
  [kind : {"req", "feedback"}, id : 0 .. Ring - 1, since : Nat]
    \cup [kind : {"nack"}, packet : Packets, due : Nat, since : Nat]

TypeOK ==
  /\ now \in Nat /\ ticks \in 0 .. MaxTicks
  /\ open \subseteq {"share", "viewer"}
  /\ probe \in [awaiting : BOOLEAN, id : 0 .. Ring - 1, ts : -Half .. Half - 1,
                wall : Nat, timer : BOOLEAN]
  /\ rtt \in 0 .. ProbeTimeout
  /\ cache \in [Packets -> [sent : BOOLEAN, held : BOOLEAN,
                            count : 0 .. MaxRetransmits + MaxSuspended - 1]]
  /\ suspended \in [Packets -> 0 .. MaxSuspended]
  /\ nack \in [Packets -> [at : {"unknown", "missing", "over"}, attempts : 0 .. MaxRounds,
                           last : Nat, due : Nat]]
  /\ pending \in [Packets -> Nat] /\ nack_timer \in BOOLEAN
  /\ net \subseteq Messages

NoNack(at, due) == [at |-> at, attempts |-> 0, last |-> 0, due |-> due]
Reset(timer) == [awaiting |-> FALSE, id |-> 0, ts |-> 0, wall |-> 0, timer |-> timer]

Init ==
  /\ now \in Starts /\ ticks = 0
  /\ open = {}
  /\ probe = Reset(FALSE) /\ rtt = 0
  /\ cache = [p \in Packets |-> [sent |-> FALSE, held |-> FALSE, count |-> 0]]
  /\ suspended = [p \in Packets |-> 0]
  /\ nack = [p \in Packets |-> NoNack("unknown", 0)]
  /\ pending = [p \in Packets |-> 0] /\ nack_timer = FALSE
  /\ net = {}

(* Time passes; what has been on its way for MaxDelay is lost.                 *)
Tick ==
  /\ ticks < MaxTicks
  /\ now' = now + 1 /\ ticks' = ticks + 1
  /\ net' = {m \in net : now' - m.since <= MaxDelay}
  /\ UNCHANGED <<open, sharer, viewer>>

-------------------------------------------------------------------------------
(* Probe and feedback                                                          *)

(* send_feedback_req at a tick of cc_timer (bounds: MaxProbes on their way,    *)
(* and one in a tick of the clock, which is shorter than CC_INTERVAL_MS).      *)
SendFeedbackReq ==
  /\ probe.timer /\ "share" \in open
  /\ ~probe.awaiting \/ now - probe.wall >= ProbeTimeout
  /\ LET requests == {m \in net : m.kind = "req"}
     IN Cardinality(requests) < MaxProbes /\ \A m \in requests : m.since # now
  /\ LET id == (probe.id + 1) % Ring
     IN /\ probe' = [awaiting |-> TRUE, id |-> id, ts |-> Signed(now), wall |-> now, timer |-> TRUE]
        /\ net' = net \cup {Request(id, now)}
  /\ UNCHANGED <<time, open, rtt, cache, suspended, viewer>>

(* handle_feedback_req_packet and send_feedback on the viewer.                 *)
HandleFeedbackReq(m) ==
  /\ m.kind = "req" /\ "viewer" \in open
  /\ net' = net \cup {Feedback(m.id, m.since)}
  /\ UNCHANGED <<time, open, sharer, viewer>>

(* The echo is unsigned, the request's time was kept as a signed number.       *)
EchoIgnored(m) == TRUE     \* variant: the number of the probe is enough
EchoMatches(m) == Unsigned(m.since) = probe.ts

Accepts(m) == probe.awaiting /\ m.id = probe.id /\ EchoMatches(m)

Clamp(x, low, high) == IF x < low THEN low ELSE IF x > high THEN high ELSE x

(* rtt += 0xffffffff adds one less than a full turn.                           *)
RttOf(m) ==
  LET d == Signed(now) - Unsigned(m.since)
  IN Clamp(IF d < 0 THEN d + Ring - 1 ELSE d, 1, ProbeTimeout)

HandleFeedback(m) ==
  /\ m.kind = "feedback" /\ Accepts(m)
  /\ probe' = [probe EXCEPT !.awaiting = FALSE]
  /\ rtt' = IF now - probe.wall > ProbeTimeout THEN rtt ELSE RttOf(m)
  /\ UNCHANGED <<time, open, cache, suspended, viewer, net>>

-------------------------------------------------------------------------------
(* Losses and NACKs                                                            *)

(* handle_encoded_chunk: the frame's packets go to the cache before the wire.  *)
SendFrame(p) ==
  /\ "share" \in open /\ ~cache[p].sent
  /\ cache' = [cache EXCEPT ![p] = [sent |-> TRUE, held |-> TRUE, count |-> 0]]
  /\ UNCHANGED <<time, open, probe, rtt, suspended, viewer, net>>

(* Another packet of the frame opens an entry in which p is missing.           *)
NoticeMissing(p) ==
  /\ "viewer" \in open /\ cache[p].sent /\ nack[p].at = "unknown"
  /\ nack' = [nack EXCEPT ![p] = NoNack("missing", now + RepairTime)]
  /\ UNCHANGED <<time, open, sharer, pending, nack_timer, net>>

(* The packet arrives, is recovered, or its frame runs into its hard deadline. *)
FrameLeaves(p) ==
  /\ nack[p].at = "missing"
  /\ nack' = [nack EXCEPT ![p] = NoNack("over", 0)]
  /\ UNCHANGED <<time, open, sharer, pending, nack_timer, net>>

(* The loop of check_rx_health over the incomplete frames.  Chosen: the repair *)
(* budget, the packets whose gap is confirmed (get_nack_trigger_delay_ms) and  *)
(* those the global budget admits.                                             *)
Missing == {p \in Packets : nack[p].at = "missing"}
Late(p, budget) == nack[p].due - now <= budget + Guard
MayAsk(p) == nack[p].attempts < MaxRounds /\ now - nack[p].last >= RetryGap

Repairs(budget, confirmed, asked) ==
  LET over == {p \in Missing : Late(p, budget)}
                \cup {p \in confirmed : nack[p].attempts >= MaxRounds}
  IN /\ asked \cup over # {}
     /\ nack' = [p \in Packets |->
          IF p \in asked THEN [nack[p] EXCEPT !.attempts = @ + 1, !.last = now]
          ELSE IF p \in over THEN NoNack("over", 0) ELSE nack[p]]
     /\ pending' = [p \in Packets |->
          IF p \in asked /\ nack[p].due > pending[p] THEN nack[p].due ELSE pending[p]]
     /\ nack_timer' = (nack_timer \/ asked # {})

HealthCheck ==
  /\ \E budget \in Budgets, confirmed \in SUBSET Missing :
     \E asked \in SUBSET {p \in confirmed : MayAsk(p) /\ ~Late(p, budget)} :
       Repairs(budget, confirmed, asked)
  /\ UNCHANGED <<time, open, sharer, net>>

(* flush_pending_nacks                                                         *)
FlushPendingNacks ==
  /\ nack_timer /\ nack_timer' = FALSE
  /\ net' = IF "viewer" \in open
            THEN net \cup {Nack(p, pending[p], now) : p \in {q \in Packets : pending[q] # 0}}
            ELSE net
  /\ pending' = [p \in Packets |-> 0]
  /\ UNCHANGED <<time, open, sharer, nack>>

-------------------------------------------------------------------------------
(* Retransmissions                                                             *)

RemainingUnsigned(due) == Unsigned(due - now)    \* variant: `>>> 0' for `| 0'
Remaining(due) == Signed(Unsigned(due) - Unsigned(now))

EstimatedRtt == IF rtt > 0 THEN rtt ELSE UnknownRtt

Unlimited(p) == TRUE    \* variant: retransmitCount is not looked at
BelowLimit(p) == cache[p].count < MaxRetransmits

(* handle_nack_packet and try_retransmit_packet up to its await.               *)
HandleNack(m) ==
  /\ m.kind = "nack" /\ cache[m.packet].held
  /\ Remaining(m.due) > EstimatedRtt + Guard
  /\ BelowLimit(m.packet)
  /\ suspended[m.packet] < MaxSuspended
  /\ suspended' = [suspended EXCEPT ![m.packet] = @ + 1]
  /\ UNCHANGED <<time, open, probe, rtt, cache, viewer, net>>

(* The rest of it: a packet that was sent is counted and goes back to the      *)
(* cache, even when it has left it meanwhile.                                  *)
RetransmitEnds(p) ==
  /\ suspended[p] > 0
  /\ suspended' = [suspended EXCEPT ![p] = @ - 1]
  /\ \/ "share" \in open
        /\ cache' = [cache EXCEPT ![p].held = TRUE, ![p].count = @ + 1]
     \/ UNCHANGED cache
  /\ UNCHANGED <<time, open, probe, rtt, viewer, net>>

(* cleanup_retrans_cache, in the end.                                          *)
Evicts(p) ==
  /\ cache[p].held
  /\ cache' = [cache EXCEPT ![p].held = FALSE]
  /\ UNCHANGED <<time, open, probe, rtt, suspended, viewer, net>>

-------------------------------------------------------------------------------
(* The channel and the users                                                   *)

MediaOpens(e) ==
  /\ e \notin open /\ open' = open \cup {e}
  /\ UNCHANGED <<time, sharer, viewer, net>>

(* A transport that is invalidated; timers and probe stay as they are.         *)
MediaCloses(e) ==
  /\ open' = open \ {e} /\ open' # open
  /\ UNCHANGED <<time, sharer, viewer, net>>

(* start_share_or_view: reset_cc_runtime, then start_cc_timer.                 *)
ShareStarts ==
  /\ "share" \in open
  /\ probe' = Reset(TRUE) /\ rtt' = 0
  /\ UNCHANGED <<time, open, cache, suspended, viewer, net>>

(* disconnect_all on the sharer; close_encoder clears the cache.               *)
ShareStops ==
  /\ open' = open \ {"share"}
  /\ probe' = Reset(FALSE) /\ rtt' = 0
  /\ cache' = [p \in Packets |-> [cache[p] EXCEPT !.held = FALSE]]
  /\ UNCHANGED <<time, suspended, viewer, net>>

(* close_decoder                                                               *)
StopsTimerOnly == nack_timer' = FALSE /\ UNCHANGED pending   \* variant: the map is kept
StopsNacks == nack_timer' = FALSE /\ pending' = [p \in Packets |-> 0]

(* stop_viewer_pipeline, at the end of the share or in disconnect_all.         *)
ViewerStops ==
  /\ StopsNacks
  /\ nack' = [p \in Packets |-> IF nack[p].at = "missing" THEN NoNack("over", 0) ELSE nack[p]]
  /\ open' \in {open, open \ {"viewer"}}
  /\ UNCHANGED <<time, sharer, net>>

Next ==
  \/ Tick \/ SendFeedbackReq \/ HealthCheck \/ FlushPendingNacks
  \/ \E m \in net : HandleFeedbackReq(m) \/ HandleFeedback(m) \/ HandleNack(m)
  \/ \E p \in Packets :
       SendFrame(p) \/ NoticeMissing(p) \/ FrameLeaves(p)
         \/ RetransmitEnds(p) \/ Evicts(p)
  \/ \E e \in {"share", "viewer"} : MediaOpens(e) \/ MediaCloses(e)
  \/ ShareStarts \/ ShareStops \/ ViewerStops

Spec == Init /\ [][Next]_vars

-------------------------------------------------------------------------------
(* Properties                                                                  *)

(* A round-trip time the sharer takes over is, to a millisecond, the time      *)
(* since its outstanding probe: an answer to an earlier probe, which may bear  *)
(* the same number since reset_cc_runtime starts them again, and a clock whose *)
(* low 32 bits turn negative or wrap meanwhile, never give another one.        *)
RttIsTrue ==
  [][rtt' # rtt /\ rtt' # 0 => rtt' - (now - probe.wall) \in -1 .. 1]_vars

(* The sharer retransmits only what can be there before the deadline the       *)
(* viewer has set: a NACK that arrives late, even after the deadline, or has   *)
(* crossed a wrap of the clock is judged by the time that is really left.      *)
NoLateRetransmit ==
  [][\A p \in Packets : suspended'[p] > suspended[p] =>
       \E m \in net : /\ m.kind = "nack" /\ m.packet = p
                      /\ m.due - now > EstimatedRtt + Guard]_vars

(* A NACK that waits for its batch has a timer that will send it, after stops, *)
(* lost transports and flushes under way: a map that is not empty without a    *)
(* timer would send its NACKs with a later loss, or never.                     *)
PendingHasTimer == (\E p \in Packets : pending[p] # 0) => nack_timer

(* media.js:2389 says that FEEDBACK packets update the congestion control: an  *)
(* answer to the outstanding probe that comes in time is used.                 *)
AnswerIsUsed ==
  \A m \in net :
    /\ m.kind = "feedback" /\ probe.awaiting
    /\ m.id = probe.id /\ m.since = probe.wall /\ now - probe.wall <= ProbeTimeout
    => Accepts(m)

===============================================================================

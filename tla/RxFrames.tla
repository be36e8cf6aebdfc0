------------------------------- MODULE RxFrames -------------------------------
(* The viewer's frame layer (App/src/module/media.js): data and parity packets *)
(* are collected per frame, a complete frame waits in rx_completed_frames, and *)
(* an asynchronous flush feeds complete frames to the video decoder in order.  *)
(* The health check that runs after every poll gives frames up at their        *)
(* deadline, asks for retransmissions and starts keyframe recoveries.          *)
(*                                                                             *)
(* Everything runs on one JavaScript thread.  `phase' says where that thread   *)
(* is: between tasks ("idle"), inside the synchronous block of                 *)
(* poll_media_packets ("poll", then check_rx_health: "promote" and "loop"), or *)
(* running the promise continuations that block left behind ("micro").  The    *)
(* flush suspends at `await decode_completed_frame', so everything the same    *)
(* block still does happens before the suspended frame reaches the decoder.    *)
(*                                                                             *)
(* Clock readings are choices: a deadline passes, an expiry mark lapses, a     *)
(* timeout has or has not elapsed.  Packet payloads are left out; which        *)
(* packets a frame needs, and which parities can replace them, are kept.       *)
EXTENDS Integers, FiniteSets

CONSTANTS
  NumFrames,     \* frames are 1..NumFrames, in the order the sharer encoded them
  Keyframes,     \* the frames encoded as keyframes
  DataCount,     \* DataCount[f]: the data packets of frame f
  ParityRows,    \* ParityRows[f][j]: the data packets parity j of frame f covers
  MaxRetrans,    \* retransmissions the sharer grants per data packet
  DropThreshold  \* RX_NEED_KEYFRAME_DROP_THRESHOLD

NoFrame == 0
Frames == 1 .. NumFrames
Positions == 0 .. NumFrames + 1     \* a frame id, null (0), or one past the last
DataPackets(f) == 0 .. DataCount[f] - 1
Parities(f) == DOMAIN ParityRows[f]
AllPackets == [frame : Frames, id : 0 .. 15, fec : BOOLEAN]
Packets ==
  {p \in AllPackets : p.id \in IF p.fec THEN Parities(p.frame) ELSE DataPackets(p.frame)}

ASSUME NumFramesAssumption == NumFrames \in Nat \ {0}
ASSUME KeyframesAssumption == Keyframes \subseteq Frames
ASSUME DataCountAssumption == DataCount \in [Frames -> 1 .. 16]
ASSUME ParityRowsAssumption ==
  \A f \in Frames : \A j \in Parities(f) :
    /\ j \in 0 .. 15
    /\ ParityRows[f][j] \subseteq DataPackets(f)
    /\ j % DataCount[f] \in ParityRows[f][j]
ASSUME BoundsAssumption == MaxRetrans \in Nat /\ DropThreshold \in Nat \ {0}

VARIABLES
  phase,             \* where the JavaScript thread is
  todo,              \* frames the loop of check_rx_health has still to visit
  net,               \* media packets on their way to the viewer
  retrans,           \* retransmissions granted so far, by frame and data packet
  frame_buffer,      \* frames with an entry in rx_frame_buffer
  packets,           \* packets[f]: data packets held in that entry
  fec_packets,       \* fec_packets[f]: parity packets held in that entry
  overdue,           \* buffered frames whose hardDeadlineAt has passed
  cutoff,            \* buffered frames with repairCutoffReached
  completed_frames,  \* frames in rx_completed_frames
  expired_frames,    \* frames with an unexpired mark in rx_expired_frames
  next_decode,       \* rx_next_decode_frame_id
  decode_wait,       \* rx_decode_wait_frame_id
  flush,             \* frame whose decode the flush awaits; NoFrame: not busy
  need_keyframe,     \* rx_need_keyframe
  awaiting_output,   \* rx_decoder_awaiting_output
  drops,             \* rx_consecutive_drop_frames, up to DropThreshold
  decoder,           \* "absent", "configured", "running" or "closed"
  in_decoder,        \* chunks given to the decoder and not yet output
  stale_output,      \* rx_last_decode_input_at > rx_last_decode_output_at
  assembled,         \* history: frames completed since the viewer started
  last_fed           \* history: newest frame decoded since the last recovery

wire == <<net, retrans>>
entry == <<frame_buffer, packets, fec_packets, overdue, cutoff>>
position == <<completed_frames, next_decode, decode_wait, flush>>
mode == <<need_keyframe, awaiting_output>>
codec == <<decoder, in_decoder, stale_output>>
history == <<assembled, last_fed>>
vars == <<phase, todo, wire, entry, expired_frames, position, mode, drops, codec, history>>

TypeOK ==
  /\ phase \in {"idle", "poll", "promote", "loop", "micro"}
  /\ todo \subseteq Frames
  /\ net \subseteq Packets
  /\ retrans \in [Frames -> [0 .. 15 -> 0 .. MaxRetrans]]
  /\ frame_buffer \subseteq Frames
  /\ packets \in [Frames -> SUBSET (0 .. 15)]
  /\ fec_packets \in [Frames -> SUBSET (0 .. 15)]
  /\ overdue \subseteq frame_buffer
  /\ cutoff \subseteq frame_buffer
  /\ completed_frames \subseteq Frames
  /\ expired_frames \subseteq Frames
  /\ next_decode \in Positions
  /\ decode_wait \in Positions
  /\ flush \in Frames \cup {NoFrame}
  /\ need_keyframe \in BOOLEAN
  /\ awaiting_output \in BOOLEAN
  /\ drops \in 0 .. DropThreshold
  /\ decoder \in {"absent", "configured", "running", "closed"}
  /\ in_decoder \in Nat
  /\ stale_output \in BOOLEAN
  /\ assembled \subseteq Frames
  /\ last_fed \in Frames \cup {NoFrame}

(* The viewer starts with everything the sharer sends still on its way. *)
Init ==
  /\ phase = "idle"
  /\ todo = {}
  /\ net = Packets
  /\ retrans = [f \in Frames |-> [i \in 0 .. 15 |-> 0]]
  /\ frame_buffer = {}
  /\ packets = [f \in Frames |-> {}]
  /\ fec_packets = [f \in Frames |-> {}]
  /\ overdue = {}
  /\ cutoff = {}
  /\ completed_frames = {}
  /\ expired_frames = {}
  /\ next_decode = NoFrame
  /\ decode_wait = NoFrame
  /\ flush = NoFrame
  /\ need_keyframe = TRUE
  /\ awaiting_output = FALSE
  /\ drops = 0
  /\ decoder = "absent"
  /\ in_decoder = 0
  /\ stale_output = FALSE
  /\ assembled = {}
  /\ last_fed = NoFrame

-------------------------------------------------------------------------------
(* The flush of completed frames. *)

IsLeast(m, S) == m \in S /\ \A x \in S : m <= x

(* The flush returns: nothing more can be decoded now. *)
FlushReturns(c, n, w) ==
  /\ completed_frames' = c
  /\ next_decode' = n
  /\ decode_wait' = w
  /\ flush' = NoFrame

(* The flush suspends in the decode of frame f. *)
FlushDecodes(c, f) ==
  /\ completed_frames' = c
  /\ next_decode' = f
  /\ decode_wait' = NoFrame
  /\ flush' = f

From(c, f) == {g \in c : g >= f}

(* Mutant: the anchor may be a delta frame although a keyframe is needed. *)
FlushAnchorsAnywhere(c, w) ==
  \E a \in c : IsLeast(a, c) /\ FlushDecodes(From(c, a), a)

(* No position yet: anchor at the oldest complete frame, a keyframe if one is  *)
(* needed, and drop what is older.                                             *)
FlushAnchors(c, w) ==
  LET anchors == IF need_keyframe THEN c \cap Keyframes ELSE c
  IN \/ anchors = {} /\ FlushReturns(c, NoFrame, w)
     \/ \E a \in anchors : IsLeast(a, anchors) /\ FlushDecodes(From(c, a), a)

(* The frame at the position is complete: decode it, unless a decoder that has *)
(* just been given its recovery keyframe has not output anything yet.          *)
FlushNext(c, n, awaiting) ==
  IF need_keyframe /\ awaiting /\ n \notin Keyframes
  THEN FlushReturns(c, n, NoFrame)
  ELSE FlushDecodes(c, n)

(* Mutant: the jump over a missing frame clears the whole map. *)
FlushMissingClears(c, n, w) ==
  \/ FlushReturns(c, n, n)
  \/ /\ w = n
     /\ \E r \in From(c, n) : IsLeast(r, From(c, n)) /\ FlushDecodes({r}, r)

(* maybe_resume_decode_after_missing_frame: the first look starts the wait; a  *)
(* later one may find that it has timed out and jump, to a keyframe if any.    *)
FlushMissing(c, n, w) ==
  LET ahead == From(c, n)
      keys == ahead \cap Keyframes
      targets == IF keys # {} \/ need_keyframe THEN keys ELSE ahead
  IN \/ FlushReturns(c, n, n)
     \/ /\ w = n
        /\ \E r \in targets : IsLeast(r, targets) /\ FlushDecodes(From(c, r), r)

(* Expired frames that are not complete are skipped: m is where that stops. *)
SkipsTo(c, e, n, m) ==
  /\ m \in c \/ m \notin e
  /\ \A k \in n .. m - 1 : k \notin c /\ k \in e

(* flush_completed_frames, from its loop head to the next await or return,     *)
(* with c complete, e expired, position n, wait w and `awaiting' for the        *)
(* current rx_decoder_awaiting_output.                                         *)
FlushRuns(c, e, n, w, awaiting) ==
  \/ c = {} /\ FlushReturns(c, n, w)
  \/ c # {} /\ n = NoFrame /\ FlushAnchors(c, w)
  \/ /\ c # {} /\ n # NoFrame
     /\ \E m \in n .. NumFrames + 1 :
          /\ SkipsTo(c, e, n, m)
          /\ IF m \in c THEN FlushNext(c, m, awaiting)
             ELSE FlushMissing(c, m, IF m = n THEN w ELSE NoFrame)

(* A call to flush_completed_frames: a busy flush makes it return at once. *)
FlushCalled(c, e) ==
  IF flush # NoFrame
  THEN completed_frames' = c /\ UNCHANGED <<next_decode, decode_wait, flush>>
  ELSE FlushRuns(c, e, next_decode, decode_wait, awaiting_output)

-------------------------------------------------------------------------------
(* Keyframe recovery. *)

(* enter_keyframe_recovery, which leaves a suspended flush where it is. *)
EnterRecovery ==
  /\ need_keyframe' = TRUE
  /\ awaiting_output' = FALSE
  /\ next_decode' = NoFrame
  /\ completed_frames' = {}
  /\ decode_wait' = NoFrame
  /\ last_fed' = NoFrame

(* The complete keyframes request_recovery_keyframe may move the position to;  *)
(* mutant: the ones behind the position are candidates too.                    *)
RecoveryKeysAnywhere == completed_frames \cap Keyframes
RecoveryKeys == From(completed_frames, next_decode) \cap Keyframes

(* request_recovery_keyframe: the position may jump to a complete keyframe,    *)
(* the first one in the insertion order of the map.                            *)
RequestRecovery ==
  /\ IF need_keyframe
     THEN UNCHANGED <<need_keyframe, awaiting_output, next_decode>>
     ELSE /\ need_keyframe' = TRUE
          /\ awaiting_output' = FALSE
          /\ IF next_decode = NoFrame \/ next_decode \in RecoveryKeys \/ RecoveryKeys = {}
             THEN UNCHANGED next_decode
             ELSE next_decode' \in RecoveryKeys
  /\ UNCHANGED <<completed_frames, decode_wait, last_fed>>

NoRecovery == UNCHANGED <<completed_frames, next_decode, decode_wait, mode, last_fed>>

(* should_recover_for_decode_output_stall, its timing left open *)
OutputMayStall == completed_frames # {} /\ stale_output

(* should_request_recovery_keyframe and should_enter_hard_keyframe_recovery,   *)
(* their timing left open                                                      *)
RecoveryMayBeDue == completed_frames = {}

-------------------------------------------------------------------------------
(* Packets. *)

(* Gaussian elimination over GF(2) finds every missing packet exactly when no  *)
(* non-empty set of them cancels out of all the parities held.                 *)
Solvable(f, missing, held) ==
  \A S \in SUBSET missing \ {{}} :
    \E j \in held : Cardinality(ParityRows[f][j] \cap S) % 2 = 1

FrameComplete(f, data, fec) ==
  LET missing == DataPackets(f) \ data
  IN missing = {} \/ Solvable(f, missing, fec)

(* The mark test of ingest_ordered_data_packet; mutant: it is skipped. *)
MarkIgnored(f) == FALSE
MarkedExpired(f) == f \in expired_frames

(* rx_frame_buffer.delete *)
EntryDeleted(f) ==
  /\ frame_buffer' = frame_buffer \ {f}
  /\ packets' = [packets EXCEPT ![f] = {}]
  /\ fec_packets' = [fec_packets EXCEPT ![f] = {}]
  /\ overdue' = overdue \ {f}
  /\ cutoff' = cutoff \ {f}

(* refresh_frame_timing: a packet the entry does not hold yet may move its     *)
(* deadline back into the future, when a repair cutoff had brought it forward  *)
(* or the link has turned bad.                                                 *)
TimingRefreshed(p) ==
  \/ UNCHANGED overdue
  \/ /\ p.id \notin IF p.fec THEN fec_packets[p.frame] ELSE packets[p.frame]
     /\ overdue' = overdue \ {p.frame}

(* ingest_ordered_data_packet and try_assemble_frame, for a packet the         *)
(* sequence layer hands over.  An entry is created for any frame without one.  *)
IngestLate(p) ==
  /\ MarkedExpired(p.frame)
  /\ UNCHANGED <<entry, position, assembled>>

IngestNew(p) ==
  LET f == p.frame
      data == IF p.fec THEN packets[f] ELSE packets[f] \cup {p.id}
      fec == IF p.fec THEN fec_packets[f] \cup {p.id} ELSE fec_packets[f]
  IN /\ ~MarkedExpired(f)
     /\ IF FrameComplete(f, data, fec)
        THEN /\ EntryDeleted(f)
             /\ assembled' = assembled \cup {f}
             /\ FlushCalled(completed_frames \cup {f}, expired_frames)
        ELSE /\ frame_buffer' = frame_buffer \cup {f}
             /\ packets' = [packets EXCEPT ![f] = data]
             /\ fec_packets' = [fec_packets EXCEPT ![f] = fec]
             /\ TimingRefreshed(p)
             /\ UNCHANGED <<cutoff, position, assembled>>

Ingest(p) ==
  /\ phase \in {"poll", "promote", "micro"}
  /\ net' = net \ {p}
  /\ IngestLate(p) \/ IngestNew(p)
  /\ UNCHANGED <<phase, todo, retrans, expired_frames, mode, drops, codec, last_fed>>

-------------------------------------------------------------------------------
(* check_rx_health. *)

(* poll_media_packets starts its synchronous block. *)
PollBegin ==
  /\ phase = "idle"
  /\ phase' = "poll"
  /\ UNCHANGED <<todo, wire, entry, expired_frames, position, mode, drops, codec, history>>

(* check_rx_health begins: a stalled decoder output starts a recovery, then    *)
(* packets whose reorder hold is over are ingested (phase "promote").          *)
HealthBegin ==
  /\ phase = "poll"
  /\ phase' = "promote"
  /\ NoRecovery \/ (OutputMayStall /\ EnterRecovery)
  /\ UNCHANGED <<todo, wire, entry, expired_frames, flush, drops, codec, assembled>>

HealthLoop ==
  /\ phase = "promote"
  /\ phase' = "loop"
  /\ todo' = frame_buffer
  /\ UNCHANGED <<wire, entry, expired_frames, position, mode, drops, codec, history>>

Visit(f) == phase = "loop" /\ f \in todo /\ todo' = todo \ {f}

(* The deadline test comes before every other test of the loop; mutant: frames *)
(* that reached their repair cutoff are skipped first.                         *)
DueUnlessCutoff(f) == f \in overdue \ cutoff
DeadlineDue(f) == f \in overdue

(* The deadline has passed: count the drop, perhaps ask for a keyframe, mark   *)
(* the frame expired and flush.                                                *)
DropOverdue(f) ==
  /\ Visit(f)
  /\ DeadlineDue(f)
  /\ \E run \in {0, drops} :      \* 0: the last drop is out of the window
       drops' = IF run < DropThreshold THEN run + 1 ELSE DropThreshold
  /\ \/ UNCHANGED mode
     \/ /\ drops' = DropThreshold /\ RecoveryMayBeDue /\ ~need_keyframe
        /\ need_keyframe' = TRUE /\ awaiting_output' = FALSE
  /\ expired_frames' = expired_frames \cup {f}
  /\ EntryDeleted(f)
  /\ FlushCalled(completed_frames, expired_frames')
  /\ UNCHANGED <<phase, wire, codec, history>>

(* Too late or too much to repair (mark_frame_repair_cutoff): once per entry,  *)
(* with a recovery when nothing has been assembled for long.  The PLI it sends *)
(* only concerns the sharer.                                                   *)
RepairCutoff(f) ==
  /\ Visit(f)
  /\ ~DeadlineDue(f) /\ f \notin cutoff
  /\ cutoff' = cutoff \cup {f}
  /\ \/ NoRecovery
     \/ RecoveryMayBeDue /\ RequestRecovery
     \/ RecoveryMayBeDue /\ f \in Keyframes /\ EnterRecovery
  /\ UNCHANGED <<phase, wire, frame_buffer, packets, fec_packets, overdue,
                 expired_frames, flush, drops, codec, assembled>>

(* Missing data packets are requested again, as far as the sharer grants it.   *)
(* Nothing is requested: the entry is left alone on this tick.                 *)
Nack(f) ==
  /\ Visit(f)
  /\ ~DeadlineDue(f)
  /\ \E lost \in SUBSET (DataPackets(f) \ packets[f]) :
       /\ lost # {} => f \notin cutoff
       /\ \A i \in lost : retrans[f][i] < MaxRetrans
       /\ net' = net \cup {[frame |-> f, id |-> i, fec |-> FALSE] : i \in lost}
       /\ retrans' = [retrans EXCEPT ![f] =
                        [i \in 0 .. 15 |-> IF i \in lost THEN @[i] + 1 ELSE @[i]]]
  /\ UNCHANGED <<phase, entry, expired_frames, position, mode, drops, codec, history>>

(* maybe_request_pli_for_stall ends the block. *)
HealthEnd ==
  /\ phase = "loop" /\ todo = {}
  /\ phase' = "micro"
  /\ \/ NoRecovery
     \/ RequestRecovery
     \/ OutputMayStall /\ EnterRecovery
  /\ UNCHANGED <<todo, wire, entry, expired_frames, flush, drops, codec, assembled>>

-------------------------------------------------------------------------------
(* Promise continuations and later tasks. *)

(* rx_next_decode_frame_id = next_frame_id + 1; mutant: one too many. *)
PositionAfterNext(f) == f + 2
PositionAfter(f) == f + 1

(* The decoder accepts the frame the flush suspended on: the position moves    *)
(* past that frame, whatever happened to it meanwhile, and the loop goes on.   *)
ResumeDecode ==
  /\ phase = "micro" /\ flush # NoFrame
  /\ decoder = "running" \/ (decoder # "closed" /\ flush \in Keyframes)
  /\ decoder' = "running"
  /\ in_decoder' = in_decoder + 1
  /\ stale_output' = TRUE
  /\ awaiting_output' = need_keyframe
  /\ drops' = 0
  /\ last_fed' = flush
  /\ FlushRuns(completed_frames \ {flush}, expired_frames, PositionAfter(flush), decode_wait,
               need_keyframe)
  /\ UNCHANGED <<phase, todo, wire, entry, expired_frames, need_keyframe, assembled>>

(* The decoder throws, because an error closed it or its first chunk is not a  *)
(* keyframe: the flush enters a recovery and returns.                          *)
ResumeThrows ==
  /\ phase = "micro" /\ flush # NoFrame
  /\ decoder = "closed" \/ (decoder # "running" /\ flush \notin Keyframes)
  /\ decoder' = IF decoder = "closed" THEN "closed" ELSE "configured"
  /\ EnterRecovery
  /\ flush' = NoFrame
  /\ UNCHANGED <<phase, todo, wire, entry, expired_frames, drops, in_decoder,
                 stale_output, assembled>>

TaskEnd ==
  /\ phase = "micro" /\ flush = NoFrame
  /\ phase' = "idle"
  /\ UNCHANGED <<todo, wire, entry, expired_frames, position, mode, drops, codec, history>>

(* The decoder's output callback: a frame is on the canvas. *)
DecoderOutput ==
  /\ phase = "idle"
  /\ in_decoder > 0
  /\ in_decoder' = in_decoder - 1
  /\ stale_output' = FALSE
  /\ awaiting_output' = FALSE
  /\ need_keyframe' = FALSE
  /\ UNCHANGED <<phase, todo, wire, entry, expired_frames, position, drops, decoder, history>>

(* The decoder's error callback; the decoder is closed from then on. *)
DecoderError ==
  /\ phase = "idle"
  /\ in_decoder > 0
  /\ decoder' = "closed"
  /\ in_decoder' = 0
  /\ \E run \in {0, drops} :
       drops' = IF run < DropThreshold THEN run + 1 ELSE DropThreshold
  /\ \/ NoRecovery
     \/ RequestRecovery
     \/ OutputMayStall /\ EnterRecovery
  /\ UNCHANGED <<phase, todo, wire, entry, expired_frames, flush, stale_output, assembled>>

(* Time: a buffered frame reaches its hard deadline; an expiry mark lapses. *)
DeadlinePasses(f) ==
  /\ phase = "idle"
  /\ f \in frame_buffer \ overdue
  /\ overdue' = overdue \cup {f}
  /\ UNCHANGED <<phase, todo, wire, frame_buffer, packets, fec_packets, cutoff,
                 expired_frames, position, mode, drops, codec, history>>

MarkLapses(f) ==
  /\ phase = "idle"
  /\ f \in expired_frames
  /\ expired_frames' = expired_frames \ {f}
  /\ UNCHANGED <<phase, todo, wire, entry, position, mode, drops, codec, history>>

(* stop_viewer_pipeline and the close_decoder it calls. *)
StopViewer ==
  /\ phase = "idle"
  /\ frame_buffer' = {}
  /\ packets' = [f \in Frames |-> {}]
  /\ fec_packets' = [f \in Frames |-> {}]
  /\ overdue' = {}
  /\ cutoff' = {}
  /\ expired_frames' = {}
  /\ EnterRecovery
  /\ flush' = NoFrame
  /\ drops' = 0
  /\ decoder' = "absent"
  /\ in_decoder' = 0
  /\ stale_output' = FALSE
  /\ assembled' = {}
  /\ UNCHANGED <<phase, todo, wire>>

(* The start click of a viewer with open channels (start_share_or_view): a     *)
(* keyframe is needed again; the position and what is complete stay.           *)
StartViewer ==
  /\ phase = "idle"
  /\ need_keyframe' = TRUE
  /\ decode_wait' = NoFrame
  /\ drops' = 0
  /\ decoder' = IF decoder = "absent" THEN "configured" ELSE decoder
  /\ UNCHANGED <<phase, todo, wire, entry, expired_frames, completed_frames, next_decode,
                 flush, awaiting_output, in_decoder, stale_output, history>>

Next ==
  \/ PollBegin \/ HealthBegin \/ HealthLoop \/ HealthEnd
  \/ \E p \in net : Ingest(p)
  \/ \E f \in Frames :
       DropOverdue(f) \/ RepairCutoff(f) \/ Nack(f) \/ DeadlinePasses(f) \/ MarkLapses(f)
  \/ ResumeDecode \/ ResumeThrows \/ TaskEnd
  \/ DecoderOutput \/ DecoderError \/ StopViewer \/ StartViewer

Spec == Init /\ [][Next]_vars

(* Fairness: polls keep coming (MEDIA_POLL_INTERVAL_MS timer), a started        *)
(* block runs to its end, and clocks advance: a deadline that keeps being in   *)
(* the future when the thread is idle passes in the end.  Nothing is assumed   *)
(* of the network, the decoder or the user.                                    *)
BlockStep ==
  \/ PollBegin \/ HealthBegin \/ HealthLoop \/ HealthEnd
  \/ \E f \in Frames : DropOverdue(f) \/ RepairCutoff(f) \/ Nack(f)
  \/ ResumeDecode \/ ResumeThrows \/ TaskEnd

FairSpec ==
  /\ Spec
  /\ WF_vars(BlockStep)
  /\ \A f \in Frames : SF_vars(DeadlinePasses(f))

-------------------------------------------------------------------------------
(* Properties. *)

(* A frame whose expiry mark stands has no entry in the frame buffer: packets  *)
(* that come late cannot bring back a frame the decoder may already have       *)
(* skipped (ingest_ordered_data_packet, check_rx_health).                      *)
ExpiredStaysOut == frame_buffer \cap expired_frames = {}

(* The flush feeds frames in increasing order from one recovery to the next:   *)
(* frames that complete again, jumps to keyframes, skips and a flush that was  *)
(* suspended while the position moved never bring an older frame back.         *)
FeedsInOrder == flush # NoFrame => flush > last_fed

(* A decoder that has not decoded anything is first given a keyframe, so a     *)
(* fresh decoder never throws (request_recovery_keyframe, the flush, the stop  *)
(* of the pipeline and the decoder's callbacks together see to it).            *)
FirstChunkIsKey ==
  flush # NoFrame /\ decoder \in {"absent", "configured"} => flush \in Keyframes

(* Complete frames are thrown away only where the decoder could not use them:  *)
(* a frame that can be decoded, because every frame from the position or from  *)
(* a complete keyframe up to it is complete, leaves rx_completed_frames only   *)
(* by being decoded or in a recovery.  A jump over a missing frame, an anchor, *)
(* a skip or a late continuation of the flush drops what lies before its       *)
(* target, complete frames included, but never such a chain.                   *)
Decodable(f) ==
  \E k \in completed_frames :
    /\ next_decode <= k /\ flush <= k /\ k <= f
    /\ k = next_decode \/ k \in Keyframes
    /\ k .. f \subseteq completed_frames
DecodableIsKept ==
  [][\A f \in completed_frames \ completed_frames' :
       Decodable(f) => last_fed' = f \/ next_decode' = NoFrame]_vars

(* No entry stays in the frame buffer for ever: it completes, it is dropped at *)
(* its deadline by a health check, or the pipeline stops.                      *)
BufferDrains == \A f \in Frames : f \in frame_buffer ~> f \notin frame_buffer

(* parameters.me:13-14 says of drop_deadline/s that it counts the frames that  *)
(* were still incomplete at their deadline: a frame that was assembled is      *)
(* never given up at a deadline.                                               *)
DroppedWasIncomplete == expired_frames \cap assembled = {}
=============================================================================

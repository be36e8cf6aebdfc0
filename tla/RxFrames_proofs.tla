---------------------------- MODULE RxFrames_proofs ----------------------------
(* Safety of the viewer's frame layer for every number of frames, choice of    *)
(* keyframes, packet counts, parity rows and retransmission limit.             *)
(*                                                                             *)
(* The inductive invariant has independent parts: the decode position and the  *)
(* decoder (DecodeInv), the frame buffer and the expiry marks (EntryInv), the  *)
(* health check's loop (LoopOverEntries) and the types of what is left.        *)
EXTENDS RxFrames, TLAPS

DecodeTypes ==
  /\ completed_frames \subseteq Frames
  /\ next_decode \in Positions
  /\ decode_wait \in Positions
  /\ flush \in Frames \cup {NoFrame}
  /\ need_keyframe \in BOOLEAN
  /\ awaiting_output \in BOOLEAN
  /\ decoder \in {"absent", "configured", "running", "closed"}
  /\ in_decoder \in Nat
  /\ last_fed \in Frames \cup {NoFrame}

(* The frame being decoded and the position are newer than all frames decoded  *)
(* since the last recovery; a recovery clears the position.                    *)
PositionAhead ==
  /\ flush # NoFrame => flush > last_fed
  /\ next_decode # NoFrame => next_decode > last_fed
  /\ next_decode = NoFrame => last_fed = NoFrame

(* A decoder without a first frame is in recovery, and has a position only     *)
(* while its first frame, a keyframe, is being decoded.                        *)
FreshDecoder ==
  /\ in_decoder > 0 => decoder = "running"
  /\ decoder \in {"absent", "configured"} =>
       /\ need_keyframe
       /\ flush # NoFrame => flush \in Keyframes
       /\ flush = NoFrame => next_decode = NoFrame

(* While a decode is awaited the position is its frame, unless a recovery has  *)
(* cleared it or has moved it to a keyframe.                                   *)
SuspendedPosition ==
  flush # NoFrame => next_decode \in {NoFrame, flush} \cup Keyframes

DecodeInv == DecodeTypes /\ PositionAhead /\ FreshDecoder /\ SuspendedPosition

EntryInv ==
  /\ frame_buffer \subseteq Frames
  /\ packets \in [Frames -> SUBSET (0 .. 15)]
  /\ fec_packets \in [Frames -> SUBSET (0 .. 15)]
  /\ overdue \subseteq frame_buffer
  /\ cutoff \subseteq frame_buffer
  /\ expired_frames \subseteq Frames
  /\ ExpiredStaysOut

OtherTypes ==
  /\ phase \in {"idle", "poll", "promote", "loop", "micro"}
  /\ todo \subseteq Frames
  /\ net \subseteq Packets
  /\ retrans \in [Frames -> [0 .. 15 -> 0 .. MaxRetrans]]
  /\ drops \in 0 .. DropThreshold
  /\ stale_output \in BOOLEAN
  /\ assembled \subseteq Frames

(* The loop of check_rx_health only visits entries that still exist. *)
LoopOverEntries == phase = "loop" => todo \subseteq frame_buffer

Inv == DecodeInv /\ EntryInv /\ LoopOverEntries /\ OtherTypes

LEMMA InvTypes == Inv => TypeOK
  BY DEF Inv, DecodeInv, DecodeTypes, EntryInv, OtherTypes, TypeOK

-------------------------------------------------------------------------------
(* Frame numbers. *)

LEMMA FrameFacts ==
  /\ Frames \subseteq Nat
  /\ NoFrame \notin Frames
  /\ Frames \subseteq Positions
  /\ NoFrame \in Positions
  /\ \A f \in Frames : f > NoFrame /\ f + 1 \in Positions /\ f + 1 > f
  /\ \A n \in Positions : n \in Nat
  BY NumFramesAssumption DEF Frames, Positions, NoFrame

(* Where a run of the flush ends.  In a recovery that has no position yet it   *)
(* can only suspend on a keyframe.                                             *)
FlushResult(c, n) ==
  /\ completed_frames' \subseteq c
  /\ next_decode' \in Positions
  /\ decode_wait' \in Positions
  /\ flush' \in Frames \cup {NoFrame}
  /\ n # NoFrame => next_decode' # NoFrame /\ next_decode' >= n
  /\ n = NoFrame /\ flush' = NoFrame => next_decode' = NoFrame
  /\ flush' # NoFrame =>
       /\ next_decode' = flush'
       /\ need_keyframe /\ n = NoFrame => flush' \in Keyframes

LEMMA FlushRunsResult ==
  ASSUME NEW c \in SUBSET Frames, NEW e, NEW n \in Positions, NEW w \in Positions,
         NEW awaiting \in BOOLEAN, FlushRuns(c, e, n, w, awaiting)
  PROVE  FlushResult(c, n)
<1>1. CASE c = {} /\ FlushReturns(c, n, w)
  BY <1>1, FrameFacts DEF FlushReturns, FlushResult
<1>2. CASE n = NoFrame /\ FlushAnchors(c, w)
  <2>1. CASE FlushReturns(c, NoFrame, w)
    BY <1>2, <2>1, FrameFacts DEF FlushReturns, FlushResult
  <2>2. CASE \E a \in c : (need_keyframe => a \in Keyframes) /\ FlushDecodes(From(c, a), a)
    BY <1>2, <2>2, FrameFacts DEF FlushDecodes, FlushResult, From
  <2> QED
    BY <1>2, <2>1, <2>2 DEF FlushAnchors
<1>3. CASE /\ n # NoFrame
           /\ \E m \in n .. NumFrames + 1 :
                IF m \in c THEN FlushNext(c, m, awaiting)
                ELSE FlushMissing(c, m, IF m = n THEN w ELSE NoFrame)
  <2>1. PICK m \in n .. NumFrames + 1 :
               IF m \in c THEN FlushNext(c, m, awaiting)
               ELSE FlushMissing(c, m, IF m = n THEN w ELSE NoFrame)
    BY <1>3
  <2>2. m \in Positions /\ m >= n /\ m # NoFrame
    BY <1>3, NumFramesAssumption DEF Positions, NoFrame
  <2>3. CASE FlushReturns(c, m, NoFrame) \/ FlushReturns(c, m, m)
    BY <1>3, <2>2, <2>3, FrameFacts DEF FlushReturns, FlushResult
  <2>4. CASE m \in c /\ FlushDecodes(c, m)
    BY <1>3, <2>2, <2>4, FrameFacts DEF FlushDecodes, FlushResult
  <2>5. CASE \E r \in c : /\ r >= m
                          /\ need_keyframe => r \in Keyframes
                          /\ FlushDecodes(From(c, r), r)
    <3>1. PICK r \in c : /\ r >= m
                         /\ need_keyframe => r \in Keyframes
                         /\ FlushDecodes(From(c, r), r)
      BY <2>5
    <3>2. r \in Frames /\ r \in Positions /\ r # NoFrame
      BY <3>1, FrameFacts
    <3>3. r >= n
      BY <2>2, <3>1, <3>2, FrameFacts
    <3>4. /\ completed_frames' \subseteq c
          /\ next_decode' = r /\ flush' = r /\ decode_wait' \in Positions
      BY <3>1, FrameFacts DEF FlushDecodes, From
    <3> QED
      BY <1>3, <3>1, <3>2, <3>3, <3>4 DEF FlushResult
  <2>6. CASE m \in c
    BY <2>1, <2>3, <2>4, <2>6 DEF FlushNext
  <2>7. CASE m \notin c
    BY <2>1, <2>3, <2>5, <2>7 DEF FlushMissing, From
  <2> QED
    BY <2>6, <2>7
<1> QED
  BY <1>1, <1>2, <1>3 DEF FlushRuns

-------------------------------------------------------------------------------
(* What the pieces of the handlers do to the decode position and the decoder.  *)

DecoderSame == UNCHANGED <<decoder, in_decoder>>
DecoderFails == decoder' = "closed" /\ in_decoder' = 0

LEMMA DecoderTypes ==
  ASSUME DecodeTypes, DecoderSame \/ DecoderFails
  PROVE  decoder' \in {"absent", "configured", "running", "closed"} /\ in_decoder' \in Nat
<1>1. CASE DecoderSame
  BY <1>1 DEF DecodeTypes, DecoderSame
<1>2. CASE DecoderFails
  BY <1>2 DEF DecoderFails
<1> QED
  BY <1>1, <1>2

LEMMA EnterRecoveryInv ==
  ASSUME DecodeInv, EnterRecovery, flush' = flush, DecoderSame \/ DecoderFails
  PROVE  DecodeInv'
<1>1. DecodeTypes'
  BY FrameFacts, DecoderTypes DEF DecodeInv, DecodeTypes, EnterRecovery
<1>2. PositionAhead'
  BY FrameFacts DEF DecodeInv, DecodeTypes, PositionAhead, EnterRecovery
<1>3. FreshDecoder'
  <2>1. need_keyframe' /\ next_decode' = NoFrame /\ flush' = flush
    BY DEF EnterRecovery
  <2>2. CASE DecoderSame
    BY <2>1, <2>2 DEF DecodeInv, FreshDecoder, DecoderSame
  <2>3. CASE DecoderFails
    BY <2>3 DEF FreshDecoder, DecoderFails
  <2> QED
    BY <2>2, <2>3
<1>4. SuspendedPosition'
  BY DEF EnterRecovery, SuspendedPosition
<1> QED
  BY <1>1, <1>2, <1>3, <1>4 DEF DecodeInv

LEMMA RequestRecoveryInv ==
  ASSUME DecodeInv, RequestRecovery, flush' = flush, DecoderSame \/ DecoderFails
  PROVE  DecodeInv'
<1>1. /\ next_decode' \in Positions /\ next_decode' >= next_decode
      /\ next_decode = NoFrame <=> next_decode' = NoFrame
  <2>1. CASE next_decode' = next_decode
    BY <2>1, FrameFacts DEF DecodeInv, DecodeTypes
  <2>2. CASE next_decode # NoFrame /\ next_decode' \in RecoveryKeys
    <3>1. next_decode' \in Frames /\ next_decode' >= next_decode
      BY <2>2 DEF RecoveryKeys, From, DecodeInv, DecodeTypes
    <3> QED
      BY <2>2, <3>1, FrameFacts
  <2> QED
    BY <2>1, <2>2 DEF RequestRecovery
<1>2. DecodeTypes'
  BY <1>1, DecoderTypes DEF RequestRecovery, DecodeInv, DecodeTypes
<1>3. PositionAhead'
  BY <1>1, FrameFacts DEF RequestRecovery, DecodeInv, DecodeTypes, PositionAhead
<1>4. need_keyframe'
  BY DEF RequestRecovery
<1>5. FreshDecoder'
  <2>1. CASE DecoderSame
    BY <1>1, <1>4, <2>1 DEF DecodeInv, FreshDecoder, DecoderSame
  <2>2. CASE DecoderFails
    BY <2>2 DEF FreshDecoder, DecoderFails
  <2> QED
    BY <2>1, <2>2
<1>6. SuspendedPosition'
  BY DEF RequestRecovery, RecoveryKeys, DecodeInv, SuspendedPosition
<1> QED
  BY <1>2, <1>3, <1>5, <1>6 DEF DecodeInv

LEMMA NoRecoveryInv ==
  ASSUME DecodeInv, NoRecovery, flush' = flush, DecoderSame \/ DecoderFails
  PROVE  DecodeInv'
  BY DEF DecodeInv, DecodeTypes, PositionAhead, FreshDecoder, SuspendedPosition,
         NoRecovery, mode, DecoderSame, DecoderFails

(* A call of the flush; the recovery mode may be entered with it, as long as   *)
(* nothing is complete.                                                        *)
LEMMA FlushCalledInv ==
  ASSUME DecodeInv, NEW c \in SUBSET Frames, NEW e, FlushCalled(c, e),
         DecoderSame, last_fed' = last_fed,
         \/ UNCHANGED mode
         \/ c = {} /\ need_keyframe' = TRUE /\ awaiting_output' = FALSE
  PROVE  DecodeInv'
<1> USE FrameFacts
<1>1. CASE flush # NoFrame \/ c = {}
  <2>1. /\ completed_frames' = c
        /\ UNCHANGED <<next_decode, decode_wait, flush>>
    BY <1>1 DEF FlushCalled, FlushRuns, FlushReturns
  <2>2. need_keyframe => need_keyframe'
    BY DEF mode
  <2>3. DecodeTypes'
    BY <2>1 DEF DecodeInv, DecodeTypes, DecoderSame, mode
  <2>4. PositionAhead'
    BY <2>1 DEF DecodeInv, PositionAhead
  <2>5. FreshDecoder'
    BY <2>1, <2>2 DEF DecodeInv, FreshDecoder, DecoderSame
  <2>6. SuspendedPosition'
    BY <2>1, <2>2 DEF DecodeInv, SuspendedPosition
  <2> QED
    BY <2>3, <2>4, <2>5, <2>6 DEF DecodeInv
<1>3. CASE flush = NoFrame /\ c # {}
  <2>1. FlushResult(c, next_decode)
    BY <1>3, FlushRunsResult DEF FlushCalled, DecodeInv, DecodeTypes
  <2>2. DecodeTypes'
    BY <1>3, <2>1 DEF FlushResult, DecodeInv, DecodeTypes, DecoderSame, mode
  <2>3. PositionAhead'
    BY <1>3, <2>1 DEF FlushResult, DecodeInv, DecodeTypes, PositionAhead
  <2>4. FreshDecoder'
    BY <1>3, <2>1 DEF FlushResult, DecodeInv, DecodeTypes, FreshDecoder, DecoderSame, mode
  <2>5. SuspendedPosition'
    BY <1>3, <2>1 DEF FlushResult, DecodeInv, SuspendedPosition, mode
  <2> QED
    BY <2>2, <2>3, <2>4, <2>5 DEF DecodeInv
<1> QED
  BY <1>1, <1>3

LEMMA ResumeDecodeInv ==
  ASSUME DecodeInv, ResumeDecode
  PROVE  DecodeInv'
<1> USE FrameFacts
<1> DEFINE c == completed_frames \ {flush}
<1>1. flush \in Frames /\ c \in SUBSET Frames /\ flush + 1 \in Positions
  BY DEF ResumeDecode, DecodeInv, DecodeTypes
<1>2. FlushResult(c, flush + 1)
  BY <1>1, FlushRunsResult DEF ResumeDecode, PositionAfter, DecodeInv, DecodeTypes
<1>3. DecodeTypes'
  BY <1>1, <1>2 DEF FlushResult, ResumeDecode, DecodeInv, DecodeTypes
<1>4. PositionAhead'
  BY <1>1, <1>2 DEF FlushResult, ResumeDecode, PositionAhead
<1>5. FreshDecoder'
  BY DEF ResumeDecode, FreshDecoder
<1>6. SuspendedPosition'
  BY <1>2 DEF FlushResult, ResumeDecode, SuspendedPosition
<1> QED
  BY <1>3, <1>4, <1>5, <1>6 DEF DecodeInv

LEMMA ResumeThrowsInv ==
  ASSUME DecodeInv, ResumeThrows
  PROVE  DecodeInv'
<1>1. decoder # "running" /\ in_decoder' = in_decoder
  BY DEF ResumeThrows
<1>2. in_decoder = 0
  BY <1>1 DEF DecodeInv, DecodeTypes, FreshDecoder
<1>3. /\ need_keyframe' = TRUE /\ awaiting_output' = FALSE
      /\ next_decode' = NoFrame /\ flush' = NoFrame
  BY DEF ResumeThrows, EnterRecovery
<1>4. DecodeTypes'
  BY FrameFacts, <1>3 DEF DecodeInv, DecodeTypes, ResumeThrows, EnterRecovery
<1>5. PositionAhead'
  BY <1>3 DEF ResumeThrows, EnterRecovery, PositionAhead
<1>6. FreshDecoder'
  BY <1>1, <1>2, <1>3 DEF FreshDecoder
<1>7. SuspendedPosition'
  BY <1>3 DEF SuspendedPosition
<1> QED
  BY <1>4, <1>5, <1>6, <1>7 DEF DecodeInv

LEMMA DecoderOutputInv ==
  ASSUME DecodeInv, DecoderOutput
  PROVE  DecodeInv'
<1>1. /\ in_decoder > 0 /\ in_decoder' = in_decoder - 1 /\ decoder' = decoder
      /\ awaiting_output' = FALSE /\ need_keyframe' = FALSE
      /\ UNCHANGED <<position, last_fed>>
  BY DEF DecoderOutput, history
<1>2. decoder = "running"
  BY <1>1 DEF DecodeInv, FreshDecoder
<1>3. DecodeTypes'
  <2>1. in_decoder' \in Nat
    BY <1>1 DEF DecodeInv, DecodeTypes
  <2>2. need_keyframe' \in BOOLEAN /\ awaiting_output' \in BOOLEAN
    BY <1>1
  <2> QED
    BY <1>1, <2>1, <2>2 DEF DecodeInv, DecodeTypes, position
<1>4. PositionAhead'
  BY <1>1 DEF DecodeInv, PositionAhead, position
<1>5. FreshDecoder'
  BY <1>1, <1>2 DEF FreshDecoder
<1>6. SuspendedPosition'
  BY <1>1 DEF DecodeInv, SuspendedPosition, position
<1> QED
  BY <1>3, <1>4, <1>5, <1>6 DEF DecodeInv

(* A pipeline that has just been created or stopped. *)
LEMMA FreshPipeline ==
  /\ completed_frames = {} /\ next_decode = NoFrame /\ decode_wait = NoFrame
  /\ flush = NoFrame /\ last_fed = NoFrame
  /\ need_keyframe = TRUE /\ awaiting_output = FALSE
  /\ decoder = "absent" /\ in_decoder = 0
  => DecodeInv
<1> SUFFICES ASSUME completed_frames = {}, next_decode = NoFrame, decode_wait = NoFrame,
                    flush = NoFrame, last_fed = NoFrame,
                    need_keyframe = TRUE, awaiting_output = FALSE,
                    decoder = "absent", in_decoder = 0
             PROVE  DecodeInv
  OBVIOUS
<1>1. DecodeTypes
  <2>1. need_keyframe \in BOOLEAN /\ awaiting_output \in BOOLEAN
    OBVIOUS
  <2> QED
    BY <2>1, FrameFacts DEF DecodeTypes
<1>2. PositionAhead /\ SuspendedPosition
  BY DEF PositionAhead, SuspendedPosition
<1>3. FreshDecoder
  BY DEF FreshDecoder
<1> QED
  BY <1>1, <1>2, <1>3 DEF DecodeInv

LEMMA FreshPipelinePrime ==
  ASSUME completed_frames' = {}, next_decode' = NoFrame, decode_wait' = NoFrame,
         flush' = NoFrame, last_fed' = NoFrame,
         need_keyframe' = TRUE, awaiting_output' = FALSE,
         decoder' = "absent", in_decoder' = 0
  PROVE  DecodeInv'
<1>1. DecodeTypes'
  <2>1. need_keyframe' \in BOOLEAN /\ awaiting_output' \in BOOLEAN
    OBVIOUS
  <2> QED
    BY <2>1, FrameFacts DEF DecodeTypes
<1>2. PositionAhead' /\ SuspendedPosition'
  BY DEF PositionAhead, SuspendedPosition
<1>3. FreshDecoder'
  BY DEF FreshDecoder
<1> QED
  BY <1>1, <1>2, <1>3 DEF DecodeInv

LEMMA DecodeUnchanged ==
  ASSUME DecodeInv, UNCHANGED <<position, mode, decoder, in_decoder, last_fed>>
  PROVE  DecodeInv'
  BY DEF DecodeInv, DecodeTypes, PositionAhead, FreshDecoder, SuspendedPosition, position, mode

-------------------------------------------------------------------------------
(* What the handlers do to the frame buffer. *)

LEMMA PacketTypes ==
  ASSUME NEW p \in Packets
  PROVE  p.frame \in Frames /\ p.id \in 0 .. 15
  BY DEF Packets, AllPackets

LEMMA EntryUnchanged ==
  ASSUME EntryInv, UNCHANGED <<entry, expired_frames>>
  PROVE  EntryInv'
  BY DEF EntryInv, ExpiredStaysOut, entry

(* An entry that is deleted takes its deadline and its cutoff along; only then *)
(* may its frame be marked expired.                                            *)
LEMMA EntryDeletedInv ==
  ASSUME EntryInv, NEW f \in Frames, EntryDeleted(f),
         expired_frames' \subseteq expired_frames \cup {f}
  PROVE  EntryInv'
  BY DEF EntryInv, ExpiredStaysOut, EntryDeleted

LEMMA IngestEntryInv ==
  ASSUME EntryInv, NEW p \in Packets, Ingest(p)
  PROVE  EntryInv'
<1> DEFINE f == p.frame
<1> DEFINE data == IF p.fec THEN packets[f] ELSE packets[f] \cup {p.id}
<1> DEFINE fec == IF p.fec THEN fec_packets[f] \cup {p.id} ELSE fec_packets[f]
<1>1. f \in Frames /\ data \in SUBSET (0 .. 15) /\ fec \in SUBSET (0 .. 15)
  BY PacketTypes DEF EntryInv
<1>2. expired_frames' = expired_frames
  BY DEF Ingest
<1>3. CASE IngestLate(p)
  BY <1>2, <1>3, EntryUnchanged DEF IngestLate
<1>4. CASE EntryDeleted(f)
  BY <1>1, <1>2, <1>4, EntryDeletedInv
<1>5. CASE /\ f \notin expired_frames
           /\ frame_buffer' = frame_buffer \cup {f}
           /\ packets' = [packets EXCEPT ![f] = data]
           /\ fec_packets' = [fec_packets EXCEPT ![f] = fec]
           /\ overdue' \subseteq overdue /\ cutoff' = cutoff
  <2> HIDE DEF f, data, fec
  <2> QED
    BY <1>1, <1>2, <1>5 DEF EntryInv, ExpiredStaysOut
<1> QED
  BY <1>3, <1>4, <1>5 DEF Ingest, IngestNew, MarkedExpired, TimingRefreshed

-------------------------------------------------------------------------------
(* The invariant. *)

LEMMA InvInit == Init => Inv
<1> SUFFICES ASSUME Init PROVE Inv
  OBVIOUS
<1>1. DecodeInv
  BY FreshPipeline DEF Init
<1>2. EntryInv
  BY DEF Init, EntryInv, ExpiredStaysOut
<1>3. OtherTypes /\ LoopOverEntries
  <2>1. retrans \in [Frames -> [0 .. 15 -> 0 .. MaxRetrans]] /\ drops \in 0 .. DropThreshold
    BY BoundsAssumption DEF Init
  <2>2. stale_output \in BOOLEAN
    BY DEF Init
  <2> QED
    BY <2>1, <2>2 DEF Init, OtherTypes, LoopOverEntries
<1> QED
  BY <1>1, <1>2, <1>3 DEF Inv

(* Every piece of a handler that touches drops counts at most one more drop. *)
DropsCounted ==
  \E run \in {0, drops} : drops' = IF run < DropThreshold THEN run + 1 ELSE DropThreshold

LEMMA DropsBounded ==
  ASSUME drops \in 0 .. DropThreshold, DropsCounted
  PROVE  drops' \in 0 .. DropThreshold
  BY BoundsAssumption DEF DropsCounted

(* A step outside the health check's loop, or one that ends in another phase,  *)
(* need not look at the loop.                                                  *)
LEMMA LoopKept ==
  ASSUME LoopOverEntries,
         \/ phase' # "loop"
         \/ phase # "loop" /\ phase' = phase
         \/ todo' \subseteq todo /\ frame_buffer' = frame_buffer /\ phase' = phase
  PROVE  LoopOverEntries'
  BY DEF LoopOverEntries

LEMMA TaskStep ==
  ASSUME Inv, PollBegin \/ HealthLoop \/ TaskEnd
  PROVE  Inv'
<1>1. UNCHANGED <<entry, expired_frames, position, mode, codec, history, wire, drops>>
  BY DEF PollBegin, HealthLoop, TaskEnd
<1>2. /\ phase' \in {"idle", "poll", "promote", "loop", "micro"}
      /\ todo' \subseteq Frames
      /\ phase' = "loop" => todo' = frame_buffer
  BY DEF PollBegin, HealthLoop, TaskEnd, Inv, OtherTypes, EntryInv
<1>3. DecodeInv' /\ EntryInv'
  BY <1>1, DecodeUnchanged, EntryUnchanged DEF Inv, codec, history
<1>4. LoopOverEntries'
  BY <1>1, <1>2 DEF LoopOverEntries, entry
<1>5. OtherTypes'
  BY <1>1, <1>2 DEF Inv, OtherTypes, codec, history, wire
<1> QED
  BY <1>3, <1>4, <1>5 DEF Inv

LEMMA HealthStep ==
  ASSUME Inv, HealthBegin \/ HealthEnd
  PROVE  Inv'
<1>1. /\ UNCHANGED <<todo, wire, entry, expired_frames, flush, drops, codec, assembled>>
      /\ phase' \in {"promote", "micro"}
  BY DEF HealthBegin, HealthEnd
<1>2. NoRecovery \/ RequestRecovery \/ EnterRecovery
  BY DEF HealthBegin, HealthEnd
<1>3. DecodeInv'
  BY <1>1, <1>2, NoRecoveryInv, RequestRecoveryInv, EnterRecoveryInv
  DEF Inv, DecoderSame, codec
<1>4. EntryInv' /\ LoopOverEntries'
  BY <1>1, EntryUnchanged, LoopKept DEF Inv
<1>5. OtherTypes'
  BY <1>1 DEF Inv, OtherTypes, wire, codec
<1> QED
  BY <1>3, <1>4, <1>5 DEF Inv

LEMMA IngestStep ==
  ASSUME Inv, NEW p \in net, Ingest(p)
  PROVE  Inv'
<1>1. p \in Packets /\ p.frame \in Frames
  BY PacketTypes DEF Inv, OtherTypes
<1>2. /\ UNCHANGED <<phase, todo, retrans, expired_frames, mode, drops, codec, last_fed>>
      /\ net' \subseteq net /\ phase # "loop"
  BY DEF Ingest
<1>3. DecodeInv' /\ assembled' \subseteq Frames
  <2>1. CASE UNCHANGED <<position, assembled>>
    BY <1>2, <2>1, DecodeUnchanged DEF codec, Inv, OtherTypes
  <2>2. CASE /\ assembled' = assembled \cup {p.frame}
             /\ FlushCalled(completed_frames \cup {p.frame}, expired_frames)
    <3>1. completed_frames \cup {p.frame} \in SUBSET Frames
      BY <1>1 DEF Inv, DecodeInv, DecodeTypes
    <3>2. DecoderSame
      BY <1>2 DEF DecoderSame, codec
    <3> QED
      BY <1>1, <1>2, <2>2, <3>1, <3>2, FlushCalledInv DEF Inv, OtherTypes
  <2> QED
    BY <2>1, <2>2 DEF Ingest, IngestLate, IngestNew
<1>4. EntryInv' /\ LoopOverEntries'
  BY <1>1, <1>2, IngestEntryInv, LoopKept DEF Inv
<1>5. OtherTypes'
  BY <1>2, <1>3 DEF Inv, OtherTypes, codec
<1> QED
  BY <1>3, <1>4, <1>5 DEF Inv

LEMMA DropOverdueStep ==
  ASSUME Inv, NEW f \in Frames, DropOverdue(f)
  PROVE  Inv'
<1>1. DecodeInv'
  <2>1. \/ UNCHANGED mode
        \/ completed_frames = {} /\ need_keyframe' = TRUE /\ awaiting_output' = FALSE
    BY DEF DropOverdue, RecoveryMayBeDue
  <2>2. DecoderSame /\ last_fed' = last_fed /\ FlushCalled(completed_frames, expired_frames')
    BY DEF DropOverdue, codec, history, DecoderSame
  <2> QED
    BY <2>1, <2>2, FlushCalledInv DEF Inv, DecodeInv, DecodeTypes
<1>2. EntryInv'
  BY EntryDeletedInv DEF DropOverdue, Inv
<1>3. LoopOverEntries'
  BY DEF Inv, LoopOverEntries, DropOverdue, Visit, EntryDeleted
<1>4. drops' \in 0 .. DropThreshold
  BY DropsBounded DEF DropOverdue, DropsCounted, Inv, OtherTypes
<1>5. OtherTypes'
  BY <1>4 DEF DropOverdue, Visit, Inv, OtherTypes, wire, codec, history
<1> QED
  BY <1>1, <1>2, <1>3, <1>5 DEF Inv

LEMMA RepairCutoffStep ==
  ASSUME Inv, NEW f \in Frames, RepairCutoff(f)
  PROVE  Inv'
<1>1. NoRecovery \/ RequestRecovery \/ EnterRecovery
  BY DEF RepairCutoff
<1>2. flush' = flush /\ DecoderSame
  BY DEF RepairCutoff, DecoderSame, codec
<1>3. DecodeInv'
  BY <1>1, <1>2, NoRecoveryInv, RequestRecoveryInv, EnterRecoveryInv DEF Inv
<1>4. f \in frame_buffer
  BY DEF RepairCutoff, Visit, Inv, LoopOverEntries
<1>5. EntryInv' /\ LoopOverEntries'
  BY <1>4, LoopKept DEF RepairCutoff, Visit, Inv, EntryInv, ExpiredStaysOut
<1>6. OtherTypes'
  BY DEF RepairCutoff, Visit, Inv, OtherTypes, wire, codec
<1> QED
  BY <1>3, <1>5, <1>6 DEF Inv

LEMMA NackStep ==
  ASSUME Inv, NEW f \in Frames, Nack(f)
  PROVE  Inv'
<1>1. PICK lost \in SUBSET (DataPackets(f) \ packets[f]) :
        /\ \A i \in lost : retrans[f][i] < MaxRetrans
        /\ net' = net \cup {[frame |-> f, id |-> i, fec |-> FALSE] : i \in lost}
        /\ retrans' = [retrans EXCEPT ![f] =
                         [i \in 0 .. 15 |-> IF i \in lost THEN @[i] + 1 ELSE @[i]]]
  BY DEF Nack
<1>2. /\ UNCHANGED <<phase, entry, expired_frames, position, mode, drops, codec, history>>
      /\ todo' \subseteq todo
  BY DEF Nack, Visit
<1>3. net' \subseteq Packets
  <2>1. DataPackets(f) \subseteq 0 .. 15
    BY DataCountAssumption DEF DataPackets
  <2>2. \A i \in lost : [frame |-> f, id |-> i, fec |-> FALSE] \in Packets
    BY <1>1, <2>1 DEF Packets, AllPackets
  <2> QED
    BY <1>1, <2>2 DEF Inv, OtherTypes
<1>4. retrans' \in [Frames -> [0 .. 15 -> 0 .. MaxRetrans]]
  <2>1. [i \in 0 .. 15 |-> IF i \in lost THEN retrans[f][i] + 1 ELSE retrans[f][i]]
          \in [0 .. 15 -> 0 .. MaxRetrans]
    BY <1>1, BoundsAssumption DEF Inv, OtherTypes
  <2> QED
    BY <1>1, <2>1 DEF Inv, OtherTypes
<1>5. DecodeInv' /\ EntryInv'
  BY <1>2, DecodeUnchanged, EntryUnchanged DEF Inv, codec, history
<1>6. LoopOverEntries'
  BY <1>2, LoopKept DEF Inv, entry
<1>7. OtherTypes'
  BY <1>2, <1>3, <1>4 DEF Inv, OtherTypes, codec, history
<1> QED
  BY <1>5, <1>6, <1>7 DEF Inv

LEMMA TimeStep ==
  ASSUME Inv, NEW f \in Frames, DeadlinePasses(f) \/ MarkLapses(f)
  PROVE  Inv'
<1>1. /\ UNCHANGED <<phase, todo, wire, frame_buffer, packets, fec_packets, cutoff,
                     position, mode, drops, codec, history>>
      /\ overdue' \subseteq overdue \cup frame_buffer
      /\ expired_frames' \subseteq expired_frames
  BY DEF DeadlinePasses, MarkLapses, entry
<1>2. DecodeInv'
  BY <1>1, DecodeUnchanged DEF Inv, codec, history
<1>3. EntryInv' /\ LoopOverEntries'
  BY <1>1, LoopKept DEF Inv, EntryInv, ExpiredStaysOut
<1>4. OtherTypes'
  BY <1>1 DEF Inv, OtherTypes, wire, codec, history
<1> QED
  BY <1>2, <1>3, <1>4 DEF Inv

LEMMA ResumeStep ==
  ASSUME Inv, ResumeDecode \/ ResumeThrows
  PROVE  Inv'
<1>1. DecodeInv'
  BY ResumeDecodeInv, ResumeThrowsInv DEF Inv
<1>2. UNCHANGED <<phase, todo, wire, entry, expired_frames, assembled>>
  BY DEF ResumeDecode, ResumeThrows
<1>3. EntryInv' /\ LoopOverEntries'
  BY <1>2, EntryUnchanged, LoopKept DEF Inv, entry
<1>4. drops' \in 0 .. DropThreshold
  BY BoundsAssumption DEF ResumeDecode, ResumeThrows, Inv, OtherTypes
<1>5. stale_output' \in BOOLEAN
  BY DEF ResumeDecode, ResumeThrows, Inv, OtherTypes
<1>6. OtherTypes'
  BY <1>2, <1>4, <1>5 DEF Inv, OtherTypes, wire
<1> QED
  BY <1>1, <1>3, <1>6 DEF Inv

LEMMA DecoderStep ==
  ASSUME Inv, DecoderOutput \/ DecoderError
  PROVE  Inv'
<1>1. DecodeInv'
  <2>1. CASE DecoderOutput
    BY <2>1, DecoderOutputInv DEF Inv
  <2>2. CASE DecoderError
    <3>1. NoRecovery \/ RequestRecovery \/ EnterRecovery
      BY <2>2 DEF DecoderError
    <3>2. DecoderFails /\ flush' = flush
      BY <2>2 DEF DecoderError, DecoderFails
    <3> QED
      BY <3>1, <3>2, NoRecoveryInv, RequestRecoveryInv, EnterRecoveryInv DEF Inv
  <2> QED
    BY <2>1, <2>2
<1>2. UNCHANGED <<phase, todo, wire, entry, expired_frames, assembled>>
  BY DEF DecoderOutput, DecoderError, history
<1>3. EntryInv' /\ LoopOverEntries'
  BY <1>2, EntryUnchanged, LoopKept DEF Inv, entry
<1>4. drops' \in 0 .. DropThreshold
  BY DropsBounded DEF DecoderOutput, DecoderError, DropsCounted, Inv, OtherTypes
<1>5. stale_output' \in BOOLEAN
  BY DEF DecoderOutput, DecoderError, Inv, OtherTypes
<1>6. OtherTypes'
  BY <1>2, <1>4, <1>5 DEF Inv, OtherTypes, wire
<1> QED
  BY <1>1, <1>3, <1>6 DEF Inv

LEMMA StopStep ==
  ASSUME Inv, StopViewer
  PROVE  Inv'
<1>1. DecodeInv'
  BY FreshPipelinePrime DEF StopViewer, EnterRecovery
<1>2. EntryInv' /\ LoopOverEntries'
  BY LoopKept DEF StopViewer, Inv, EntryInv, ExpiredStaysOut
<1>3. drops' \in 0 .. DropThreshold
  BY BoundsAssumption DEF StopViewer
<1>4. stale_output' \in BOOLEAN
  BY DEF StopViewer
<1>5. OtherTypes'
  BY <1>3, <1>4 DEF StopViewer, Inv, OtherTypes, wire
<1> QED
  BY <1>1, <1>2, <1>5 DEF Inv

LEMMA StartStep ==
  ASSUME Inv, StartViewer
  PROVE  Inv'
<1>1. /\ UNCHANGED <<phase, todo, wire, entry, expired_frames, completed_frames, next_decode,
                      flush, awaiting_output, in_decoder, stale_output, history>>
      /\ need_keyframe' = TRUE /\ decode_wait' = NoFrame /\ drops' = 0
      /\ decoder' = IF decoder = "absent" THEN "configured" ELSE decoder
  BY DEF StartViewer
<1>2. DecodeTypes'
  <2>1. need_keyframe' \in BOOLEAN
    BY <1>1
  <2> QED
    BY <1>1, <2>1, FrameFacts DEF Inv, DecodeInv, DecodeTypes, history
<1>3. PositionAhead' /\ SuspendedPosition'
  BY <1>1 DEF Inv, DecodeInv, PositionAhead, SuspendedPosition, history
<1>4. FreshDecoder'
  BY <1>1 DEF Inv, DecodeInv, DecodeTypes, FreshDecoder
<1>5. EntryInv' /\ LoopOverEntries'
  BY <1>1, EntryUnchanged, LoopKept DEF Inv, entry
<1>6. drops' \in 0 .. DropThreshold
  BY <1>1, BoundsAssumption
<1>7. OtherTypes'
  BY <1>1, <1>6 DEF Inv, OtherTypes, wire, history
<1> QED
  BY <1>2, <1>3, <1>4, <1>5, <1>7 DEF Inv, DecodeInv

LEMMA InvNext == Inv /\ [Next]_vars => Inv'
<1> SUFFICES ASSUME Inv, [Next]_vars PROVE Inv'
  OBVIOUS
<1>1. CASE UNCHANGED vars
  <2>1. UNCHANGED <<phase, todo, wire, entry, expired_frames, position, mode, drops, codec,
                    history>>
    BY <1>1 DEF vars
  <2>2. DecodeInv' /\ EntryInv'
    BY <2>1, DecodeUnchanged, EntryUnchanged DEF Inv, codec, history
  <2> QED
    BY <2>1, <2>2, LoopKept DEF Inv, OtherTypes, wire, entry, codec, history
<1>2. CASE Next
  BY <1>2, TaskStep, HealthStep, IngestStep, DropOverdueStep, RepairCutoffStep, NackStep,
     TimeStep, ResumeStep, DecoderStep, StopStep, StartStep
  DEF Next
<1> QED
  BY <1>1, <1>2

-------------------------------------------------------------------------------
(* The theorems. *)

(* The inductive invariant holds in every reachable state. *)
THEOREM Invariance == Spec => []Inv
  BY InvInit, InvNext, PTL DEF Spec

(* The viewer's frame layer keeps its types. *)
THEOREM TypeCorrect == Spec => []TypeOK
  BY Invariance, InvTypes, PTL

(* No entry is ever created for a frame whose expiry mark stands. *)
THEOREM ExpiredFramesStayOut == Spec => []ExpiredStaysOut
<1>1. Inv => ExpiredStaysOut
  BY DEF Inv, EntryInv
<1> QED
  BY <1>1, Invariance, PTL

(* Between two recoveries the decoder is fed in increasing frame order. *)
THEOREM DecodesInOrder == Spec => []FeedsInOrder
<1>1. Inv => FeedsInOrder
  BY DEF Inv, DecodeInv, PositionAhead, FeedsInOrder
<1> QED
  BY <1>1, Invariance, PTL

(* A decoder without a first chunk is only ever given a keyframe. *)
THEOREM FreshDecoderGetsKey == Spec => []FirstChunkIsKey
<1>1. Inv => FirstChunkIsKey
  BY DEF Inv, DecodeInv, FreshDecoder, FirstChunkIsKey
<1> QED
  BY <1>1, Invariance, PTL

-------------------------------------------------------------------------------
(* What leaves rx_completed_frames. *)

(* An intact chain of complete frames from k, the position n or a keyframe, up *)
(* to f.                                                                       *)
Chain(c, n, k, f) ==
  /\ k \in c /\ n <= k /\ k <= f
  /\ k = n \/ k \in Keyframes
  /\ k .. f \subseteq c

(* A run of the flush over the complete frames c from position n keeps every   *)
(* chain, whether it anchors, jumps over a missing frame, skips or returns.    *)
LEMMA FlushKeepsChains ==
  ASSUME NEW c \in SUBSET Frames, NEW e, NEW n \in Positions, NEW w, NEW awaiting,
         FlushRuns(c, e, n, w, awaiting),
         NEW k \in Frames, NEW f \in Frames, Chain(c, n, k, f)
  PROVE  f \in completed_frames'
<1>1. /\ k \in c /\ f \in c /\ n <= k /\ k <= f /\ k # NoFrame
      /\ k = n \/ k \in Keyframes
      /\ k \in Nat /\ f \in Nat /\ n \in Nat
  BY FrameFacts DEF Chain
<1>2. CASE completed_frames' = c
  BY <1>1, <1>2
<1>3. ASSUME NEW r \in c, r <= k, FlushDecodes(From(c, r), r)
      PROVE  f \in completed_frames'
  <2>1. r \in Nat
    BY <1>3, FrameFacts
  <2> QED
    BY <1>1, <1>3, <2>1 DEF FlushDecodes, From
<1>4. CASE n = NoFrame /\ FlushAnchors(c, w)
  <2>1. k \in IF need_keyframe THEN c \cap Keyframes ELSE c
    BY <1>1, <1>4
  <2> QED
    BY <1>2, <1>3, <1>4, <2>1 DEF FlushAnchors, FlushReturns, IsLeast
<1>5. ASSUME NEW m \in n .. NumFrames + 1, SkipsTo(c, e, n, m),
             IF m \in c THEN FlushNext(c, m, awaiting)
             ELSE FlushMissing(c, m, IF m = n THEN w ELSE NoFrame)
      PROVE  f \in completed_frames'
  <2>1. CASE m \in c
    BY <1>2, <1>5, <2>1 DEF FlushNext, FlushReturns, FlushDecodes
  <2>2. CASE m \notin c
    <3>1. m \in Int /\ m >= n
      BY <1>1
    <3>2. k > m
      <4>1. k # m
        BY <1>1, <2>2
      <4>2. ~(k < m)
        BY <1>1, <1>5, <3>1 DEF SkipsTo
      <4> QED
        BY <1>1, <3>1, <4>1, <4>2
    <3>3. k \in From(c, m) \cap Keyframes
      BY <1>1, <3>1, <3>2 DEF From
    <3>4. FlushMissing(c, m, IF m = n THEN w ELSE NoFrame)
      BY <1>5, <2>2
    <3>5. CASE FlushReturns(c, m, m)
      BY <1>2, <3>5 DEF FlushReturns
    <3>6. CASE \E r \in From(c, m) \cap Keyframes :
                 /\ IsLeast(r, From(c, m) \cap Keyframes)
                 /\ FlushDecodes(From(c, r), r)
      BY <1>3, <3>3, <3>6 DEF IsLeast, From
    <3> QED
      BY <3>3, <3>4, <3>5, <3>6 DEF FlushMissing
  <2> QED
    BY <2>1, <2>2
<1> QED
  BY <1>1, <1>4, <1>5 DEF FlushRuns

(* What DecodableIsKept says of one step. *)
KeepsDecodable ==
  \A f \in completed_frames \ completed_frames' :
    Decodable(f) => last_fed' = f \/ next_decode' = NoFrame

LEMMA FlushCalledKeeps ==
  ASSUME DecodeInv, NEW c \in SUBSET Frames, NEW e, completed_frames \subseteq c,
         FlushCalled(c, e)
  PROVE  KeepsDecodable
<1>1. CASE flush # NoFrame
  BY <1>1 DEF FlushCalled, KeepsDecodable
<1>2. CASE flush = NoFrame
  <2> SUFFICES ASSUME NEW f \in completed_frames, Decodable(f)
               PROVE  f \in completed_frames'
    BY DEF KeepsDecodable
  <2>1. PICK k \in completed_frames : Chain(completed_frames, next_decode, k, f)
    BY DEF Decodable, Chain
  <2>2. Chain(c, next_decode, k, f) /\ k \in Frames /\ f \in Frames
    BY <2>1 DEF Chain
  <2> QED
    BY <1>2, <2>2, FlushKeepsChains DEF FlushCalled, DecodeInv, DecodeTypes
<1> QED
  BY <1>1, <1>2

LEMMA RecoveryKeeps ==
  ASSUME NoRecovery \/ RequestRecovery \/ EnterRecovery
  PROVE  KeepsDecodable
  BY DEF NoRecovery, RequestRecovery, EnterRecovery, KeepsDecodable

LEMMA UntouchedKeeps ==
  ASSUME completed_frames' = completed_frames
  PROVE  KeepsDecodable
  BY DEF KeepsDecodable

(* The continuation of a decode starts behind its frame.  A chain from that    *)
(* frame goes on there; any other chain it may meet starts at a keyframe.      *)
LEMMA ResumeKeeps ==
  ASSUME DecodeInv, ResumeDecode
  PROVE  KeepsDecodable
<1> DEFINE c == completed_frames \ {flush}
<1>1. /\ flush \in Frames /\ c \in SUBSET Frames /\ flush + 1 \in Positions
      /\ last_fed' = flush
      /\ FlushRuns(c, expired_frames, flush + 1, decode_wait, need_keyframe)
  BY FrameFacts DEF ResumeDecode, PositionAfter, DecodeInv, DecodeTypes
<1> SUFFICES ASSUME NEW f \in completed_frames, Decodable(f), f # flush
             PROVE  f \in completed_frames'
  BY <1>1 DEF KeepsDecodable
<1>2. PICK k \in completed_frames :
        /\ next_decode <= k /\ flush <= k /\ k <= f
        /\ k = next_decode \/ k \in Keyframes
        /\ k .. f \subseteq completed_frames
  BY DEF Decodable
<1>3. k \in Frames /\ f \in Frames /\ k \in Nat /\ f \in Nat /\ flush \in Nat
  BY <1>1, FrameFacts DEF DecodeInv, DecodeTypes
<1>4. CASE k = flush
  <2>1. flush + 1 \in k .. f
    BY <1>2, <1>3, <1>4
  <2>2. flush + 1 \in c /\ flush + 1 <= f
    BY <1>2, <1>3, <2>1
  <2>3. flush + 1 .. f \subseteq c
    BY <1>2, <1>3, <1>4
  <2>4. Chain(c, flush + 1, flush + 1, f)
    BY <1>3, <2>2, <2>3 DEF Chain
  <2> QED
    BY <1>1, <1>3, <2>2, <2>4, FlushKeepsChains
<1>5. CASE k # flush
  <2>1. k \in Keyframes
    BY <1>1, <1>2, <1>3, <1>5, FrameFacts DEF DecodeInv, SuspendedPosition
  <2>2. k .. f \subseteq c /\ flush + 1 <= k /\ k \in c
    BY <1>2, <1>3, <1>5
  <2>3. Chain(c, flush + 1, k, f)
    BY <1>2, <2>1, <2>2 DEF Chain
  <2> QED
    BY <1>1, <1>3, <2>3, FlushKeepsChains
<1> QED
  BY <1>4, <1>5

LEMMA StepKeepsDecodable == Inv /\ Next => KeepsDecodable
<1> SUFFICES ASSUME Inv, Next PROVE KeepsDecodable
  OBVIOUS
<1>1. completed_frames \in SUBSET Frames /\ DecodeInv
  BY DEF Inv, DecodeInv, DecodeTypes
<1>2. ASSUME NEW p \in net, Ingest(p) PROVE KeepsDecodable
  <2>1. CASE UNCHANGED position
    BY <2>1, UntouchedKeeps DEF position
  <2>2. CASE FlushCalled(completed_frames \cup {p.frame}, expired_frames)
    <3>1. completed_frames \cup {p.frame} \in SUBSET Frames
      BY <1>1, PacketTypes DEF Inv, OtherTypes
    <3> QED
      BY <1>1, <2>2, <3>1, FlushCalledKeeps
  <2> QED
    BY <1>2, <2>1, <2>2 DEF Ingest, IngestLate, IngestNew
<1>3. ASSUME NEW f \in Frames, DropOverdue(f) PROVE KeepsDecodable
  BY <1>1, <1>3, FlushCalledKeeps DEF DropOverdue
<1>4. ASSUME NEW f \in Frames, RepairCutoff(f) PROVE KeepsDecodable
  BY <1>4, RecoveryKeeps DEF RepairCutoff
<1>5. CASE HealthBegin \/ HealthEnd \/ DecoderError \/ ResumeThrows \/ StopViewer
  BY <1>5, RecoveryKeeps DEF HealthBegin, HealthEnd, DecoderError, ResumeThrows, StopViewer
<1>6. CASE ResumeDecode
  BY <1>1, <1>6, ResumeKeeps
<1>7. ASSUME NEW f \in Frames, Nack(f) \/ DeadlinePasses(f) \/ MarkLapses(f)
      PROVE  KeepsDecodable
  BY <1>7, UntouchedKeeps DEF Nack, DeadlinePasses, MarkLapses, position
<1>8. CASE PollBegin \/ HealthLoop \/ TaskEnd \/ DecoderOutput \/ StartViewer
  BY <1>8, UntouchedKeeps
  DEF PollBegin, HealthLoop, TaskEnd, DecoderOutput, StartViewer, position
<1> QED
  BY <1>2, <1>3, <1>4, <1>5, <1>6, <1>7, <1>8 DEF Next

(* What the decoder could use is never thrown away: a complete frame with an   *)
(* intact chain from the position or from a complete keyframe is decoded or    *)
(* lost to a recovery, whatever jumps, skips and late continuations there are. *)
THEOREM DecodableFramesAreKept == Spec => DecodableIsKept
<1>1. Inv /\ [Next]_vars => [KeepsDecodable]_vars
  BY StepKeepsDecodable
<1>2. Spec => [][KeepsDecodable]_vars
  BY <1>1, Invariance, PTL DEF Spec
<1> QED
  BY <1>2 DEF DecodableIsKept, KeepsDecodable
=============================================================================

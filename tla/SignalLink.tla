------------------------------ MODULE SignalLink ------------------------------
(* What a viewer and a sharer tell each other over the signal connection       *)
(* (App/src/module/signal.js): join, share-ended, and the bad-link mode the    *)
(* viewer enters on poor reception and keeps the sharer in by a heartbeat      *)
(* (App/src/module/media.js).  The connection is a TCP stream: in order, but   *)
(* a break takes what was on its way, and each end learns of it only when it   *)
(* reads the event.                                                            *)
(*                                                                             *)
(* A message goes straight into the inbox of the other end; commands, epochs   *)
(* and retries are in module Session, and so is a form whose role is changed:  *)
(* here one end is the viewer and the other the sharer, as their forms say.    *)
(* What the reception statistics say, and whether a hold time is over, are     *)
(* choices.                                                                    *)
EXTENDS Integers, Sequences

CONSTANTS
  MaxBreaks,   \* bound: breaks of the connection, by the network or a user
  MaxInbox     \* bound: unread items of an end beyond which no new traffic starts

ASSUME LinkAssumption == MaxBreaks \in Nat /\ MaxInbox \in Nat \ {0}

VARIABLES
  link,     \* the TCP connection exists
  inbox,    \* by end: messages and system events not yet handled
  end,      \* by end: the fields of the `state' object
  breaks    \* bound: breaks so far

vars == <<link, inbox, end, breaks>>

Ends == {"viewer", "share"}
Other(p) == CHOOSE q \in Ends : q # p
Messages == {"join", "share-ended", "bad-link", "bad-link-clear"}
SystemEvents == {"connected", "disconnected"}

TypeOK ==
  /\ link \in BOOLEAN
  /\ inbox \in [Ends -> Seq(Messages \cup SystemEvents)]
  /\ end \in [Ends -> [ready : BOOLEAN, closing : BOOLEAN, signal_connected : BOOLEAN,
       media_open : BOOLEAN, start_requested : BOOLEAN, starting : BOOLEAN, cc_timer : BOOLEAN,
       bad_link_mode : BOOLEAN, hold : BOOLEAN, heartbeat : BOOLEAN,
       signal_state : {"", "on", "off"}]]
  /\ breaks \in 0 .. MaxBreaks
  /\ \A p \in Ends : Len(inbox[p]) <= 2 * MaxInbox + 2

Init ==
  /\ link = FALSE
  /\ inbox = [p \in Ends |-> <<>>]
  /\ end = [p \in Ends |-> [ready |-> FALSE, closing |-> FALSE, signal_connected |-> FALSE,
       media_open |-> FALSE, start_requested |-> FALSE, starting |-> FALSE, cc_timer |-> FALSE,
       bad_link_mode |-> FALSE, hold |-> FALSE, heartbeat |-> FALSE,
       signal_state |-> ""]]
  /\ breaks = 0

-------------------------------------------------------------------------------
(* Sending.  `s' is the state of end p after the handler's assignments.        *)

(* invoke("zt_signal_send"): on a broken connection the message is gone.       *)
Transmit(p, msg) ==
  IF link THEN inbox' = [inbox EXCEPT ![Other(p)] = Append(@, msg)]
  ELSE UNCHANGED inbox

Room == \A p \in Ends : Len(inbox[p]) < MaxInbox

(* send_signal: a failed send takes the flag back.                             *)
Sends(p, s, msg) ==
  IF s.signal_connected
  THEN /\ Room
       /\ Transmit(p, msg)
       /\ end' = [end EXCEPT ![p] = [s EXCEPT !.signal_connected = link]]
  ELSE end' = [end EXCEPT ![p] = s] /\ UNCHANGED inbox

Told(active) == IF active THEN "on" ELSE "off"

(* send_bad_link_signal: repeats are suppressed unless forced.                 *)
SendsBadLink(p, s, active, force) ==
  IF s.signal_connected /\ (force \/ s.signal_state # Told(active))
  THEN /\ Room
       /\ Transmit(p, IF active THEN "bad-link" ELSE "bad-link-clear")
       /\ end' = [end EXCEPT ![p] = [s EXCEPT !.signal_state = Told(active)]]
  ELSE end' = [end EXCEPT ![p] = s] /\ UNCHANGED inbox

-------------------------------------------------------------------------------
(* Bad-link mode                                                               *)

(* Variant: the heartbeat is stopped and the mode is kept.                     *)
HeartbeatStopped(s) == [s EXCEPT !.heartbeat = FALSE, !.signal_state = ""]

(* What stop_viewer_pipeline and reset_cc_runtime do to the mode.              *)
BadLinkReset(s) ==
  [s EXCEPT !.heartbeat = FALSE, !.bad_link_mode = FALSE, !.hold = FALSE, !.signal_state = ""]

(* set_bad_link_mode(true, reason, "viewer")                                   *)
Enters(p) ==
  LET s == [end[p] EXCEPT !.bad_link_mode = TRUE, !.hold = TRUE, !.heartbeat = TRUE]
  IN IF end[p].bad_link_mode THEN end' = [end EXCEPT ![p] = s] /\ UNCHANGED inbox
     ELSE SendsBadLink(p, s, TRUE, FALSE)

(* set_bad_link_mode(false, "", "viewer"): only once the hold time is over.    *)
MayLeave(p) == end[p].bad_link_mode /\ ~end[p].hold
Leaves(p) ==
  /\ MayLeave(p)
  /\ SendsBadLink(p, [end[p] EXCEPT !.bad_link_mode = FALSE, !.heartbeat = FALSE], FALSE, FALSE)

(* evaluate_bad_link_mode on the viewer, at every health check.  After         *)
(* disconnect_all has stopped the pipeline, BAD_LINK_WARMUP_MS keep it quiet.  *)
ReceptionIsPoor ==
  /\ end["viewer"].start_requested /\ ~end["viewer"].closing
  /\ Enters("viewer")
  /\ UNCHANGED <<link, breaks>>

ReceptionIsGood ==
  /\ Leaves("viewer")
  /\ UNCHANGED <<link, breaks>>

(* Variant: the sharer waits for the viewer's message.                         *)
ShareNeverLeaves == FALSE
ShareLeaves == Leaves("share")

(* evaluate_bad_link_mode on the sharer, which polls for control packets.      *)
ShareEvaluates ==
  /\ ShareLeaves
  /\ UNCHANGED <<link, breaks>>

HoldLapses(p) ==
  /\ end[p].hold
  /\ end' = [end EXCEPT ![p].hold = FALSE]
  /\ UNCHANGED <<link, inbox, breaks>>

(* Variant: the heartbeat does not force its message.                          *)
BeatsUnforced(s) == SendsBadLink("viewer", s, TRUE, FALSE)
Beats(s) == SendsBadLink("viewer", s, TRUE, TRUE)

HeartbeatTick ==
  /\ end["viewer"].heartbeat
  /\ IF end["viewer"].bad_link_mode /\ end["viewer"].start_requested
     THEN Beats(end["viewer"])
     ELSE end' = [end EXCEPT !["viewer"].heartbeat = FALSE] /\ UNCHANGED inbox
  /\ UNCHANGED <<link, breaks>>

-------------------------------------------------------------------------------
(* The handlers of an inbox                                                    *)

Peeked(p) == inbox      \* variant: the poll leaves what it reads in the inbox
Handled(p) == [inbox EXCEPT ![p] = Tail(@)]

(* A handler that sends takes its item and appends to the other inbox.         *)
Answers(p, s, msg) ==
  IF s.signal_connected
  THEN /\ end' = [end EXCEPT ![p] = [s EXCEPT !.signal_connected = link]]
       /\ inbox' = IF link THEN [Handled(p) EXCEPT ![Other(p)] = Append(@, msg)] ELSE Handled(p)
  ELSE end' = [end EXCEPT ![p] = s] /\ inbox' = Handled(p)

Becomes(p, s) == end' = [end EXCEPT ![p] = s] /\ inbox' = Handled(p)

(* What the viewer does about the end of the share.                            *)
ShareEndedSeen(s) == [BadLinkReset(s) EXCEPT !.start_requested = FALSE, !.cc_timer = FALSE]

(* The sharer answers a join with its own; the viewer starts to probe.         *)
OnJoin(p) ==
  IF p = "share" THEN Answers(p, end[p], "join")
  ELSE Becomes(p, [end[p] EXCEPT !.cc_timer = @ \/ end[p].start_requested])

OnShareEnded(p) == Becomes(p, IF p = "viewer" THEN ShareEndedSeen(end[p]) ELSE end[p])

(* set_share_bad_link_state                                                    *)
OnBadLink(p, active) ==
  Becomes(p, IF p = "share" THEN [end[p] EXCEPT !.bad_link_mode = active, !.hold = active]
             ELSE end[p])

(* Variant: the probes wait for a click.                                       *)
JoinsOnly(p) == Answers(p, [end[p] EXCEPT !.signal_connected = TRUE], "join")
OnConnected(p) ==
  Answers(p, [end[p] EXCEPT !.signal_connected = TRUE,
                            !.cc_timer = @ \/ (p = "viewer" /\ end[p].start_requested)], "join")

OnDisconnected(p) == Becomes(p, [end[p] EXCEPT !.signal_connected = FALSE])

Handle(p) ==
  /\ inbox[p] # <<>>
  /\ LET item == Head(inbox[p])
     IN \/ item = "join" /\ OnJoin(p)
        \/ item = "share-ended" /\ OnShareEnded(p)
        \/ item = "bad-link" /\ OnBadLink(p, TRUE)
        \/ item = "bad-link-clear" /\ OnBadLink(p, FALSE)
        \/ item = "connected" /\ OnConnected(p)
        \/ item = "disconnected" /\ OnDisconnected(p)
  /\ UNCHANGED <<link, breaks>>

-------------------------------------------------------------------------------
(* The users: connect, start, the end of the captured screen, disconnect.      *)

Connects(p) ==
  /\ ~end[p].ready /\ ~end[p].closing
  /\ end' = [end EXCEPT ![p].ready = TRUE]
  /\ UNCHANGED <<link, inbox, breaks>>

Restarted(s) == [BadLinkReset(s) EXCEPT !.start_requested = TRUE]

(* start_share_or_view: the mode is reset and start_requested set even when no *)
(* channel exists yet.  A viewer with both channels open awaits its first      *)
(* probe, a sharer its pipeline (bound: no second click while it waits).       *)
ViewerStarts ==
  /\ ~end["viewer"].starting
  /\ LET v == end["viewer"]
         opened == v.signal_connected /\ v.media_open
     IN end' = [end EXCEPT !["viewer"] =
                  [Restarted(v) EXCEPT !.starting = opened, !.cc_timer = @ \/ opened]]
  /\ UNCHANGED <<link, inbox, breaks>>

(* send_feedback_req returns, or throws, whatever happened meanwhile.          *)
ViewerProbed ==
  /\ end["viewer"].starting
  /\ LET v == [end["viewer"] EXCEPT !.starting = FALSE]
     IN \/ Sends("viewer", v, "join")
        \/ end' = [end EXCEPT !["viewer"] = v] /\ UNCHANGED inbox
  /\ UNCHANGED <<link, breaks>>

ShareStarts ==
  /\ ~end["share"].starting
  /\ end' = [end EXCEPT !["share"] = [Restarted(@) EXCEPT !.starting = end["share"].ready]]
  /\ UNCHANGED <<link, inbox, breaks>>

(* start_share_pipeline returns or throws, whatever happened meanwhile.        *)
SharePipelineStarted ==
  /\ end["share"].starting
  /\ LET s == [end["share"] EXCEPT !.starting = FALSE]
     IN \/ Sends("share", [s EXCEPT !.cc_timer = TRUE], "join")
        \/ end' = [end EXCEPT !["share"] = s] /\ UNCHANGED inbox
  /\ UNCHANGED <<link, breaks>>

(* The user ends the capture in the browser's own bar (track.onended); there   *)
(* is a capture when a pipeline start got as far as the probe timer.           *)
TrackEnds ==
  /\ end["share"].start_requested /\ end["share"].cc_timer /\ ~end["share"].starting
  /\ end' = [end EXCEPT !["share"].start_requested = FALSE]
  /\ IF end["share"].signal_connected THEN Room /\ Transmit("share", "share-ended")
     ELSE UNCHANGED inbox
  /\ UNCHANGED <<link, breaks>>

(* A break: of what the other end sent, p still reads a part; events of the    *)
(* own backend are not lost.                                                   *)
Breaks == breaks < MaxBreaks /\ breaks' = breaks + 1

Remains(p, box, k) ==
  /\ k <= Len(box)
  /\ \A i \in k + 1 .. Len(box) : box[i] \notin SystemEvents

LinkBreaks ==
  /\ link /\ Breaks
  /\ link' = FALSE
  /\ \E kept \in [Ends -> 0 .. 2 * MaxInbox + 2] :
       /\ \A p \in Ends : Remains(p, inbox[p], kept[p])
       /\ inbox' = [p \in Ends |-> Append(SubSeq(inbox[p], 1, kept[p]), "disconnected")]
  /\ UNCHANGED end

(* disconnect_all up to the close of the transports; a sharer says good-bye    *)
(* first.  Its own inbox is a poll under way whose messages are still handled. *)
(* Bound: the user does not connect before it has ended (see Session).         *)
Disconnects(p) ==
  /\ end[p].ready \/ end[p].start_requested
  /\ ~end[p].closing
  /\ Breaks
  /\ link' = FALSE
  /\ end' = [end EXCEPT ![p] = [BadLinkReset(@) EXCEPT !.ready = FALSE, !.closing = TRUE,
       !.signal_connected = FALSE, !.media_open = FALSE, !.cc_timer = FALSE]]
  /\ LET q == Other(p)
         farewell == IF p = "share" /\ end[p].start_requested /\ end[p].signal_connected
                     THEN Append(inbox[q], "share-ended") ELSE inbox[q]
     IN /\ farewell = inbox[q] \/ Room
        /\ \E k \in 0 .. 2 * MaxInbox + 2 :
             /\ Remains(q, farewell, k)
             /\ inbox' = IF link THEN [inbox EXCEPT ![q] = Append(SubSeq(farewell, 1, k), "disconnected")]
                         ELSE inbox

(* The rest of disconnect_all; a probe timer that a join has started again     *)
(* meanwhile goes on.                                                          *)
DisconnectEnds(p) ==
  /\ end[p].closing
  /\ end' = [end EXCEPT ![p].closing = FALSE, ![p].start_requested = FALSE]
  /\ inbox' = [inbox EXCEPT ![p] = <<>>]
  /\ UNCHANGED <<link, breaks>>

(* A new connect of the viewer closes what a break has left of its transports. *)
ViewerReconnects ==
  /\ ~link /\ end["viewer"].ready /\ end["viewer"].media_open
  /\ end' = [end EXCEPT !["viewer"].signal_connected = FALSE, !["viewer"].media_open = FALSE]
  /\ UNCHANGED <<link, inbox, breaks>>

(* The viewer's connect succeeds (module Session): a new runtime with an empty *)
(* inbox, and a join that is sent before any event is read.                    *)
LinkOpens ==
  /\ ~link /\ end["viewer"].ready /\ end["share"].ready
  /\ ~end["viewer"].signal_connected /\ ~end["viewer"].media_open
  /\ Room
  /\ link' = TRUE
  /\ end' = [end EXCEPT !["viewer"].signal_connected = TRUE, !["viewer"].media_open = TRUE]
  /\ inbox' = [inbox EXCEPT !["viewer"] = <<"connected">>,
                               !["share"] = @ \o <<"connected", "join">>]
  /\ UNCHANGED breaks

Next ==
  \/ ReceptionIsPoor \/ ReceptionIsGood \/ ShareEvaluates \/ HeartbeatTick
  \/ \E p \in Ends : Handle(p) \/ HoldLapses(p) \/ Connects(p)
                    \/ Disconnects(p) \/ DisconnectEnds(p)
  \/ ViewerStarts \/ ViewerProbed \/ ShareStarts \/ SharePipelineStarted \/ TrackEnds
  \/ LinkBreaks \/ ViewerReconnects \/ LinkOpens

Spec == Init /\ [][Next]_vars

(* The pumps read, the heartbeat's interval and the health checks recur, and   *)
(* the sharer's hold time runs out when no heartbeat renews it.  (Beat and   *)
(* check are strongly fair because the bound MaxInbox may hold up a send.)     *)
(* Nothing is assumed of the users, of the reception or of the connection.     *)
Fairness ==
  /\ \A p \in Ends : WF_vars(Handle(p))
  /\ SF_vars(HeartbeatTick)
  /\ SF_vars(ShareEvaluates)
  /\ WF_vars(HoldLapses("share") /\ ~end["viewer"].bad_link_mode)

FairSpec == Spec /\ Fairness

-------------------------------------------------------------------------------
(* Properties                                                                  *)

(* A viewer in bad-link mode is watching, and its heartbeat runs then and only *)
(* then, through restarts, ends of the share and disconnects: without it the   *)
(* sharer would leave the mode on its own, with a left-over one it would stay. *)
BadLinkBeats ==
  /\ end["viewer"].bad_link_mode => end["viewer"].start_requested
  /\ end["viewer"].bad_link_mode <=> end["viewer"].heartbeat

(* A viewer that watches on open channels probes them once its events are read, *)
(* whether the click on start, the connection, a reconnect, the sharer's join  *)
(* or the end of an earlier share came first: without probes it has no         *)
(* round-trip time to judge repairs by.                                        *)
WatcherProbes ==
  /\ end["viewer"].start_requested
  /\ end["viewer"].signal_connected /\ end["viewer"].media_open
  /\ inbox["viewer"] = <<>>
  => end["viewer"].cc_timer

(* On a connection both ends know of, a viewer's bad-link mode reaches the     *)
(* sharer, although a repeated message is suppressed and an earlier one, or    *)
(* the clear that should have followed it, was lost in a break.                *)
Joined == link /\ \A p \in Ends : end[p].signal_connected
SharerLearns ==
  end["viewer"].bad_link_mode /\ Joined
  ~> end["share"].bad_link_mode \/ ~end["viewer"].bad_link_mode \/ ~link

(* The sharer does not stay in bad-link mode for a viewer that has left it,    *)
(* restarted, stopped, or lost the connection before its clear was sent.       *)
SharerForgets ==
  end["share"].bad_link_mode ~> ~end["share"].bad_link_mode \/ end["viewer"].bad_link_mode

===============================================================================

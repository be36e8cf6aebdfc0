------------------------------- MODULE Session -------------------------------
(* The session life cycle of one endpoint (App/src/main.js, with the system    *)
(* events of module/signal.js): connect with retries, automatic reconnects     *)
(* under an epoch, disconnect, and the watch that gives transports up while    *)
(* ZeroTier is offline and restores them when it is back.                      *)
(*                                                                             *)
(* JavaScript handlers are coroutines on one thread.  They suspend only where  *)
(* they await a backend command, a timer or the encoder; an action here is the *)
(* code between two such points.  The commands are synchronous Tauri commands: *)
(* the main thread of the backend runs them one at a time in order of arrival, *)
(* so `cmds' is a queue, and an action takes a command's effect together with  *)
(* the continuation that awaited it.                                           *)
(*                                                                             *)
(* Addresses, ports, delays and messages to the user are left out.  Whether a  *)
(* transport was active lately, how long a wait lasts, and what the form holds *)
(* when it is read are choices: no field is read twice by a run of             *)
(* connect_channels, and all can be edited while none is in progress.  Of      *)
(* the peer's messages only the end of the connection is here; the messages    *)
(* themselves are in SignalLink.                                               *)
EXTENDS Integers, Sequences

CONSTANTS
  Roles,        \* the roles the form may select
  MaxAttempts,  \* MAX_AUTO_RECONNECT_ATTEMPTS
  MaxTries,     \* VIEWER_CONNECT_MAX_ATTEMPTS
  MaxEpoch,     \* bound: clicks on connect and disconnect
  MaxFaults,    \* bound: peer losses and node outages
  MaxInbox      \* bound: unread events of the backend

ASSUME RolesAssumption == Roles \subseteq {"viewer", "share"}
ASSUME AttemptsAssumption == MaxAttempts \in Nat \ {0} /\ MaxTries \in Nat \ {0}
ASSUME BoundsAssumption ==
  MaxEpoch \in Nat /\ MaxFaults \in Nat /\ MaxInbox \in Nat \ {0}

VARIABLES
  state,    \* the `state' object of module/state.js and the host address shown
  backend,  \* libzt, the signal runtime with its inbox, the media runtime
  cmds,     \* commands invoked and not yet answered, with their caller
  conn,     \* the run of connect_channels in progress
  disc,     \* the run of disconnect_all in progress
  poll,     \* the run of poll_signal_messages in progress
  start,    \* what the run of start_share_or_view in progress awaits
  faults    \* bound: faults so far

vars == <<state, backend, cmds, conn, disc, poll, start, faults>>

Events == {"connected", "disconnected", "error", "listener_started"}
Callers == {"conn", "disc", "inval", "poll", "send", "start"}
Ops == {"signal_close", "media_close", "zt_start", "zt_stop", "get_ip", "signal_listen",
        "media_listen", "signal_connect", "media_connect", "signal_poll", "set_peer", "signal_send",
        "media_send"}
Goals == {"none", "reset", "retry", "fail", "refuse", "prepare", "wait", "sleep", "open"}
Cmd(by, op) == [by |-> by, op |-> op]
NoConn == [goal |-> "none", epoch |-> 0, again |-> FALSE, tries |-> 0]
NoPoll == [pc |-> "idle", lines |-> <<>>]
(* The signal runtime: a listener that starts, listens or serves a connection, *)
(* a dialled link, or a runtime whose thread has ended.                        *)
Links == {"none", "starting", "listen", "served", "linked", "lost"}
NoTimer == 0      \* an armed reconnect timer is the epoch its closure captured

TypeOK ==
  /\ state \in [role : {"viewer", "share"},
       connecting : BOOLEAN, manual_disconnect : BOOLEAN, auto_reconnect : BOOLEAN,
       resetting : BOOLEAN, epoch : 0 .. MaxEpoch, attempts : 0 .. MaxAttempts,
       timer : 0 .. MaxEpoch, zt_started : BOOLEAN, host_ip : BOOLEAN,
       node_online : BOOLEAN, need_restore : BOOLEAN, invalidated : BOOLEAN,
       offline_timer : BOOLEAN, event_pump : BOOLEAN, signal_connected : BOOLEAN,
       signal_listening : BOOLEAN, signal_pump : BOOLEAN, poll_busy : BOOLEAN,
       media_open : BOOLEAN, media_pump : BOOLEAN, start_requested : BOOLEAN]
  /\ backend \in [zt : BOOLEAN, stray : BOOLEAN, online : BOOLEAN, ip : BOOLEAN,
       media : BOOLEAN, signal : Links,
       inbox : Seq(Events), events : Seq({"on", "off"})]
  /\ cmds \in Seq([by : Callers, op : Ops])
  /\ conn \in [goal : Goals, epoch : 0 .. MaxEpoch, again : BOOLEAN, tries : 0 .. MaxTries]
  /\ disc \in {"idle", "stopping", "closing"}
  /\ poll \in [pc : {"idle", "called", "lines", "set_peer", "feedback"},
                lines : Seq(Events)]
  /\ start \in {"idle", "probe", "share"}
  /\ faults \in 0 .. MaxFaults

Init ==
  /\ state = [role |-> "share", connecting |-> FALSE,
         manual_disconnect |-> FALSE, auto_reconnect |-> FALSE, resetting |-> FALSE,
         epoch |-> 0, attempts |-> 0, timer |-> NoTimer, zt_started |-> FALSE,
         host_ip |-> FALSE, node_online |-> FALSE, need_restore |-> FALSE,
         invalidated |-> FALSE, offline_timer |-> FALSE, event_pump |-> FALSE,
         signal_connected |-> FALSE, signal_listening |-> FALSE, signal_pump |-> FALSE,
         poll_busy |-> FALSE, media_open |-> FALSE, media_pump |-> FALSE,
         start_requested |-> FALSE]
  /\ backend = [zt |-> FALSE, stray |-> FALSE, online |-> FALSE, ip |-> FALSE, media |-> FALSE,
       signal |-> "none", inbox |-> <<>>, events |-> <<>>]
  /\ cmds = <<>> /\ conn = NoConn /\ disc = "idle" /\ poll = NoPoll /\ start = "idle" /\ faults = 0

-----------------------------------------------------------------------------
(* Helpers of main.js, as functions of the state object.                       *)

NeverStops(s, c) == FALSE      \* variant: a superseded attempt goes on
should_stop(s, c) == s.manual_disconnect \/ c.epoch # s.epoch
should_schedule_reconnect(s) == s.role = "viewer" \/ ~s.signal_listening

(* Variants: one attempt too many; a timer armed beside a running connect.     *)
SchedulesOnceMore(s) ==
  IF \/ s.manual_disconnect \/ ~s.auto_reconnect
     \/ ~should_schedule_reconnect(s)
     \/ s.timer # NoTimer \/ s.connecting
  THEN s
  ELSE IF s.attempts > MaxAttempts THEN [s EXCEPT !.auto_reconnect = FALSE]
       ELSE [s EXCEPT !.attempts = @ + 1, !.timer = s.epoch]
SchedulesBeside(s) ==
  IF s.manual_disconnect \/ ~s.auto_reconnect \/ s.timer # NoTimer THEN s
  ELSE IF s.attempts >= MaxAttempts THEN [s EXCEPT !.auto_reconnect = FALSE]
       ELSE [s EXCEPT !.attempts = @ + 1, !.timer = s.epoch]

schedule_signal_reconnect(s) ==
  IF \/ s.manual_disconnect \/ ~s.auto_reconnect
     \/ ~should_schedule_reconnect(s)
     \/ s.timer # NoTimer \/ s.connecting
  THEN s
  ELSE IF s.attempts >= MaxAttempts THEN [s EXCEPT !.auto_reconnect = FALSE]
       ELSE [s EXCEPT !.attempts = @ + 1, !.timer = s.epoch]

(* What close_signal_transport and close_media_transport do before they await. *)
SignalDown(s) == [s EXCEPT !.signal_pump = FALSE, !.poll_busy = FALSE,
                           !.signal_connected = FALSE, !.signal_listening = FALSE]
MediaLeftOpen(s) == [s EXCEPT !.media_pump = FALSE]     \* variant: a missing reset
MediaDown(s) == [s EXCEPT !.media_pump = FALSE, !.media_open = FALSE]

Publish(s) ==
  IF s.role = "share"
  THEN [s EXCEPT !.signal_listening = TRUE, !.signal_connected = FALSE, !.media_open = TRUE]
  ELSE [s EXCEPT !.signal_connected = TRUE, !.signal_listening = FALSE, !.media_open = TRUE]

(* Variant: the media pump is not started.                                     *)
EstablishedUnpumped(s) ==
  [s EXCEPT !.signal_pump = TRUE, !.invalidated = FALSE,
            !.need_restore = FALSE, !.attempts = 0, !.timer = NoTimer]

Established(s) ==
  [s EXCEPT !.signal_pump = TRUE, !.media_pump = TRUE, !.invalidated = FALSE,
            !.need_restore = FALSE, !.attempts = 0, !.timer = NoTimer]

(* Variant: a superseded attempt returns without its clean-up.                 *)
FinishedIfCurrent(s, retry) ==
  IF should_stop(s, conn) THEN s
  ELSE LET t == [s EXCEPT !.resetting = FALSE, !.connecting = FALSE]
       IN IF retry THEN schedule_signal_reconnect(t) ELSE t

(* The finally block of connect_channels; `retry' is reconnect_after_failure.  *)
Finished(s, retry) ==
  LET t == [s EXCEPT !.resetting = FALSE, !.connecting = FALSE]
  IN IF retry /\ ~should_stop(t, conn) THEN schedule_signal_reconnect(t) ELSE t

SendsNothing(s) == <<>>     \* variant: the join is not sent
Sends(s) == IF s.signal_connected THEN <<Cmd("send", "signal_send")>> ELSE <<>>
Waits(by) == \E i \in DOMAIN cmds : cmds[i].by = by
Answered(by, op) == cmds # <<>> /\ Head(cmds) = Cmd(by, op)
Then(by, op) == cmds' = Append(Tail(cmds), Cmd(by, op))
NoMore == cmds' = Tail(cmds)

-----------------------------------------------------------------------------
(* connect_channels.  Each action ends at the next await or in Finished.       *)

(* await close_transports(), called by coroutine `by'                          *)
Closes(by, s, rest) ==
  /\ state' = SignalDown(s)
  /\ cmds' = Append(rest, Cmd(by, "signal_close"))

SignalClosed(by) ==
  /\ Answered(by, "signal_close")
  /\ backend' = [backend EXCEPT !.signal = "none", !.inbox = <<>>]
  /\ state' = MediaDown(state)
  /\ Then(by, "media_close")
  /\ UNCHANGED <<conn, disc, poll, faults, start>>

MediaClosed(by) ==
  /\ Answered(by, "media_close")
  /\ backend' = [backend EXCEPT !.media = FALSE]

(* Up to the first await; the role is read from the form, by a reconnect, too. *)
Begin(s, again) ==
  \E role \in Roles :
  /\ conn' = [goal |-> "reset", epoch |-> s.epoch, again |-> again, tries |-> 0]
  /\ Closes("conn", [s EXCEPT !.connecting = TRUE, !.resetting = TRUE, !.timer = NoTimer,
                              !.role = role], cmds)

AlwaysConnects == TRUE     \* variant: the single-flight guard dropped
NotConnecting == ~state.connecting

ConnectClicked ==
  /\ NotConnecting
  /\ state.epoch < MaxEpoch
  /\ Begin([state EXCEPT !.epoch = @ + 1, !.manual_disconnect = FALSE,
                         !.auto_reconnect = TRUE, !.attempts = 0], FALSE)
  /\ UNCHANGED <<backend, disc, poll, faults, start>>

TimerStillValid(s, epoch) ==
  epoch = s.epoch /\ ~s.manual_disconnect /\ s.auto_reconnect /\ ~s.connecting

ReconnectTimerFires ==
  /\ state.timer # NoTimer
  /\ LET s == [state EXCEPT !.timer = NoTimer]
     IN IF TimerStillValid(s, state.timer) THEN Begin(s, TRUE)
        ELSE state' = s /\ UNCHANGED <<cmds, conn>>
  /\ UNCHANGED <<backend, disc, poll, faults, start>>

Ends(s, retry) == state' = Finished(s, retry) /\ conn' = NoConn /\ NoMore
FailsTo(goal, s, rest) == conn' = [conn EXCEPT !.goal = goal] /\ Closes("conn", s, rest)
Fails(s) == FailsTo("fail", s, Tail(cmds))
GoesOn(s, goal, op, rest) ==
  /\ state' = s
  /\ conn' = [conn EXCEPT !.goal = goal, !.tries = IF op = "signal_connect" THEN @ + 1 ELSE @]
  /\ cmds' = Append(rest, Cmd("conn", op))
Goes(s, goal, op) == GoesOn(s, goal, op, Tail(cmds))

ResetDone ==
  /\ conn.goal = "reset"
  /\ MediaClosed("conn")
  /\ LET s == [state EXCEPT !.event_pump = TRUE]
     IN IF should_stop(state, conn) THEN Ends(state, FALSE)
        ELSE IF s.zt_started THEN Goes(s, "prepare", "get_ip")
        ELSE \/ Goes(s, "prepare", "zt_start")
             \/ FailsTo("refuse", s, Tail(cmds))
  /\ UNCHANGED <<disc, poll, faults, start>>

(* zt_start may fail after it has started the node: the node runs on, unknown  *)
(* to the backend and to the page.                                             *)
ZtStarted ==
  /\ Answered("conn", "zt_start")
  /\ \/ /\ backend' = [backend EXCEPT !.zt = TRUE, !.stray = FALSE]
        /\ Goes([state EXCEPT !.zt_started = TRUE, !.need_restore = FALSE,
                              !.invalidated = FALSE], "prepare", "get_ip")
     \/ /\ \E runs \in BOOLEAN : backend' = [backend EXCEPT !.stray = @ \/ runs]
        /\ Fails(state)
  /\ UNCHANGED <<disc, poll, faults, start>>

(* create_channels_by_role up to its first await                               *)
CreateChannels(s, rest) ==
  LET t == [s EXCEPT !.invalidated = FALSE]
  IN IF t.role = "share" THEN GoesOn(t, "open", "signal_listen", rest)
     ELSE \/ GoesOn(t, "open", "signal_connect", rest)
          \/ FailsTo("refuse", t, rest)

(* What has_libzt_net_ready may return: with the node online it depends on the  *)
(* network's events, which may come between any two reads: a choice.           *)
Readiness(s) == {s.host_ip, s.host_ip \/ s.node_online}

(* sync_local_virtual_ip, then the tests before and in wait_for_libzt_ready    *)
IpRead ==
  /\ Answered("conn", "get_ip")
  /\ LET s == [state EXCEPT !.host_ip = backend.ip]
     IN \E ready \in Readiness(s) :
        IF ready \/ conn.goal = "prepare"
        THEN IF should_stop(s, conn) THEN Ends(s, FALSE)
             ELSE IF ready THEN CreateChannels(s, Tail(cmds))
             ELSE state' = s /\ conn' = [conn EXCEPT !.goal = "wait"] /\ NoMore
        ELSE state' = s /\ NoMore /\ UNCHANGED conn
  /\ UNCHANGED <<backend, disc, poll, faults, start>>

WaitTick ==
  /\ conn.goal = "wait" /\ ~Waits("conn")
  /\ cmds' = Append(cmds, Cmd("conn", "get_ip"))
  /\ UNCHANGED <<state, backend, conn, disc, poll, faults, start>>

WaitTimeout ==
  /\ conn.goal = "wait" /\ ~Waits("conn")
  /\ \E ready \in Readiness(state) :
     IF should_stop(state, conn)
     THEN state' = Finished(state, FALSE) /\ conn' = NoConn /\ UNCHANGED cmds
     ELSE IF ready THEN CreateChannels(state, cmds)
     ELSE FailsTo("fail", state, cmds)
  /\ UNCHANGED <<backend, disc, poll, faults, start>>

SignalListens ==
  /\ Answered("conn", "signal_listen")
  /\ IF backend.zt
     THEN /\ backend' = [backend EXCEPT !.signal = "starting", !.inbox = <<>>]
          /\ Goes(state, "open", "media_listen")
     ELSE /\ backend' = [backend EXCEPT !.signal = "none", !.inbox = <<>>]
          /\ Fails(state)
  /\ UNCHANGED <<disc, poll, faults, start>>

(* The share branch publishes without asking whether it was superseded.        *)
MediaListens ==
  /\ Answered("conn", "media_listen")
  /\ \/ /\ backend.zt
        /\ backend' = [backend EXCEPT !.media = TRUE]
        /\ LET s == Publish(state)
           IN Ends(IF should_stop(s, conn) THEN s ELSE Established(s), FALSE)
     \/ backend' = [backend EXCEPT !.media = FALSE] /\ Fails(state)
  /\ UNCHANGED <<disc, poll, faults, start>>

(* connect_viewer_with_retry                                                   *)
DialFails == FailsTo("retry", state, Tail(cmds))

SignalDialed ==
  /\ Answered("conn", "signal_connect")
  /\ \/ /\ backend.zt
        /\ backend' = [backend EXCEPT !.signal = "linked", !.inbox = <<"connected">>]
        /\ Goes(state, "open", "media_connect")
     \/ backend' = [backend EXCEPT !.signal = "none", !.inbox = <<>>] /\ DialFails
  /\ UNCHANGED <<disc, poll, faults, start>>

MediaDialed ==
  /\ Answered("conn", "media_connect")
  /\ \/ /\ backend.zt
        /\ backend' = [backend EXCEPT !.media = TRUE]
        /\ IF should_stop(state, conn) THEN Ends(state, FALSE)
           ELSE LET s == Publish(state)
                IN /\ state' = Finished(Established(s), FALSE)
                   /\ conn' = NoConn
                   /\ cmds' = Tail(cmds) \o Sends(s)
     \/ backend' = [backend EXCEPT !.media = FALSE] /\ DialFails
  /\ UNCHANGED <<disc, poll, faults, start>>

RetryClosed ==
  /\ conn.goal = "retry"
  /\ MediaClosed("conn")
  /\ IF conn.tries < MaxTries
     THEN conn' = [conn EXCEPT !.goal = "sleep"] /\ NoMore /\ UNCHANGED state
     ELSE Fails(state)
  /\ UNCHANGED <<disc, poll, faults, start>>

RetryWakes ==
  /\ conn.goal = "sleep"
  /\ IF should_stop(state, conn)
     THEN state' = Finished(state, FALSE) /\ conn' = NoConn /\ UNCHANGED cmds
     ELSE /\ conn' = [conn EXCEPT !.goal = "open", !.tries = @ + 1]
          /\ cmds' = Append(cmds, Cmd("conn", "signal_connect"))
          /\ UNCHANGED state
  /\ UNCHANGED <<backend, disc, poll, faults, start>>

(* The catch block.  An incomplete form is not retried here, but when it is a  *)
(* reconnect that refuses it, the timer's own catch schedules the next one.    *)
FailClosed ==
  /\ conn.goal \in {"fail", "refuse"}
  /\ MediaClosed("conn")
  /\ Ends(state, IF conn.goal = "fail" THEN state.auto_reconnect ELSE conn.again)
  /\ UNCHANGED <<disc, poll, faults, start>>

-----------------------------------------------------------------------------
(* start_share_or_view and disconnect_all                                      *)

(* To the await of the probe or of the pipeline; the viewer's probe is not     *)
(* sent while an earlier one is out.  Bound: no click while an earlier one or  *)
(* a message is under way.                                                     *)
StartClicked ==
  /\ ~state.connecting /\ start = "idle" /\ ~Waits("send")
  /\ \E role \in Roles :
     LET s == [state EXCEPT !.start_requested = TRUE, !.role = role]
         may_view == s.role = "viewer" /\ s.signal_connected /\ s.media_open
         may_share == s.role = "share" /\ s.signal_listening /\ s.media_open
     IN /\ state' = s
        /\ \/ may_view /\ start' = "probe" /\ cmds' = Append(cmds, Cmd("start", "media_send"))
           \/ may_view /\ UNCHANGED start /\ cmds' = cmds \o Sends(s)
           \/ may_share /\ start' = "share" /\ UNCHANGED cmds
           \/ ~may_view /\ ~may_share /\ UNCHANGED <<start, cmds>>
  /\ UNCHANGED <<backend, conn, disc, poll, faults>>

(* A probe that cannot be sent ends the click without its join.                *)
StartProbed ==
  /\ Answered("start", "media_send")
  /\ start' = "idle"
  /\ \/ backend.media /\ cmds' = Tail(cmds) \o Sends(state)
     \/ NoMore
  /\ UNCHANGED <<state, backend, conn, disc, poll, faults>>

(* The pipeline runs, or the screen was not shared.                            *)
SharePipelineStarted ==
  /\ start = "share"
  /\ start' = "idle"
  /\ cmds' = cmds \o Sends(state) \/ UNCHANGED cmds
  /\ UNCHANGED <<state, backend, conn, disc, poll, faults>>

(* Whether the encoder has to be flushed is a choice.  Bound: the stop button  *)
(* is not clicked again while disconnect_all runs.                             *)
DisconnectClicked ==
  /\ disc = "idle"
  /\ state.epoch < MaxEpoch
  /\ LET s == [state EXCEPT !.epoch = @ + 1, !.manual_disconnect = TRUE,
                 !.auto_reconnect = FALSE, !.resetting = TRUE, !.timer = NoTimer,
                 !.offline_timer = FALSE]
         ended == IF s.role = "share" /\ s.start_requested THEN cmds \o Sends(s) ELSE cmds
     IN \/ state' = s /\ disc' = "stopping" /\ cmds' = ended
        \/ disc' = "closing" /\ Closes("disc", s, ended)
  /\ UNCHANGED <<backend, conn, poll, faults, start>>

(* stop_share_pipeline has flushed the encoder *)
PipelineStopped ==
  /\ disc = "stopping"
  /\ disc' = "closing"
  /\ Closes("disc", state, cmds)
  /\ UNCHANGED <<backend, conn, poll, faults, start>>

Disconnected(s) ==
  /\ state' = [s EXCEPT !.start_requested = FALSE, !.attempts = 0, !.resetting = FALSE,
                 !.media_open = FALSE, !.invalidated = FALSE, !.need_restore = FALSE]
  /\ disc' = "idle" /\ NoMore

(* stop_libzt returns at once unless zt_started: it leaves a stray node alone.  *)
DiscClosed ==
  /\ MediaClosed("disc")
  /\ IF state.zt_started THEN Then("disc", "zt_stop") /\ UNCHANGED <<state, disc>>
     ELSE Disconnected(state)
  /\ UNCHANGED <<conn, poll, faults, start>>

ZtStopped ==
  /\ Answered("disc", "zt_stop")
  /\ backend' = [backend EXCEPT !.zt = FALSE, !.online = FALSE, !.ip = FALSE,
                   !.media = FALSE, !.signal = "none", !.inbox = <<>>]
  /\ Disconnected([state EXCEPT !.zt_started = FALSE, !.node_online = FALSE,
                     !.host_ip = FALSE, !.event_pump = FALSE])
  /\ UNCHANGED <<conn, poll, faults, start>>

-----------------------------------------------------------------------------
(* libzt events: the offline debounce, invalidation and restoration            *)

handle_libzt_online(s) ==
  LET t == [s EXCEPT !.node_online = TRUE, !.offline_timer = FALSE]
  IN IF /\ t.need_restore /\ t.invalidated
        /\ ~t.manual_disconnect /\ t.auto_reconnect
     THEN schedule_signal_reconnect([t EXCEPT !.need_restore = FALSE])
     ELSE t

(* poll_libzt_events handles a batch without awaiting: the first NODE_ONLINE of *)
(* a batch may restore the transports, its last event sets node and timer.     *)
HandleZtEvents(s, events) ==
  LET Has(e) == \E i \in DOMAIN events : events[i] = e
      t == IF Has("on") THEN handle_libzt_online(s) ELSE s
  IN IF events[Len(events)] = "on" THEN t
     ELSE [t EXCEPT !.node_online = FALSE, !.offline_timer = TRUE]

NodeRuns == backend.zt \/ backend.stray

EventsPolled ==
  /\ state.event_pump /\ backend.events # <<>>
  /\ state' = HandleZtEvents(state, backend.events)
  /\ backend' = [backend EXCEPT !.events = <<>>]
  /\ UNCHANGED <<cmds, conn, disc, poll, faults, start>>

(* evaluate_libzt_soft_offline once no transport was active lately             *)
MayInvalidate(s) ==
  /\ ~s.node_online /\ ~s.manual_disconnect /\ s.auto_reconnect
  /\ s.need_restore /\ ~s.resetting /\ ~s.connecting /\ ~s.invalidated

Invalidates(s) ==
  /\ MayInvalidate(s)
  /\ Closes("inval", [s EXCEPT !.invalidated = TRUE, !.resetting = TRUE], cmds)

SoftOffline ==
  /\ Invalidates(state)
  /\ UNCHANGED <<backend, conn, disc, poll, faults, start>>

OfflineTimerFires ==
  /\ state.offline_timer
  /\ LET s == [state EXCEPT !.offline_timer = FALSE]
         had_session == \/ s.signal_connected \/ s.signal_listening
                        \/ s.media_open \/ s.start_requested
         t == IF s.node_online THEN s ELSE [s EXCEPT !.need_restore = had_session]
     IN \/ state' = t /\ UNCHANGED cmds
        \/ Invalidates(t)
  /\ UNCHANGED <<backend, conn, disc, poll, faults, start>>

InvalClosed ==
  /\ MediaClosed("inval")
  /\ state' = [state EXCEPT !.resetting = FALSE]
  /\ NoMore
  /\ UNCHANGED <<conn, disc, poll, faults, start>>

-----------------------------------------------------------------------------
(* The signal pump and the system events it reads (module/signal.js).          *)
(* listener_stopped is never read: it is pushed when the runtime is gone.      *)

(* A poll that would find nothing is left out.  Bound: one poll at a time.     *)
PollTick ==
  /\ state.signal_pump /\ ~state.poll_busy /\ poll = NoPoll
  /\ backend.inbox # <<>>
  /\ state' = [state EXCEPT !.poll_busy = TRUE]
  /\ poll' = [poll EXCEPT !.pc = "called"]
  /\ cmds' = Append(cmds, Cmd("poll", "signal_poll"))
  /\ UNCHANGED <<backend, conn, disc, faults, start>>

Polls(s, lines) ==
  IF lines = <<>> THEN state' = [s EXCEPT !.poll_busy = FALSE] /\ poll' = NoPoll
  ELSE state' = s /\ poll' = [pc |-> "lines", lines |-> lines]

PollAnswered ==
  /\ Answered("poll", "signal_poll")
  /\ Polls(state, backend.inbox)
  /\ backend' = [backend EXCEPT !.inbox = <<>>]
  /\ NoMore
  /\ UNCHANGED <<conn, disc, faults, start>>

(* Variant: a lost link is only noted.                                         *)
OnlyNotesLoss(s) == [s EXCEPT !.signal_connected = FALSE]
OnDisconnected(s) ==
  LET t == [s EXCEPT !.signal_connected = FALSE]
  IN IF ~t.resetting /\ should_schedule_reconnect(t) THEN schedule_signal_reconnect(t) ELSE t

OnError(s) == IF s.resetting THEN s ELSE schedule_signal_reconnect(s)

(* send_join_signal, and for a viewer that has started send_feedback_req,      *)
(* which calls the backend unless a probe is out.                              *)
Joins(s, lines, queue) ==
  \/ Polls(s, lines) /\ cmds' = queue \o Sends(s)
  \/ /\ s.role = "viewer" /\ s.start_requested /\ s.media_open
     /\ state' = s
     /\ poll' = [pc |-> "feedback", lines |-> lines]
     /\ cmds' = Append(queue \o Sends(s), Cmd("poll", "media_send"))

HandleConnected(rest) ==
  LET s == [state EXCEPT !.signal_connected = TRUE, !.attempts = 0, !.timer = NoTimer]
  IN IF s.role = "share" /\ s.media_open
     THEN /\ state' = s
          /\ poll' = [pc |-> "set_peer", lines |-> rest]
          /\ cmds' = Append(cmds, Cmd("poll", "set_peer"))
     ELSE Joins(s, rest, cmds)

HandleLine ==
  /\ poll.pc = "lines"
  /\ LET event == Head(poll.lines)  rest == Tail(poll.lines)
     IN CASE event = "connected" -> HandleConnected(rest)
          [] event = "disconnected" -> Polls(OnDisconnected(state), rest) /\ UNCHANGED cmds
          [] event = "error" -> Polls(OnError(state), rest) /\ UNCHANGED cmds
          [] event = "listener_started" ->
               Polls([state EXCEPT !.signal_listening = TRUE], rest) /\ UNCHANGED cmds
  /\ UNCHANGED <<backend, conn, disc, faults, start>>

PeerSet ==
  /\ Answered("poll", "set_peer")
  /\ Joins(state, poll.lines, Tail(cmds))
  /\ UNCHANGED <<backend, conn, disc, faults, start>>

(* A probe that cannot be sent ends the whole batch: its other lines are lost. *)
FeedbackSent ==
  /\ Answered("poll", "media_send")
  /\ \/ backend.media /\ Polls(state, poll.lines)
     \/ Polls(state, <<>>)
  /\ NoMore
  /\ UNCHANGED <<backend, conn, disc, faults, start>>

Linked(b) == b.signal \in {"linked", "served"}

Push(b, event) ==
  IF Len(b.inbox) < MaxInbox THEN [b EXCEPT !.inbox = Append(@, event)] ELSE b

SendAnswered ==
  /\ Answered("send", "signal_send")
  /\ \/ Linked(backend) /\ UNCHANGED <<state, backend>>
     \/ /\ LET s == [state EXCEPT !.signal_connected = FALSE]
           IN state' = IF s.role = "viewer" THEN schedule_signal_reconnect(s) ELSE s
        /\ backend' = IF Linked(backend) THEN Push(backend, "error") ELSE backend
  /\ NoMore
  /\ UNCHANGED <<conn, disc, poll, faults, start>>

-----------------------------------------------------------------------------
(* The backend's threads, ZeroTier and the peer                                *)

Faulty == faults < MaxFaults /\ faults' = faults + 1
Happens(b) == backend' = b /\ UNCHANGED <<state, cmds, conn, disc, poll, start>>
RoomInInbox == Len(backend.inbox) < MaxInbox

ListenerReady ==
  /\ backend.signal = "starting" /\ RoomInInbox
  /\ Happens(Push([backend EXCEPT !.signal = "listen"], "listener_started"))
  /\ UNCHANGED faults

ListenerFails ==
  /\ backend.signal = "starting" /\ RoomInInbox
  /\ Faulty
  /\ Happens(Push([backend EXCEPT !.signal = "lost"], "error"))

PeerArrives ==
  /\ backend.signal = "listen" /\ RoomInInbox
  /\ Happens(Push([backend EXCEPT !.signal = "served"], "connected"))
  /\ UNCHANGED faults

PeerLeaves ==
  /\ Linked(backend) /\ RoomInInbox
  /\ Faulty
  /\ LET after == IF backend.signal = "served" THEN "listen" ELSE "lost"
     IN Happens(Push([backend EXCEPT !.signal = after], "disconnected"))

IpAssigned ==
  /\ backend.zt /\ ~backend.ip
  /\ Happens([backend EXCEPT !.ip = TRUE])
  /\ UNCHANGED faults

NodeGoesOffline ==
  /\ NodeRuns /\ backend.online
  /\ Faulty
  /\ Happens([backend EXCEPT !.online = FALSE, !.events = Append(@, "off")])

NodeComesOnline ==
  /\ NodeRuns /\ ~backend.online
  /\ Happens([backend EXCEPT !.online = TRUE, !.events = Append(@, "on")])
  /\ UNCHANGED faults

Environment ==
  \/ ListenerReady \/ ListenerFails \/ PeerArrives \/ PeerLeaves
  \/ IpAssigned \/ NodeGoesOffline \/ NodeComesOnline

Clicks == ConnectClicked \/ StartClicked \/ DisconnectClicked

Timers == ReconnectTimerFires \/ RetryWakes \/ WaitTick \/ WaitTimeout

Answers ==
  \/ \E by \in {"conn", "disc", "inval"} : SignalClosed(by)
  \/ ResetDone \/ ZtStarted \/ IpRead \/ SignalListens \/ MediaListens
  \/ SignalDialed \/ MediaDialed \/ RetryClosed \/ FailClosed
  \/ DiscClosed \/ ZtStopped \/ InvalClosed
  \/ PollAnswered \/ PeerSet \/ FeedbackSent \/ SendAnswered \/ StartProbed

(* A batch of lines is handled without letting another task run, except while  *)
(* a line's handler awaits a command.                                          *)
Next ==
  \/ HandleLine
  \/ /\ poll.pc # "lines"
     /\ \/ Clicks \/ Timers \/ Answers \/ SharePipelineStarted
        \/ PipelineStopped \/ EventsPolled
        \/ OfflineTimerFires \/ SoftOffline \/ PollTick
  \/ Environment

Spec == Init /\ [][Next]_vars

(* Commands return, timers fire, intervals tick and the encoder's flush ends.  *)
(* Nothing is assumed of the user, of the peer or of the network.              *)
Fairness ==
  /\ WF_vars(poll.pc # "lines" /\ Answers)
  /\ WF_vars(HandleLine)
  /\ WF_vars(ReconnectTimerFires) /\ WF_vars(RetryWakes)
  /\ SF_vars(WaitTimeout)
  /\ WF_vars(PipelineStopped) /\ WF_vars(PollTick) /\ WF_vars(EventsPolled)

FairSpec == Spec /\ Fairness

-----------------------------------------------------------------------------
(* Properties *)

(* connect_channels is single-flight: it never waits for two commands at once, *)
(* although clicks, timers and failures all start it.                          *)
OneConnectAtATime ==
  \A i, j \in DOMAIN cmds : cmds[i].by = "conn" /\ cmds[j].by = "conn" => i = j

(* An armed reconnect timer is never stale: it was armed in the current epoch, *)
(* no connect is running beside it, and the user has not disconnected.         *)
ArmedTimerIsCurrent ==
  state.timer # NoTimer =>
    /\ state.timer = state.epoch
    /\ ~state.connecting /\ ~state.manual_disconnect /\ state.auto_reconnect

(* Once the invalidation of the transports has run to its end, the backend     *)
(* holds no transport either, until a connect begins to open new ones.         *)
InvalidatedIsClosed ==
  /\ state.invalidated /\ ~state.connecting /\ ~Waits("inval") /\ disc = "idle"
  => ~state.media_open /\ ~backend.media /\ backend.signal = "none"

(* A session shown as open is served: while no coroutine is changing it, both  *)
(* pumps run and the backend has a media socket.                               *)
OpenIsServed ==
  /\ state.media_open /\ ~state.connecting /\ ~Waits("inval") /\ disc = "idle"
  => state.signal_pump /\ state.media_pump /\ backend.media

(* Every run of connect_channels comes to an end, and with it the buttons it   *)
(* has disabled come back: through retries, failures and disconnects.          *)
ConnectEnds == state.connecting ~> ~state.connecting

(* An endpoint that has neither a link nor a listener, and whose transports    *)
(* the offline watch has not given up, gets one of them, gives up after        *)
(* MaxAttempts or is disconnected by the user, if its form stays filled in: no *)
(* order of events, timers and failures leaves it waiting for ever, whichever  *)
(* role a click selects meanwhile.  (A sharer that turns viewer by a click on  *)
(* start keeps its listener and has to be connected by the user; and when a    *)
(* connect is clicked while a disconnect still flushes the encoder, that       *)
(* disconnect may close the new session for good.)                             *)
Up == state.signal_connected \/ state.signal_listening
LinkDown == state.auto_reconnect /\ ~Up /\ ~state.invalidated
Overtaken == disc = "stopping" /\ ~state.manual_disconnect
LinkRecovers ==
  [](conn.goal # "refuse" /\ ~Overtaken) => (LinkDown ~> Up \/ ~state.auto_reconnect \/ state.invalidated)

(* Transports given up during an outage are restored once the node is online:  *)
(* the status line says they are void and recovery is awaited                  *)
(* (App/src/main.js:292).                                                      *)
OutageOver == state.invalidated /\ state.node_online /\ state.auto_reconnect
RestoredAfterOutage == OutageOver ~> ~OutageOver

(* disconnect_all "disconnects everything and resets" (App/src/main.js:1059):   *)
(* afterwards the backend has given libzt back and holds no transport, and the *)
(* page shows none, also when the click came while a connect was starting      *)
(* libzt or opening transports.  (A stray node is not libzt's: it runs on.)    *)
Quiet == ~state.connecting /\ disc = "idle" /\ cmds = <<>> /\ poll.pc # "lines"
DisconnectEndsSession ==
  Quiet /\ state.manual_disconnect
  => /\ ~backend.zt /\ ~backend.media /\ backend.signal = "none"
     /\ ~state.media_open /\ ~state.signal_connected

(* A shown signal connection exists, or the event of its loss is unread.  A    *)
(* poll answered after its transport was closed may set signal_connected once  *)
(* more; the join it answers with then fails and takes the flag back.          *)
LinkIsReal ==
  Quiet /\ state.signal_connected
  => \/ Linked(backend)
     \/ \E i \in DOMAIN backend.inbox : backend.inbox[i] = "disconnected"

=============================================================================

----------------------------- MODULE Session_proofs -----------------------------
(* Safety of the session life cycle for every number of attempts, epochs,      *)
(* faults and unread events.                                                   *)
EXTENDS Session, SequenceTheorems, TLAPS

StateRecords ==
  [role : {"viewer", "share"},
   connecting : BOOLEAN, manual_disconnect : BOOLEAN, auto_reconnect : BOOLEAN,
   resetting : BOOLEAN, epoch : 0 .. MaxEpoch, attempts : 0 .. MaxAttempts,
   timer : 0 .. MaxEpoch, zt_started : BOOLEAN, host_ip : BOOLEAN,
   node_online : BOOLEAN, need_restore : BOOLEAN, invalidated : BOOLEAN,
   offline_timer : BOOLEAN, event_pump : BOOLEAN, signal_connected : BOOLEAN,
   signal_listening : BOOLEAN, signal_pump : BOOLEAN, poll_busy : BOOLEAN,
   media_open : BOOLEAN, media_pump : BOOLEAN, start_requested : BOOLEAN]

BackendRecords ==
  [zt : BOOLEAN, stray : BOOLEAN, online : BOOLEAN, ip : BOOLEAN, media : BOOLEAN,
   signal : Links,
   inbox : Seq(Events), events : Seq({"on", "off"})]

Commands == [by : Callers, op : Ops]
ConnRecords == [goal : Goals, epoch : 0 .. MaxEpoch, again : BOOLEAN, tries : 0 .. MaxTries]
PollRecords == [pc : {"idle", "called", "lines", "set_peer", "feedback"}, lines : Seq(Events)]

-------------------------------------------------------------------------------
(* The state object                                                            *)

(* ArmedTimerIsCurrent, of any state object.                                   *)
TimerOK(s) ==
  s.timer # NoTimer =>
    /\ s.timer = s.epoch
    /\ ~s.connecting /\ ~s.manual_disconnect /\ s.auto_reconnect

StateOK(s) == s \in StateRecords /\ TimerOK(s)

(* What a handler other than connect_channels leaves of s: it opens no media   *)
(* and neither starts nor ends a connect.                                      *)
Keeps(s, t) ==
  /\ StateOK(t) /\ t.role = s.role /\ t.connecting = s.connecting
  /\ t.media_open => s.media_open

LEMMA Numbers == /\ MaxAttempts \in Nat \ {0} /\ MaxTries \in Nat \ {0} /\ MaxEpoch \in Nat
                 /\ MaxFaults \in Nat /\ 0 \in 0 .. MaxEpoch /\ 0 \in 0 .. MaxAttempts
  BY AttemptsAssumption, BoundsAssumption

LEMMA KeepsItself == ASSUME NEW s, StateOK(s) PROVE Keeps(s, s)
  BY DEF Keeps

LEMMA KeepsTwice ==
  ASSUME NEW s, NEW t, NEW u, Keeps(s, t), Keeps(t, u) PROVE Keeps(s, u)
  BY DEF Keeps

LEMMA ScheduleKeeps ==
  ASSUME NEW s, StateOK(s) PROVE Keeps(s, schedule_signal_reconnect(s))
<1>1. CASE s.manual_disconnect \/ ~s.auto_reconnect \/ ~should_schedule_reconnect(s)
           \/ s.timer # NoTimer \/ s.connecting
  BY <1>1 DEF Keeps, schedule_signal_reconnect
<1>2. CASE ~(s.manual_disconnect \/ ~s.auto_reconnect \/ ~should_schedule_reconnect(s)
             \/ s.timer # NoTimer \/ s.connecting)
  <2>1. CASE s.attempts >= MaxAttempts
    <3>1. schedule_signal_reconnect(s) = [s EXCEPT !.auto_reconnect = FALSE]
      BY <1>2, <2>1 DEF schedule_signal_reconnect
    <3> QED
      BY <1>2, <3>1 DEF Keeps, StateOK, StateRecords, TimerOK
  <2>2. CASE ~(s.attempts >= MaxAttempts)
    <3>1. schedule_signal_reconnect(s) = [s EXCEPT !.attempts = @ + 1, !.timer = s.epoch]
      BY <1>2, <2>2 DEF schedule_signal_reconnect
    <3>2. s.attempts + 1 \in 0 .. MaxAttempts
      BY <2>2, Numbers DEF StateOK, StateRecords
    <3> DEFINE t == [s EXCEPT !.attempts = @ + 1, !.timer = s.epoch]
    <3>3. t \in StateRecords
      <4>1. s.epoch \in 0 .. MaxEpoch
        BY DEF StateOK, StateRecords
      <4> QED
        BY <3>2, <4>1 DEF StateOK, StateRecords
    <3>4. TimerOK(t)
      BY <1>2 DEF StateOK, StateRecords, TimerOK
    <3>5. t.role = s.role /\ t.connecting = s.connecting /\ t.media_open = s.media_open
      BY DEF StateOK, StateRecords
    <3> QED
      BY <3>1, <3>3, <3>4, <3>5 DEF Keeps, StateOK
  <2> QED
    BY <2>1, <2>2
<1> QED
  BY <1>1, <1>2

LEMMA SignalDownKeeps == ASSUME NEW s, StateOK(s) PROVE Keeps(s, SignalDown(s))
  BY DEF Keeps, StateOK, StateRecords, TimerOK, SignalDown

LEMMA MediaDownKeeps == ASSUME NEW s, StateOK(s) PROVE Keeps(s, MediaDown(s))
  BY DEF Keeps, StateOK, StateRecords, TimerOK, MediaDown

LEMMA EstablishedKeeps == ASSUME NEW s, StateOK(s) PROVE Keeps(s, Established(s))
  BY Numbers DEF Keeps, StateOK, StateRecords, TimerOK, Established, NoTimer

LEMMA PublishOK ==
  ASSUME NEW s, StateOK(s)
  PROVE  StateOK(Publish(s)) /\ Publish(s).role = s.role /\ Publish(s).connecting = s.connecting
  BY DEF StateOK, StateRecords, TimerOK, Publish

(* A finished connect opens no media by itself.                                *)
LEMMA FinishedOK ==
  ASSUME NEW s, StateOK(s), NEW retry \in BOOLEAN
  PROVE  /\ StateOK(Finished(s, retry)) /\ Finished(s, retry).role = s.role
         /\ Finished(s, retry).media_open => s.media_open
<1> DEFINE t == [s EXCEPT !.resetting = FALSE, !.connecting = FALSE]
<1>1. StateOK(t) /\ t.role = s.role /\ t.media_open = s.media_open
  BY DEF StateOK, StateRecords, TimerOK
<1>2. Finished(s, retry) = t \/ Finished(s, retry) = schedule_signal_reconnect(t)
  BY DEF Finished
<1> HIDE DEF t
<1> QED
  BY <1>1, <1>2, ScheduleKeeps DEF Keeps

LEMMA OnlineKeeps == ASSUME NEW s, StateOK(s) PROVE Keeps(s, handle_libzt_online(s))
<1> DEFINE t == [s EXCEPT !.node_online = TRUE, !.offline_timer = FALSE]
<1>1. Keeps(s, t)
  BY DEF Keeps, StateOK, StateRecords, TimerOK
<1> HIDE DEF t
<1> DEFINE u == [t EXCEPT !.need_restore = FALSE]
<1>2. Keeps(t, u)
  BY <1>1 DEF Keeps, StateOK, StateRecords, TimerOK
<1>3. handle_libzt_online(s) \in {t, schedule_signal_reconnect(u)}
  BY DEF handle_libzt_online, t
<1> HIDE DEF u
<1>4. Keeps(u, schedule_signal_reconnect(u))
  BY <1>2, ScheduleKeeps DEF Keeps
<1> QED
  BY <1>1, <1>2, <1>3, <1>4, KeepsTwice

LEMMA EventsKeep ==
  ASSUME NEW s, StateOK(s), NEW events PROVE Keeps(s, HandleZtEvents(s, events))
<1> DEFINE t == IF \E i \in DOMAIN events : events[i] = "on" THEN handle_libzt_online(s) ELSE s
           u == [t EXCEPT !.node_online = FALSE, !.offline_timer = TRUE]
<1>1. Keeps(s, t)
  BY OnlineKeeps, KeepsItself
<1>2. HandleZtEvents(s, events) \in {t, u}
  BY DEF HandleZtEvents
<1> HIDE DEF t
<1>3. Keeps(t, u)
  BY <1>1 DEF Keeps, StateOK, StateRecords, TimerOK
<1> QED
  BY <1>1, <1>2, <1>3, KeepsTwice

LEMMA LinkEventsKeep ==
  ASSUME NEW s, StateOK(s) PROVE Keeps(s, OnDisconnected(s)) /\ Keeps(s, OnError(s))
<1> DEFINE t == [s EXCEPT !.signal_connected = FALSE]
<1>1. Keeps(s, t)
  BY DEF Keeps, StateOK, StateRecords, TimerOK
<1>2. OnDisconnected(s) \in {t, schedule_signal_reconnect(t)}
  BY DEF OnDisconnected
<1>3. OnError(s) \in {s, schedule_signal_reconnect(s)}
  BY DEF OnError
<1> HIDE DEF t
<1>4. Keeps(t, schedule_signal_reconnect(t))
  BY <1>1, ScheduleKeeps DEF Keeps
<1> QED
  BY <1>1, <1>2, <1>3, <1>4, ScheduleKeeps, KeepsItself, KeepsTwice

-------------------------------------------------------------------------------
(* The queue of commands                                                       *)

OneConn(q) == \A i, j \in 1 .. Len(q) : q[i].by = "conn" /\ q[j].by = "conn" => i = j
NoConnIn(q) == \A i \in 1 .. Len(q) : q[i].by # "conn"

(* connect_channels waits for a command only while it has a goal, and asks for *)
(* the address or the start of libzt only before it opens channels.            *)
Fits(goal, op) ==
  /\ goal \notin {"none", "sleep"}
  /\ op \in {"get_ip", "zt_start"} => goal \in {"prepare", "wait"}
Listen == {"signal_listen", "media_listen"}

QueueOK(q, goal, role) ==
  /\ q \in Seq(Commands) /\ OneConn(q)
  /\ \A i \in 1 .. Len(q) :
       q[i].by = "conn" => Fits(goal, q[i].op) /\ (q[i].op \in Listen => role = "share")

LEMMA TailQueue ==
  ASSUME NEW q, NEW goal, NEW role, QueueOK(q, goal, role), q # <<>>
  PROVE  /\ QueueOK(Tail(q), goal, role) /\ Head(q) \in Commands
         /\ Head(q).by = "conn" => /\ NoConnIn(Tail(q)) /\ Fits(goal, Head(q).op)
                                   /\ Head(q).op \in Listen => role = "share"
<1>1. /\ q \in Seq(Commands) /\ Len(q) \in Nat \ {0} /\ Head(q) = q[1]
      /\ Tail(q) \in Seq(Commands) /\ Len(Tail(q)) = Len(q) - 1
      /\ \A i \in 1 .. Len(Tail(q)) : Tail(q)[i] = q[i + 1]
  BY HeadTailProperties DEF QueueOK
<1>2. \A i \in 1 .. Len(Tail(q)) : i + 1 \in 1 .. Len(q) /\ i + 1 # 1
  BY <1>1
<1>3. 1 \in 1 .. Len(q)
  BY <1>1
<1>4. OneConn(Tail(q))
  <2> SUFFICES ASSUME NEW i \in 1 .. Len(Tail(q)), NEW j \in 1 .. Len(Tail(q)),
                      Tail(q)[i].by = "conn", Tail(q)[j].by = "conn"
               PROVE  i = j
    BY DEF OneConn
  <2>1. i + 1 = j + 1
    BY <1>1, <1>2 DEF QueueOK, OneConn
  <2> QED
    BY <2>1
<1>5. Head(q).by = "conn" => NoConnIn(Tail(q))
  BY <1>1, <1>2, <1>3 DEF QueueOK, OneConn, NoConnIn
<1>6. QueueOK(Tail(q), goal, role)
  BY <1>1, <1>2, <1>4 DEF QueueOK
<1>7. Head(q) \in Commands
  BY <1>1, <1>3
<1> QED
  BY <1>1, <1>3, <1>5, <1>6, <1>7 DEF QueueOK

(* Without a command of connect_channels in the queue its goal and the role    *)
(* may change.                                                                 *)
LEMMA FreeGoal ==
  ASSUME NEW q, NEW goal, NEW new, NEW role, NEW turned, QueueOK(q, goal, role), NoConnIn(q)
  PROVE  QueueOK(q, new, turned)
  BY DEF QueueOK, NoConnIn

LEMMA AppendQueue ==
  ASSUME NEW q, NEW goal, NEW role, QueueOK(q, goal, role), NEW c \in Commands,
         c.by = "conn" => /\ NoConnIn(q) /\ Fits(goal, c.op)
                          /\ c.op \in Listen => role = "share"
  PROVE  QueueOK(Append(q, c), goal, role)
<1> DEFINE r == Append(q, c)
           n == Len(q)
<1>1. /\ q \in Seq(Commands) /\ r \in Seq(Commands) /\ n \in Nat /\ Len(r) = n + 1
      /\ \A i \in 1 .. n : r[i] = q[i]
      /\ r[n + 1] = c
  BY AppendProperties DEF QueueOK
<1> HIDE DEF r
<1>2. \A i \in 1 .. Len(r) : (i \in 1 .. n /\ r[i] = q[i]) \/ (i = n + 1 /\ r[i] = c)
  BY <1>1
<1>3. OneConn(r)
  BY <1>1, <1>2 DEF OneConn, QueueOK, NoConnIn
<1>4. \A i \in 1 .. Len(r) :
         r[i].by = "conn" => Fits(goal, r[i].op) /\ (r[i].op \in Listen => role = "share")
  BY <1>2 DEF QueueOK
<1> QED
  BY <1>1, <1>3, <1>4 DEF QueueOK, r

LEMMA OtherCommand ==
  ASSUME NEW q, NEW goal, NEW role, QueueOK(q, goal, role),
         NEW by \in Callers \ {"conn"}, NEW op \in Ops
  PROVE  QueueOK(Append(q, Cmd(by, op)), goal, role)
  BY AppendQueue DEF Cmd, Commands

(* What send_signal appends, or nothing.                                       *)
LEMMA SendsQueue ==
  ASSUME NEW q, NEW goal, NEW role, QueueOK(q, goal, role), NEW s
  PROVE  QueueOK(q \o Sends(s), goal, role)
<1> DEFINE c == Cmd("send", "signal_send")
<1>1. c \in Commands
  BY DEF Cmd, Commands, Callers, Ops
<1>2. q \in Seq(Commands) /\ q \o <<>> = q /\ q \o <<c>> = Append(q, c)
  BY <1>1, ConcatEmptySeq, AppendIsConcat DEF QueueOK
<1>3. QueueOK(Append(q, c), goal, role)
  BY OtherCommand DEF Callers, Ops, Listen
<1> QED
  BY <1>2, <1>3 DEF Sends

-------------------------------------------------------------------------------
(* The inductive invariant                                                     *)

TriesOK(c) ==
  /\ c.goal \in {"none", "reset", "prepare", "wait"} => c.tries = 0
  /\ c.goal = "sleep" => c.tries < MaxTries

ConnOK(c, s) ==
  /\ c \in ConnRecords /\ TriesOK(c)
  /\ c.goal # "none" => s.connecting

SessionInv ==
  /\ StateOK(state) /\ ConnOK(conn, state)
  /\ QueueOK(cmds, conn.goal, state.role)

(* A batch of lines ends when it is empty.                                     *)
PollOK(p) == p \in PollRecords /\ (p.pc = "lines" => p.lines # <<>>)

RestTypes ==
  /\ backend \in BackendRecords
  /\ disc \in {"idle", "stopping", "closing"}
  /\ PollOK(poll)
  /\ faults \in 0 .. MaxFaults
  /\ start \in {"idle", "probe", "share"}

Inv == SessionInv /\ RestTypes

LEMMA InitInv == Init => Inv
<1> SUFFICES ASSUME Init PROVE Inv
  OBVIOUS
<1>1. StateOK(state)
  BY Numbers DEF Init, StateOK, StateRecords, TimerOK, NoTimer
<1>2. ConnOK(conn, state)
  BY Numbers DEF Init, NoConn, ConnOK, TriesOK, ConnRecords, Goals
<1>3. QueueOK(cmds, conn.goal, state.role)
  BY DEF Init, QueueOK, OneConn
<1>4. RestTypes
  BY Numbers DEF Init, RestTypes, BackendRecords, Links, NoPoll, PollOK, PollRecords
<1> QED
  BY <1>1, <1>2, <1>3, <1>4 DEF Inv, SessionInv

(* A step of anything but connect_channels.                                    *)
LEMMA OtherStep ==
  ASSUME Inv, Keeps(state, state'), conn' = conn, QueueOK(cmds', conn.goal, state.role)
  PROVE  SessionInv'
<1>1. ConnOK(conn, state')
  BY DEF Inv, SessionInv, ConnOK, Keeps
<1> QED
  BY <1>1 DEF SessionInv, Keeps

(* The queue behind an answered command of connect_channels.                   *)
LEMMA ConnAnswered ==
  ASSUME Inv, NEW op, Answered("conn", op)
  PROVE  /\ state.connecting /\ Fits(conn.goal, op)
         /\ op \in Listen => state.role = "share"
         /\ \A goal : QueueOK(Tail(cmds), goal, state.role)
         /\ NoConnIn(Tail(cmds))
<1>1. QueueOK(cmds, conn.goal, state.role) /\ cmds # <<>>
  BY DEF Inv, SessionInv, Answered
<1>2. Head(cmds).by = "conn" /\ Head(cmds).op = op
  BY DEF Answered, Cmd
<1>3. NoConnIn(Tail(cmds)) /\ Fits(conn.goal, op) /\ QueueOK(Tail(cmds), conn.goal, state.role)
      /\ (op \in Listen => state.role = "share")
  <2>1. /\ QueueOK(Tail(cmds), conn.goal, state.role)
        /\ NoConnIn(Tail(cmds)) /\ Fits(conn.goal, Head(cmds).op)
        /\ Head(cmds).op \in Listen => state.role = "share"
    BY <1>1, <1>2, TailQueue
  <2> QED
    BY <1>2, <2>1
<1>4. conn.goal # "none"
  BY <1>3 DEF Fits
<1>5. state.connecting
  BY <1>4 DEF Inv, SessionInv, ConnOK
<1>6. \A goal : QueueOK(Tail(cmds), goal, state.role)
  BY <1>3, FreeGoal
<1> QED
  BY <1>3, <1>5, <1>6

(* The queue behind any other command.                                         *)
LEMMA OtherAnswered ==
  ASSUME Inv, NEW by, NEW op, Answered(by, op)
  PROVE  QueueOK(Tail(cmds), conn.goal, state.role)
  BY TailQueue DEF Inv, SessionInv, Answered

(* Where connect_channels goes on: with a command, by closing, or to its end.  *)
LEMMA CommandStep ==
  ASSUME Inv, NEW s, Keeps(state, s), state' = s, state.connecting,
         NEW q, \A goal : QueueOK(q, goal, state.role), NoConnIn(q),
         NEW op \in Ops, cmds' = Append(q, Cmd("conn", op)), op \in Listen => state.role = "share",
         conn' \in ConnRecords, TriesOK(conn'), Fits(conn'.goal, op)
  PROVE  SessionInv'
<1>1. QueueOK(cmds', conn'.goal, state.role)
  <2>1. Cmd("conn", op) \in Commands /\ Cmd("conn", op).op = op
    BY DEF Cmd, Commands, Callers
  <2> QED
    BY <2>1, AppendQueue
<1>2. ConnOK(conn', state')
  BY DEF ConnOK, Keeps
<1> QED
  BY <1>1, <1>2 DEF SessionInv, Keeps

LEMMA GoesStep ==
  ASSUME Inv, NEW s, Keeps(state, s), state.connecting,
         NEW q, \A g : QueueOK(q, g, state.role), NoConnIn(q),
         NEW goal \in Goals, NEW op \in Ops, GoesOn(s, goal, op, q),
         op \in Listen => state.role = "share", Fits(goal, op),
         goal \in {"open", "prepare"},
         goal = "prepare" => op # "signal_connect" /\ conn.tries = 0,
         op = "signal_connect" => conn.tries = 0
  PROVE  SessionInv'
<1>1. conn \in ConnRecords
  BY DEF Inv, SessionInv, ConnOK
<1>2. conn' = [conn EXCEPT !.goal = goal, !.tries = IF op = "signal_connect" THEN @ + 1 ELSE @]
      /\ state' = s /\ cmds' = Append(q, Cmd("conn", op))
  BY DEF GoesOn
<1>3. conn' \in ConnRecords /\ TriesOK(conn') /\ conn'.goal = goal
  <2>1. CASE op = "signal_connect"
    <3>1. conn' = [conn EXCEPT !.goal = goal, !.tries = @ + 1] /\ conn.tries = 0 /\ goal = "open"
      BY <1>2, <2>1
    <3>2. conn.tries + 1 \in 0 .. MaxTries
      BY <3>1, Numbers
    <3> QED
      BY <1>1, <3>1, <3>2 DEF ConnRecords, TriesOK
  <2>2. CASE op # "signal_connect"
    <3>1. conn' = [conn EXCEPT !.goal = goal]
      BY <1>1, <1>2, <2>2 DEF ConnRecords
    <3> QED
      BY <1>1, <3>1 DEF ConnRecords, TriesOK
  <2> QED
    BY <2>1, <2>2
<1>4. Fits(conn'.goal, op)
  BY <1>3
<1> QED
  BY <1>2, <1>3, <1>4, CommandStep

(* ... behind an answered command.                                             *)
LEMMA AnsweredGoes ==
  ASSUME Inv, NEW s, Keeps(state, s), NEW from, Answered("conn", from),
         NEW goal \in Goals, NEW op \in Ops, Goes(s, goal, op),
         op \in Listen => state.role = "share", Fits(goal, op),
         goal \in {"open", "prepare"},
         goal = "prepare" => op # "signal_connect" /\ conn.tries = 0,
         op = "signal_connect" => conn.tries = 0
  PROVE  SessionInv'
<1> DEFINE q == Tail(cmds)
<1>1. state.connecting /\ NoConnIn(q) /\ \A g : QueueOK(q, g, state.role)
  BY ConnAnswered
<1>2. GoesOn(s, goal, op, q)
  BY DEF Goes
<1> HIDE DEF q
<1> QED
  BY <1>1, <1>2, GoesStep

(* Closing the transports, to fail or to try again.                            *)
LEMMA ClosesStep ==
  ASSUME Inv, NEW s, Keeps(state, s), state.connecting,
         NEW q, \A goal : QueueOK(q, goal, state.role), NoConnIn(q),
         NEW goal \in {"fail", "refuse", "retry"}, FailsTo(goal, s, q)
  PROVE  SessionInv'
<1> USE DEF FailsTo
<1>1. conn' \in ConnRecords /\ TriesOK(conn') /\ Fits(conn'.goal, "signal_close")
  BY DEF Inv, SessionInv, ConnOK, ConnRecords, TriesOK, Goals, Fits
<1>2. state' = SignalDown(s) /\ cmds' = Append(q, Cmd("conn", "signal_close"))
  BY DEF Closes
<1>3. Keeps(state, SignalDown(s))
  BY SignalDownKeeps, KeepsTwice DEF Keeps
<1> QED
  BY <1>1, <1>2, <1>3, CommandStep DEF Ops, Listen

LEMMA FailsStep ==
  ASSUME Inv, NEW s, Keeps(state, s), NEW from, Answered("conn", from),
         NEW goal \in {"fail", "refuse", "retry"}, FailsTo(goal, s, Tail(cmds))
  PROVE  SessionInv'
<1> DEFINE q == Tail(cmds)
<1>1. state.connecting /\ NoConnIn(q) /\ \A g : QueueOK(q, g, state.role)
  BY ConnAnswered
<1>2. FailsTo(goal, s, q)
  OBVIOUS
<1> HIDE DEF q
<1> QED
  BY <1>1, <1>2, ClosesStep

LEMMA FinishStep ==
  ASSUME Inv, NEW s, StateOK(s), s.role = state.role, NEW retry \in BOOLEAN,
         state' = Finished(s, retry), conn' = NoConn, QueueOK(cmds', "none", state.role)
  PROVE  SessionInv'
<1>1. ConnOK(conn', state') /\ conn'.goal = "none"
  BY Numbers DEF NoConn, ConnOK, TriesOK, ConnRecords, Goals
<1>2. StateOK(state') /\ state'.role = state.role /\ (state'.media_open => s.media_open)
  BY FinishedOK
<1> QED
  BY <1>1, <1>2 DEF SessionInv

LEMMA EndsStep ==
  ASSUME Inv, NEW s, StateOK(s), s.role = state.role, NEW retry \in BOOLEAN,
         NEW from, Answered("conn", from), Ends(s, retry)
  PROVE  SessionInv'
  BY ConnAnswered, FinishStep DEF Ends, NoMore

-------------------------------------------------------------------------------
(* The actions of connect_channels                                             *)

LEMMA OldState == ASSUME Inv PROVE StateOK(state) /\ Keeps(state, state)
  BY KeepsItself DEF Inv, SessionInv

LEMMA Idle == ASSUME Inv, ~state.connecting PROVE NoConnIn(cmds) /\ conn.goal = "none"
<1>1. conn.goal = "none" /\ QueueOK(cmds, conn.goal, state.role)
  BY DEF Inv, SessionInv, ConnOK
<1> QED
  BY <1>1 DEF QueueOK, Fits, NoConnIn

LEMMA BeginStep ==
  ASSUME Inv, NEW s \in StateRecords, ~state.connecting, NEW again \in BOOLEAN, Begin(s, again)
  PROVE  SessionInv'
<1> PICK role \in Roles :
      /\ conn' = [goal |-> "reset", epoch |-> s.epoch, again |-> again, tries |-> 0]
      /\ Closes("conn", [s EXCEPT !.connecting = TRUE, !.resetting = TRUE, !.timer = NoTimer,
                                  !.role = role], cmds)
  BY DEF Begin
<1> DEFINE t == [s EXCEPT !.connecting = TRUE, !.resetting = TRUE, !.timer = NoTimer,
                          !.role = role]
<1>1. StateOK(t) /\ t.connecting
  BY Numbers, RolesAssumption DEF StateOK, StateRecords, TimerOK, NoTimer
<1>2. state' = SignalDown(t) /\ cmds' = Append(cmds, Cmd("conn", "signal_close"))
      /\ conn' = [goal |-> "reset", epoch |-> s.epoch, again |-> again, tries |-> 0]
  BY DEF Closes
<1> HIDE DEF t
<1>3. StateOK(state') /\ state'.connecting
  BY <1>1, <1>2, SignalDownKeeps DEF Keeps
<1>4. ConnOK(conn', state') /\ Fits(conn'.goal, "signal_close")
  BY <1>2, <1>3, Numbers DEF ConnOK, TriesOK, ConnRecords, Goals, Fits, StateRecords
<1>5. NoConnIn(cmds) /\ QueueOK(cmds, conn'.goal, state'.role)
  BY Idle, FreeGoal DEF Inv, SessionInv
<1>6. QueueOK(cmds', conn'.goal, state'.role)
  <2>1. Cmd("conn", "signal_close") \in Commands /\ Cmd("conn", "signal_close").op = "signal_close"
    BY DEF Cmd, Commands, Callers, Ops
  <2> QED
    BY <1>2, <1>4, <1>5, <2>1, AppendQueue DEF Listen
<1> QED
  BY <1>3, <1>4, <1>6 DEF SessionInv

LEMMA ConnectClickedInv == ASSUME Inv, ConnectClicked PROVE Inv'
<1> DEFINE s == [state EXCEPT !.epoch = @ + 1, !.manual_disconnect = FALSE,
                              !.auto_reconnect = TRUE, !.attempts = 0]
<1>1. state.epoch + 1 \in 0 .. MaxEpoch
  BY OldState, Numbers DEF ConnectClicked, StateOK, StateRecords
<1>2. s \in StateRecords
  BY <1>1, OldState, Numbers DEF StateOK, StateRecords
<1>3. Begin(s, FALSE) /\ ~state.connecting /\ UNCHANGED <<backend, disc, poll, faults, start>>
  BY DEF ConnectClicked, NotConnecting
<1> HIDE DEF s
<1>4. SessionInv'
  BY <1>2, <1>3, BeginStep
<1> QED
  BY <1>3, <1>4 DEF Inv, RestTypes

LEMMA ReconnectTimerInv == ASSUME Inv, ReconnectTimerFires PROVE Inv'
<1> DEFINE s == [state EXCEPT !.timer = NoTimer]
<1>1. Keeps(state, s) /\ s \in StateRecords
  BY OldState, Numbers DEF Keeps, StateOK, StateRecords, TimerOK, NoTimer
<1>2. \/ TimerStillValid(s, state.timer) /\ Begin(s, TRUE)
      \/ state' = s /\ UNCHANGED <<cmds, conn>>
  BY DEF ReconnectTimerFires
<1>3. TimerStillValid(s, state.timer) => ~s.connecting
  BY DEF TimerStillValid
<1> HIDE DEF s
<1>4. SessionInv'
  <2>1. CASE Begin(s, TRUE) /\ ~s.connecting
    BY <1>1, <2>1, BeginStep DEF Keeps
  <2>2. CASE state' = s /\ UNCHANGED <<cmds, conn>>
    BY <1>1, <2>2, OtherStep DEF Inv, SessionInv
  <2> QED
    BY <1>2, <1>3, <2>1, <2>2
<1> QED
  BY <1>4 DEF ReconnectTimerFires, Inv, RestTypes

(* Opening and closing the media socket, and dialling, keep the types.         *)
LEMMA MediaSet ==
  ASSUME Inv, NEW b \in BOOLEAN, backend' = [backend EXCEPT !.media = b],
         UNCHANGED <<disc, poll, faults, start>>
  PROVE  RestTypes'
  BY DEF Inv, RestTypes, BackendRecords

LEMMA SignalSet ==
  ASSUME Inv, NEW link \in Links,
         NEW box \in Seq(Events),
         backend' = [backend EXCEPT !.signal = link, !.inbox = box],
         UNCHANGED <<disc, poll, faults, start>>
  PROVE  RestTypes'
  BY DEF Inv, RestTypes, BackendRecords

LEMMA SignalClosedInv ==
  ASSUME Inv, NEW by \in {"conn", "disc", "inval"}, SignalClosed(by) PROVE Inv'
<1> DEFINE s == MediaDown(state)
           q == Tail(cmds)
<1>1. Keeps(state, s)
  BY OldState, MediaDownKeeps
<1>2. /\ Answered(by, "signal_close") /\ state' = s /\ cmds' = Append(q, Cmd(by, "media_close"))
      /\ backend' = [backend EXCEPT !.signal = "none", !.inbox = <<>>]
      /\ UNCHANGED <<conn, disc, poll, faults, start>>
  BY DEF SignalClosed, Then
<1> HIDE DEF s
<1>3. SessionInv'
  <2>1. CASE by = "conn"
    <3>1. /\ state.connecting /\ Fits(conn.goal, "media_close")
          /\ NoConnIn(q) /\ \A goal : QueueOK(q, goal, state.role)
      BY <1>2, <2>1, ConnAnswered DEF Fits
    <3>2. conn' \in ConnRecords /\ TriesOK(conn') /\ conn' = conn
      BY <1>2 DEF Inv, SessionInv, ConnOK
    <3> HIDE DEF q
    <3> QED
      BY <1>1, <1>2, <2>1, <3>1, <3>2, CommandStep DEF Ops, Listen
  <2>2. CASE by # "conn"
    BY <1>1, <1>2, <2>2, OtherAnswered, OtherCommand, OtherStep DEF Callers, Ops, Listen
  <2> QED
    BY <2>1, <2>2
<1>4. RestTypes'
  <2>1. <<>> \in Seq(Events)
    OBVIOUS
  <2> QED
    BY <1>2, <2>1, SignalSet DEF Links
<1> QED
  BY <1>3, <1>4 DEF Inv

LEMMA ResetDoneInv == ASSUME Inv, ResetDone PROVE Inv'
<1> DEFINE s == [state EXCEPT !.event_pump = TRUE]
<1>1. Answered("conn", "media_close") /\ conn.goal = "reset"
      /\ backend' = [backend EXCEPT !.media = FALSE] /\ UNCHANGED <<disc, poll, faults, start>>
  BY DEF ResetDone, MediaClosed
<1>2. \/ Ends(state, FALSE)
      \/ Goes(s, "prepare", "get_ip")
      \/ Goes(s, "prepare", "zt_start")
      \/ FailsTo("refuse", s, Tail(cmds))
  BY DEF ResetDone
<1>3. Keeps(state, s)
  BY OldState DEF Keeps, StateOK, StateRecords, TimerOK
<1>4. conn.tries = 0
  BY <1>1 DEF Inv, SessionInv, ConnOK, TriesOK
<1> HIDE DEF s
<1>5. SessionInv'
  <2>1. CASE Ends(state, FALSE)
    BY <1>1, <2>1, OldState, EndsStep
  <2>2. CASE Goes(s, "prepare", "get_ip")
    BY <1>1, <1>3, <1>4, <2>2, AnsweredGoes DEF Fits, Listen, Goals, Ops
  <2>3. CASE Goes(s, "prepare", "zt_start")
    BY <1>1, <1>3, <1>4, <2>3, AnsweredGoes DEF Fits, Listen, Goals, Ops
  <2>4. CASE FailsTo("refuse", s, Tail(cmds))
    BY <1>1, <1>3, <2>4, FailsStep
  <2> QED
    BY <1>2, <2>1, <2>2, <2>3, <2>4
<1> QED
  BY <1>1, <1>5, MediaSet DEF Inv

LEMMA ZtStartedInv == ASSUME Inv, ZtStarted PROVE Inv'
<1> DEFINE s == [state EXCEPT !.zt_started = TRUE, !.need_restore = FALSE, !.invalidated = FALSE]
<1>1. Answered("conn", "zt_start") /\ UNCHANGED <<disc, poll, faults, start>>
  BY DEF ZtStarted
<1>2. \/ /\ backend' = [backend EXCEPT !.zt = TRUE, !.stray = FALSE]
         /\ Goes(s, "prepare", "get_ip")
      \/ /\ \E runs \in BOOLEAN : backend' = [backend EXCEPT !.stray = @ \/ runs]
         /\ Fails(state)
  BY DEF ZtStarted
<1>3. Keeps(state, s)
  BY OldState DEF Keeps, StateOK, StateRecords, TimerOK
<1>4. conn.tries = 0
  BY <1>1, ConnAnswered DEF Inv, SessionInv, ConnOK, TriesOK, Fits
<1> HIDE DEF s
<1>5. SessionInv'
  <2>1. CASE Goes(s, "prepare", "get_ip")
    BY <1>1, <1>3, <1>4, <2>1, AnsweredGoes DEF Fits, Listen, Goals, Ops
  <2>2. CASE Fails(state)
    BY <1>1, <2>2, OldState, FailsStep DEF Fails
  <2> QED
    BY <1>2, <2>1, <2>2
<1>6. RestTypes'
  BY <1>1, <1>2 DEF Inv, RestTypes, BackendRecords
<1> QED
  BY <1>5, <1>6 DEF Inv

LEMMA CreateChannelsStep ==
  ASSUME Inv, NEW s, Keeps(state, s), state.connecting, conn.tries = 0,
         NEW q, \A g : QueueOK(q, g, state.role), NoConnIn(q), CreateChannels(s, q)
  PROVE  SessionInv'
<1> DEFINE t == [s EXCEPT !.invalidated = FALSE]
<1>1. \/ t.role = "share" /\ GoesOn(t, "open", "signal_listen", q)
      \/ GoesOn(t, "open", "signal_connect", q)
      \/ FailsTo("refuse", t, q)
  BY DEF CreateChannels
<1>2. Keeps(state, t)
  BY DEF Keeps, StateOK, StateRecords, TimerOK
<1> HIDE DEF t
<1>3. CASE t.role = "share" /\ GoesOn(t, "open", "signal_listen", q)
  <2>1. state.role = "share"
    BY <1>2, <1>3 DEF Keeps
  <2> QED
    BY <1>2, <1>3, <2>1, GoesStep DEF Fits, Listen, Goals, Ops
<1>4. CASE GoesOn(t, "open", "signal_connect", q)
  BY <1>2, <1>4, GoesStep DEF Fits, Listen, Goals, Ops
<1>5. CASE FailsTo("refuse", t, q)
  BY <1>2, <1>5, ClosesStep
<1> QED
  BY <1>1, <1>3, <1>4, <1>5

LEMMA IpReadInv == ASSUME Inv, IpRead PROVE Inv'
<1> DEFINE s == [state EXCEPT !.host_ip = backend.ip]
           q == Tail(cmds)
<1>1. Answered("conn", "get_ip") /\ UNCHANGED <<backend, disc, poll, faults, start>>
  BY DEF IpRead
<1>2. \/ Ends(s, FALSE) \/ CreateChannels(s, q)
      \/ state' = s /\ conn' = [conn EXCEPT !.goal = "wait"] /\ cmds' = q
      \/ state' = s /\ cmds' = q /\ UNCHANGED conn
  BY DEF IpRead, NoMore
<1>3. Keeps(state, s)
  BY OldState DEF Inv, RestTypes, BackendRecords, Keeps, StateOK, StateRecords, TimerOK
<1>4. conn.tries = 0 /\ state.connecting /\ conn \in ConnRecords /\ conn.goal # "none"
  BY <1>1, ConnAnswered DEF Inv, SessionInv, ConnOK, TriesOK, Fits
<1>5. NoConnIn(q) /\ \A goal : QueueOK(q, goal, state.role)
  BY <1>1, ConnAnswered
<1> HIDE DEF s
<1>6. SessionInv'
  <2>1. CASE Ends(s, FALSE)
    BY <1>1, <1>3, <2>1, EndsStep DEF Keeps
  <2> HIDE DEF q
  <2>2. CASE CreateChannels(s, q)
    BY <1>3, <1>4, <1>5, <2>2, CreateChannelsStep
  <2>3. CASE state' = s /\ conn' = [conn EXCEPT !.goal = "wait"] /\ cmds' = q
    <3>1. ConnOK(conn', state')
      BY <1>3, <1>4, <2>3 DEF ConnOK, ConnRecords, TriesOK, Goals, Keeps
    <3> QED
      BY <1>3, <1>5, <2>3, <3>1 DEF SessionInv, Keeps
  <2>4. CASE state' = s /\ cmds' = q /\ UNCHANGED conn
    BY <1>3, <1>5, <2>4, OtherStep
  <2> QED
    BY <1>2, <2>1, <2>2, <2>3, <2>4
<1> QED
  BY <1>1, <1>6 DEF Inv, RestTypes

LEMMA WaitInv == ASSUME Inv, WaitTick \/ WaitTimeout PROVE Inv'
<1>1. conn.goal = "wait" /\ ~Waits("conn") /\ UNCHANGED <<backend, disc, poll, faults, start>>
  BY DEF WaitTick, WaitTimeout
<1>2. QueueOK(cmds, conn.goal, state.role) /\ NoConnIn(cmds) /\ conn \in ConnRecords /\ TriesOK(conn)
      /\ state.connecting
  BY <1>1 DEF Inv, SessionInv, ConnOK, Waits, NoConnIn, QueueOK
<1>3. \A goal : QueueOK(cmds, goal, state.role)
  BY <1>2, FreeGoal
<1>4. SessionInv'
  <2>1. CASE WaitTick
    <3>1. cmds' = Append(cmds, Cmd("conn", "get_ip")) /\ UNCHANGED <<state, conn>>
      BY <2>1 DEF WaitTick
    <3>2. conn' \in ConnRecords /\ TriesOK(conn') /\ Fits(conn'.goal, "get_ip")
      BY <1>1, <1>2, <3>1 DEF Fits
    <3> QED
      BY <1>2, <1>3, <3>1, <3>2, OldState, CommandStep DEF Ops, Listen
  <2>2. CASE state' = Finished(state, FALSE) /\ conn' = NoConn /\ UNCHANGED cmds
    BY <1>3, <2>2, OldState, FinishStep
  <2>3. CASE CreateChannels(state, cmds)
    <3>1. conn.tries = 0
      BY <1>1, <1>2 DEF TriesOK
    <3> QED
      BY <1>2, <1>3, <2>3, <3>1, OldState, CreateChannelsStep
  <2>4. CASE FailsTo("fail", state, cmds)
    BY <1>2, <1>3, <2>4, OldState, ClosesStep
  <2> QED
    BY <2>1, <2>2, <2>3, <2>4 DEF WaitTimeout
<1> QED
  BY <1>1, <1>4 DEF Inv, RestTypes

LEMMA SignalListensInv == ASSUME Inv, SignalListens PROVE Inv'
<1>1. Answered("conn", "signal_listen") /\ UNCHANGED <<disc, poll, faults, start>>
  BY DEF SignalListens
<1>2. \/ /\ backend' = [backend EXCEPT !.signal = "starting", !.inbox = <<>>]
         /\ Goes(state, "open", "media_listen")
      \/ /\ backend' = [backend EXCEPT !.signal = "none", !.inbox = <<>>]
         /\ Fails(state)
  BY DEF SignalListens
<1>3. state.role = "share"
  BY <1>1, ConnAnswered DEF Listen
<1>4. SessionInv'
  <2>1. CASE Goes(state, "open", "media_listen")
    BY <1>1, <1>3, <2>1, OldState, AnsweredGoes DEF Fits, Goals, Ops
  <2>2. CASE Fails(state)
    BY <1>1, <2>2, OldState, FailsStep DEF Fails
  <2> QED
    BY <1>2, <2>1, <2>2
<1>5. RestTypes'
  <2>1. <<>> \in Seq(Events)
    OBVIOUS
  <2> QED
    BY <1>1, <1>2, <2>1, SignalSet DEF Links
<1> QED
  BY <1>4, <1>5 DEF Inv

(* The sharer publishes even when it is superseded.                            *)
LEMMA MediaListensInv == ASSUME Inv, MediaListens PROVE Inv'
<1> DEFINE s == Publish(state)
           t == IF should_stop(s, conn) THEN s ELSE Established(s)
<1>1. Answered("conn", "media_listen") /\ UNCHANGED <<disc, poll, faults, start>>
  BY DEF MediaListens
<1>2. \/ backend' = [backend EXCEPT !.media = TRUE] /\ Ends(t, FALSE)
      \/ backend' = [backend EXCEPT !.media = FALSE] /\ Fails(state)
  BY DEF MediaListens
<1>3. state.role = "share"
  BY <1>1, ConnAnswered DEF Listen
<1>4. StateOK(s) /\ s.role = state.role
  BY OldState, PublishOK
<1> HIDE DEF s
<1>5. StateOK(t) /\ t.role = state.role
  BY <1>4, EstablishedKeeps DEF Keeps
<1> HIDE DEF t
<1>6. SessionInv'
  <2>1. CASE Ends(t, FALSE)
    BY <1>1, <1>3, <1>5, <2>1, EndsStep
  <2>2. CASE Fails(state)
    BY <1>1, <2>2, OldState, FailsStep DEF Fails
  <2> QED
    BY <1>2, <2>1, <2>2
<1> QED
  BY <1>1, <1>2, <1>6, MediaSet DEF Inv

LEMMA DialFailsStep ==
  ASSUME Inv, NEW from, Answered("conn", from), DialFails PROVE SessionInv'
  BY OldState, FailsStep DEF DialFails

LEMMA SignalDialedInv == ASSUME Inv, SignalDialed PROVE Inv'
<1>1. Answered("conn", "signal_connect") /\ UNCHANGED <<disc, poll, faults, start>>
  BY DEF SignalDialed
<1>2. \/ /\ backend' = [backend EXCEPT !.signal = "linked", !.inbox = <<"connected">>]
         /\ Goes(state, "open", "media_connect")
      \/ backend' = [backend EXCEPT !.signal = "none", !.inbox = <<>>] /\ DialFails
  BY DEF SignalDialed
<1>3. SessionInv'
  <2>1. CASE Goes(state, "open", "media_connect")
    BY <1>1, <2>1, OldState, AnsweredGoes DEF Fits, Listen, Goals, Ops
  <2>2. CASE DialFails
    BY <1>1, <2>2, DialFailsStep DEF Fails
  <2> QED
    BY <1>2, <2>1, <2>2
<1>4. RestTypes'
  <2>1. <<>> \in Seq(Events) /\ <<"connected">> \in Seq(Events)
    BY DEF Events
  <2> QED
    BY <1>1, <1>2, <2>1, SignalSet DEF Links
<1> QED
  BY <1>3, <1>4 DEF Inv

LEMMA MediaDialedInv == ASSUME Inv, MediaDialed PROVE Inv'
<1> DEFINE s == Publish(state)
           t == Established(s)
<1>1. Answered("conn", "media_connect") /\ UNCHANGED <<disc, poll, faults, start>>
  BY DEF MediaDialed
<1>2. \/ /\ backend' = [backend EXCEPT !.media = TRUE]
         /\ \/ Ends(state, FALSE)
            \/ /\ ~should_stop(state, conn)
               /\ state' = Finished(t, FALSE) /\ conn' = NoConn
               /\ cmds' = Tail(cmds) \o Sends(s)
      \/ backend' = [backend EXCEPT !.media = FALSE] /\ DialFails
  BY DEF MediaDialed
<1>3. StateOK(s) /\ s.role = state.role
  BY OldState, PublishOK
<1> HIDE DEF s
<1>4. StateOK(t) /\ t.role = state.role
  BY <1>3, EstablishedKeeps DEF Keeps
<1> HIDE DEF t
<1>5. SessionInv'
  <2>1. CASE Ends(state, FALSE)
    BY <1>1, <2>1, OldState, EndsStep
  <2>2. CASE /\ ~should_stop(state, conn)
             /\ state' = Finished(t, FALSE) /\ conn' = NoConn
             /\ cmds' = Tail(cmds) \o Sends(s)
    <3>1. QueueOK(cmds', "none", state.role)
      BY <1>1, <2>2, ConnAnswered, SendsQueue
    <3> QED
      BY <1>4, <2>2, <3>1, FinishStep
  <2>3. CASE DialFails
    BY <1>1, <2>3, DialFailsStep DEF Fails
  <2> QED
    BY <1>2, <2>1, <2>2, <2>3
<1> QED
  BY <1>1, <1>2, <1>5, MediaSet DEF Inv

LEMMA RetryClosedInv == ASSUME Inv, RetryClosed PROVE Inv'
<1>1. Answered("conn", "media_close") /\ conn.goal = "retry"
      /\ backend' = [backend EXCEPT !.media = FALSE] /\ UNCHANGED <<disc, poll, faults, start>>
  BY DEF RetryClosed, MediaClosed
<1>2. \/ conn.tries < MaxTries /\ conn' = [conn EXCEPT !.goal = "sleep"] /\ NoMore /\ UNCHANGED state
      \/ Fails(state)
  BY DEF RetryClosed
<1>3. SessionInv'
  <2>1. CASE conn.tries < MaxTries /\ conn' = [conn EXCEPT !.goal = "sleep"] /\ NoMore /\ UNCHANGED state
    <3>1. state.connecting /\ QueueOK(cmds', "sleep", state.role)
      BY <1>1, <2>1, ConnAnswered DEF NoMore
    <3>2. ConnOK(conn', state')
      BY <2>1, <3>1 DEF Inv, SessionInv, ConnOK, ConnRecords, TriesOK, Goals
    <3>3. conn'.goal = "sleep"
      BY <2>1 DEF Inv, SessionInv, ConnOK, ConnRecords
    <3> QED
      BY <2>1, <3>1, <3>2, <3>3, OldState DEF SessionInv
  <2>2. CASE Fails(state)
    BY <1>1, <2>2, OldState, FailsStep DEF Fails
  <2> QED
    BY <1>2, <2>1, <2>2
<1> QED
  BY <1>1, <1>3, MediaSet DEF Inv

LEMMA RetryWakesInv == ASSUME Inv, RetryWakes PROVE Inv'
<1>1. conn.goal = "sleep" /\ UNCHANGED <<backend, disc, poll, faults, start>>
  BY DEF RetryWakes
<1>2. NoConnIn(cmds) /\ state.connecting /\ \A goal : QueueOK(cmds, goal, state.role)
  <2>1. QueueOK(cmds, conn.goal, state.role) /\ NoConnIn(cmds)
    BY <1>1 DEF Inv, SessionInv, QueueOK, Fits, NoConnIn
  <2>2. state.connecting
    BY <1>1 DEF Inv, SessionInv, ConnOK
  <2> QED
    BY <2>1, <2>2, FreeGoal
<1>3. SessionInv'
  <2>1. CASE state' = Finished(state, FALSE) /\ conn' = NoConn /\ UNCHANGED cmds
    BY <1>2, <2>1, OldState, FinishStep
  <2>2. CASE /\ conn' = [conn EXCEPT !.goal = "open", !.tries = @ + 1]
             /\ cmds' = Append(cmds, Cmd("conn", "signal_connect")) /\ UNCHANGED state
    <3>1. conn.tries + 1 \in 0 .. MaxTries
      BY <1>1, Numbers DEF Inv, SessionInv, ConnOK, ConnRecords, TriesOK
    <3>2. conn' \in ConnRecords /\ TriesOK(conn') /\ Fits(conn'.goal, "signal_connect")
      BY <2>2, <3>1 DEF Inv, SessionInv, ConnOK, ConnRecords, TriesOK, Goals, Fits
    <3> QED
      BY <1>2, <2>2, <3>2, OldState, CommandStep DEF Ops, Listen
  <2> QED
    BY <2>1, <2>2 DEF RetryWakes
<1> QED
  BY <1>1, <1>3 DEF Inv, RestTypes

LEMMA FailClosedInv == ASSUME Inv, FailClosed PROVE Inv'
<1> DEFINE retry == IF conn.goal = "fail" THEN state.auto_reconnect ELSE conn.again
<1>1. Answered("conn", "media_close")
      /\ backend' = [backend EXCEPT !.media = FALSE] /\ UNCHANGED <<disc, poll, faults, start>>
  BY DEF FailClosed, MediaClosed
<1>2. Ends(state, retry)
  BY DEF FailClosed
<1>3. retry \in BOOLEAN
  BY OldState DEF Inv, SessionInv, ConnOK, ConnRecords, StateOK, StateRecords
<1> HIDE DEF retry
<1>4. SessionInv'
  BY <1>1, <1>2, <1>3, OldState, EndsStep
<1> QED
  BY <1>1, <1>4, MediaSet DEF Inv

-------------------------------------------------------------------------------
(* Clicks, and the rest of disconnect_all                                      *)

LEMMA StartClickedInv == ASSUME Inv, StartClicked PROVE Inv'
<1>1. PICK role \in Roles :
        LET s == [state EXCEPT !.start_requested = TRUE, !.role = role]
        IN /\ state' = s
           /\ \/ start' = "probe" /\ cmds' = Append(cmds, Cmd("start", "media_send"))
              \/ UNCHANGED start /\ cmds' = cmds \o Sends(s)
              \/ start' \in {"share", start} /\ cmds' = cmds
  BY DEF StartClicked
<1>2. ~state.connecting /\ UNCHANGED <<backend, conn, disc, poll, faults>>
  BY DEF StartClicked
<1>3. StateOK(state')
  BY <1>1, OldState, RolesAssumption DEF StateOK, StateRecords, TimerOK
<1>4. ConnOK(conn', state')
  BY <1>2, Idle DEF Inv, SessionInv, ConnOK
<1>5. QueueOK(cmds, conn'.goal, state'.role)
  BY <1>2, Idle, FreeGoal DEF Inv, SessionInv
<1>6. QueueOK(cmds', conn'.goal, state'.role)
  BY <1>1, <1>5, SendsQueue, OtherCommand DEF Callers, Ops
<1>7. start' \in {"idle", "probe", "share"}
  BY <1>1 DEF Inv, RestTypes
<1> QED
  BY <1>2, <1>3, <1>4, <1>6, <1>7 DEF Inv, SessionInv, RestTypes

LEMMA StartGoesOnInv == ASSUME Inv, StartProbed \/ SharePipelineStarted PROVE Inv'
<1>1. UNCHANGED <<state, backend, conn, disc, poll, faults>> /\ start' = "idle"
  BY DEF StartProbed, SharePipelineStarted
<1>2. QueueOK(cmds', conn.goal, state.role)
  <2>1. CASE StartProbed
    BY <2>1, OtherAnswered, SendsQueue DEF StartProbed, NoMore
  <2>2. CASE SharePipelineStarted
    BY <2>2, SendsQueue DEF SharePipelineStarted, Inv, SessionInv
  <2> QED
    BY <2>1, <2>2
<1>3. SessionInv'
  BY <1>1, <1>2, OldState, OtherStep
<1> QED
  BY <1>1, <1>3 DEF Inv, RestTypes

(* close_transports by a coroutine other than connect_channels.                *)
LEMMA OtherCloses ==
  ASSUME Inv, NEW s, Keeps(state, s), NEW by \in {"disc", "inval"},
         NEW q, QueueOK(q, conn.goal, state.role), Closes(by, s, q), conn' = conn
  PROVE  SessionInv'
<1>1. Keeps(state, SignalDown(s))
  BY SignalDownKeeps, KeepsTwice DEF Keeps
<1>2. QueueOK(Append(q, Cmd(by, "signal_close")), conn.goal, state.role)
  BY OtherCommand DEF Callers, Ops
<1> QED
  BY <1>1, <1>2, OtherStep DEF Closes

LEMMA DisconnectClickedInv == ASSUME Inv, DisconnectClicked PROVE Inv'
<1> DEFINE s == [state EXCEPT !.epoch = @ + 1, !.manual_disconnect = TRUE,
                   !.auto_reconnect = FALSE, !.resetting = TRUE, !.timer = NoTimer,
                   !.offline_timer = FALSE]
<1>1. state.epoch + 1 \in 0 .. MaxEpoch
  BY OldState, Numbers DEF DisconnectClicked, StateOK, StateRecords
<1>2. Keeps(state, s)
  BY <1>1, OldState, Numbers DEF Keeps, StateOK, StateRecords, TimerOK, NoTimer
<1> DEFINE ended == IF s.role = "share" /\ s.start_requested THEN cmds \o Sends(s) ELSE cmds
<1>3. \/ state' = s /\ disc' = "stopping" /\ cmds' = ended
      \/ disc' = "closing" /\ Closes("disc", s, ended)
  BY DEF DisconnectClicked
<1>4. UNCHANGED <<backend, conn, poll, faults, start>>
  BY DEF DisconnectClicked
<1> HIDE DEF s
<1>6. QueueOK(ended, conn.goal, state.role)
  BY SendsQueue DEF Inv, SessionInv
<1> HIDE DEF ended
<1>5. SessionInv'
  <2>1. CASE state' = s /\ cmds' = ended
    BY <1>2, <1>4, <1>6, <2>1, OtherStep
  <2>2. CASE Closes("disc", s, ended)
    BY <1>2, <1>4, <1>6, <2>2, OtherCloses
  <2> QED
    BY <1>3, <2>1, <2>2
<1> QED
  BY <1>3, <1>4, <1>5 DEF Inv, RestTypes

LEMMA PipelineStoppedInv == ASSUME Inv, PipelineStopped PROVE Inv'
<1>1. SessionInv'
  BY OldState, OtherCloses DEF PipelineStopped, Inv, SessionInv
<1> QED
  BY <1>1 DEF PipelineStopped, Inv, RestTypes

(* The last part of disconnect_all, whatever stop_libzt has left of s.         *)
LEMMA DisconnectedStep ==
  ASSUME Inv, NEW s, Keeps(state, s), Disconnected(s), NEW op, Answered("disc", op), conn' = conn
  PROVE  SessionInv' /\ disc' = "idle"
<1> DEFINE t == [s EXCEPT !.start_requested = FALSE, !.attempts = 0, !.resetting = FALSE,
                   !.media_open = FALSE, !.invalidated = FALSE, !.need_restore = FALSE]
<1>1. Keeps(s, t)
  BY Numbers DEF Keeps, StateOK, StateRecords, TimerOK
<1>2. state' = t /\ disc' = "idle" /\ cmds' = Tail(cmds)
  BY DEF Disconnected, NoMore
<1> HIDE DEF t
<1> QED
  BY <1>1, <1>2, KeepsTwice, OtherAnswered, OtherStep

LEMMA DiscClosedInv == ASSUME Inv, DiscClosed PROVE Inv'
<1>1. Answered("disc", "media_close") /\ backend' = [backend EXCEPT !.media = FALSE]
      /\ UNCHANGED <<conn, poll, faults, start>>
  BY DEF DiscClosed, MediaClosed
<1>2. \/ Then("disc", "zt_stop") /\ UNCHANGED <<state, disc>>
      \/ Disconnected(state)
  BY DEF DiscClosed
<1>3. SessionInv' /\ disc' \in {disc, "idle"}
  <2>1. CASE Then("disc", "zt_stop") /\ UNCHANGED <<state, disc>>
    BY <1>1, <2>1, OldState, OtherAnswered, OtherCommand, OtherStep DEF Then, Callers, Ops, Listen
  <2>2. CASE Disconnected(state)
    BY <1>1, <2>2, OldState, DisconnectedStep
  <2> QED
    BY <1>2, <2>1, <2>2
<1> QED
  BY <1>1, <1>3 DEF Inv, RestTypes, BackendRecords

LEMMA ZtStoppedInv == ASSUME Inv, ZtStopped PROVE Inv'
<1> DEFINE s == [state EXCEPT !.zt_started = FALSE, !.node_online = FALSE,
                   !.host_ip = FALSE, !.event_pump = FALSE]
<1>1. /\ Answered("disc", "zt_stop") /\ Disconnected(s) /\ UNCHANGED <<conn, poll, faults, start>>
      /\ backend' = [backend EXCEPT !.zt = FALSE, !.online = FALSE, !.ip = FALSE,
                       !.media = FALSE, !.signal = "none", !.inbox = <<>>]
  BY DEF ZtStopped
<1>2. Keeps(state, s)
  BY OldState DEF Keeps, StateOK, StateRecords, TimerOK
<1> HIDE DEF s
<1>3. SessionInv' /\ disc' = "idle"
  BY <1>1, <1>2, DisconnectedStep
<1>4. backend' \in BackendRecords
  <2>1. <<>> \in Seq(Events)
    OBVIOUS
  <2> QED
    BY <1>1, <2>1 DEF Inv, RestTypes, BackendRecords, Links
<1> QED
  BY <1>1, <1>3, <1>4 DEF Inv, RestTypes

-------------------------------------------------------------------------------
(* The offline watch                                                           *)

LEMMA EventsPolledInv == ASSUME Inv, EventsPolled PROVE Inv'
<1>1. state' = HandleZtEvents(state, backend.events) /\ UNCHANGED <<cmds, conn, disc, poll, faults, start>>
      /\ backend' = [backend EXCEPT !.events = <<>>]
  BY DEF EventsPolled
<1>2. Keeps(state, state')
  BY <1>1, OldState, EventsKeep
<1>3. SessionInv'
  BY <1>1, <1>2, OtherStep DEF Inv, SessionInv
<1>4. backend' \in BackendRecords
  <2>1. <<>> \in Seq({"on", "off"})
    OBVIOUS
  <2> QED
    BY <1>1, <2>1 DEF Inv, RestTypes, BackendRecords
<1> QED
  BY <1>1, <1>3, <1>4 DEF Inv, RestTypes

LEMMA InvalidatesStep ==
  ASSUME Inv, NEW s, Keeps(state, s), Invalidates(s), conn' = conn
  PROVE  SessionInv'
<1> DEFINE t == [s EXCEPT !.invalidated = TRUE, !.resetting = TRUE]
<1>1. Keeps(s, t)
  BY DEF Keeps, StateOK, StateRecords, TimerOK
<1>2. Closes("inval", t, cmds)
  BY DEF Invalidates
<1> HIDE DEF t
<1> QED
  BY <1>1, <1>2, KeepsTwice, OtherCloses DEF Inv, SessionInv

LEMMA OfflineInv == ASSUME Inv, SoftOffline \/ OfflineTimerFires PROVE Inv'
<1> DEFINE s == [state EXCEPT !.offline_timer = FALSE]
           had_session == \/ s.signal_connected \/ s.signal_listening
                          \/ s.media_open \/ s.start_requested
           t == IF s.node_online THEN s ELSE [s EXCEPT !.need_restore = had_session]
<1>1. UNCHANGED <<backend, conn, disc, poll, faults, start>>
  BY DEF SoftOffline, OfflineTimerFires
<1>2. Invalidates(state) \/ (state' = t /\ UNCHANGED cmds) \/ Invalidates(t)
  BY DEF SoftOffline, OfflineTimerFires
<1>3. Keeps(state, s) /\ had_session \in BOOLEAN
  BY OldState DEF Keeps, StateOK, StateRecords, TimerOK
<1> HIDE DEF s, had_session
<1>4. Keeps(s, t)
  BY <1>3 DEF Keeps, StateOK, StateRecords, TimerOK
<1>5. Keeps(state, t)
  BY <1>3, <1>4, KeepsTwice
<1> HIDE DEF t
<1>6. SessionInv'
  <2>1. CASE Invalidates(state)
    BY <1>1, <2>1, OldState, InvalidatesStep
  <2>2. CASE state' = t /\ UNCHANGED cmds
    BY <1>1, <1>5, <2>2, OtherStep DEF Inv, SessionInv
  <2>3. CASE Invalidates(t)
    BY <1>1, <1>5, <2>3, InvalidatesStep
  <2> QED
    BY <1>2, <2>1, <2>2, <2>3
<1> QED
  BY <1>1, <1>6 DEF Inv, RestTypes

LEMMA InvalClosedInv == ASSUME Inv, InvalClosed PROVE Inv'
<1>1. Answered("inval", "media_close") /\ backend' = [backend EXCEPT !.media = FALSE]
      /\ state' = [state EXCEPT !.resetting = FALSE] /\ cmds' = Tail(cmds)
      /\ UNCHANGED <<conn, disc, poll, faults, start>>
  BY DEF InvalClosed, MediaClosed, NoMore
<1>2. Keeps(state, state')
  BY <1>1, OldState DEF Keeps, StateOK, StateRecords, TimerOK
<1>3. SessionInv'
  BY <1>1, <1>2, OtherAnswered, OtherStep
<1> QED
  BY <1>1, <1>3, MediaSet DEF Inv

-------------------------------------------------------------------------------
(* The signal pump                                                             *)

LEMMA PollsStep ==
  ASSUME Inv, NEW s, Keeps(state, s), NEW lines \in Seq(Events), Polls(s, lines)
  PROVE  Keeps(state, state') /\ PollOK(poll')
<1> DEFINE t == [s EXCEPT !.poll_busy = FALSE]
<1>1. Keeps(s, t)
  BY DEF Keeps, StateOK, StateRecords, TimerOK
<1>2. \/ state' = t /\ poll' = NoPoll
      \/ lines # <<>> /\ state' = s /\ poll' = [pc |-> "lines", lines |-> lines]
  BY DEF Polls
<1> HIDE DEF t
<1>3. PollOK(NoPoll)
  BY DEF NoPoll, PollOK, PollRecords
<1> QED
  BY <1>1, <1>2, <1>3, KeepsTwice DEF PollOK, PollRecords

LEMMA PollTickInv == ASSUME Inv, PollTick PROVE Inv'
<1>1. /\ state' = [state EXCEPT !.poll_busy = TRUE] /\ poll' = [poll EXCEPT !.pc = "called"]
      /\ cmds' = Append(cmds, Cmd("poll", "signal_poll")) /\ UNCHANGED <<backend, conn, disc, faults, start>>
  BY DEF PollTick
<1>2. Keeps(state, state')
  BY <1>1, OldState DEF Keeps, StateOK, StateRecords, TimerOK
<1>3. QueueOK(cmds', conn.goal, state.role)
  BY <1>1, OtherCommand DEF Inv, SessionInv, Callers, Ops, Listen
<1>4. SessionInv'
  BY <1>1, <1>2, <1>3, OtherStep
<1> QED
  BY <1>1, <1>4 DEF Inv, RestTypes, PollOK, PollRecords

LEMMA PollAnsweredInv == ASSUME Inv, PollAnswered PROVE Inv'
<1>1. /\ Answered("poll", "signal_poll") /\ Polls(state, backend.inbox)
      /\ backend' = [backend EXCEPT !.inbox = <<>>] /\ cmds' = Tail(cmds)
      /\ UNCHANGED <<conn, disc, faults, start>>
  BY DEF PollAnswered, NoMore
<1>2. Keeps(state, state') /\ PollOK(poll')
  BY <1>1, OldState, PollsStep DEF Inv, RestTypes, BackendRecords
<1>3. SessionInv'
  BY <1>1, <1>2, OtherAnswered, OtherStep
<1>4. backend' \in BackendRecords
  <2>1. <<>> \in Seq(Events)
    OBVIOUS
  <2> QED
    BY <1>1, <2>1 DEF Inv, RestTypes, BackendRecords
<1> QED
  BY <1>1, <1>2, <1>3, <1>4 DEF Inv, RestTypes

(* A line leaves the state of the handler, and adds at most a command.         *)
LEMMA LineStep ==
  ASSUME Inv, UNCHANGED <<backend, conn, disc, faults, start>>,
         Keeps(state, state'), PollOK(poll'),
         QueueOK(cmds', conn.goal, state.role)
  PROVE  Inv'
<1>1. SessionInv'
  BY OtherStep
<1> QED
  BY <1>1 DEF Inv, RestTypes

LEMMA JoinsStep ==
  ASSUME Inv, NEW s, Keeps(state, s), NEW lines \in Seq(Events),
         NEW q, QueueOK(q, conn.goal, state.role), Joins(s, lines, q)
  PROVE  Keeps(state, state') /\ PollOK(poll') /\ QueueOK(cmds', conn.goal, state.role)
<1>1. QueueOK(q \o Sends(s), conn.goal, state.role)
  BY SendsQueue
<1>2. CASE Polls(s, lines) /\ cmds' = q \o Sends(s)
  BY <1>1, <1>2, PollsStep
<1>3. CASE /\ state' = s /\ poll' = [pc |-> "feedback", lines |-> lines]
           /\ cmds' = Append(q \o Sends(s), Cmd("poll", "media_send"))
  <2>1. QueueOK(cmds', conn.goal, state.role)
    BY <1>1, <1>3, OtherCommand DEF Callers, Ops
  <2> QED
    BY <1>3, <2>1 DEF PollOK, PollRecords
<1> QED
  BY <1>2, <1>3 DEF Joins

LEMMA HandleConnectedInv ==
  ASSUME Inv, NEW rest \in Seq(Events), HandleConnected(rest),
         UNCHANGED <<backend, conn, disc, faults, start>>
  PROVE  Inv'
<1> DEFINE s == [state EXCEPT !.signal_connected = TRUE, !.attempts = 0, !.timer = NoTimer]
<1>1. Keeps(state, s)
  BY OldState, Numbers DEF Keeps, StateOK, StateRecords, TimerOK, NoTimer
<1>2. \/ /\ state' = s /\ poll' = [pc |-> "set_peer", lines |-> rest]
         /\ cmds' = Append(cmds, Cmd("poll", "set_peer"))
      \/ Joins(s, rest, cmds)
  BY DEF HandleConnected
<1> HIDE DEF s
<1>3. QueueOK(cmds, conn.goal, state.role)
  BY DEF Inv, SessionInv
<1>4. CASE /\ state' = s /\ poll' = [pc |-> "set_peer", lines |-> rest]
           /\ cmds' = Append(cmds, Cmd("poll", "set_peer"))
  <2>1. QueueOK(cmds', conn.goal, state.role)
    BY <1>3, <1>4, OtherCommand DEF Callers, Ops
  <2>2. PollOK(poll')
    BY <1>4 DEF PollOK, PollRecords
  <2> QED
    BY <1>1, <1>4, <2>1, <2>2, LineStep
<1>5. CASE Joins(s, rest, cmds)
  BY <1>1, <1>3, <1>5, JoinsStep, LineStep
<1> QED
  BY <1>2, <1>4, <1>5

LEMMA HandleLineInv == ASSUME Inv, HandleLine PROVE Inv'
<1> DEFINE event == Head(poll.lines)
           rest == Tail(poll.lines)
           s == [state EXCEPT !.signal_listening = TRUE]
<1>1. poll.pc = "lines" /\ UNCHANGED <<backend, conn, disc, faults, start>>
  BY DEF HandleLine
<1>2. poll.lines # <<>>
  BY <1>1 DEF Inv, RestTypes, PollOK
<1>3. Inv'
  <2>1. poll.lines \in Seq(Events) /\ event \in Events /\ rest \in Seq(Events)
    <3>1. poll.lines \in Seq(Events)
      BY DEF Inv, RestTypes, PollOK, PollRecords
    <3> QED
      BY <1>2, <3>1, HeadTailProperties
  <2>2. \/ HandleConnected(rest)
        \/ Polls(OnDisconnected(state), rest) /\ UNCHANGED cmds
        \/ Polls(OnError(state), rest) /\ UNCHANGED cmds
        \/ Polls(s, rest) /\ UNCHANGED cmds
    BY <2>1 DEF HandleLine, Events
  <2>3. Keeps(state, s) /\ Keeps(state, OnDisconnected(state)) /\ Keeps(state, OnError(state))
    BY OldState, LinkEventsKeep DEF Keeps, StateOK, StateRecords, TimerOK
  <2>4. QueueOK(cmds, conn.goal, state.role)
    BY DEF Inv, SessionInv
  <2> HIDE DEF rest, s
  <2>5. ASSUME NEW t, Keeps(state, t), Polls(t, rest), UNCHANGED cmds PROVE Inv'
    BY <1>1, <2>1, <2>4, <2>5, PollsStep, LineStep
  <2> QED
    BY <1>1, <2>1, <2>2, <2>3, <2>5, HandleConnectedInv
<1> QED
  BY <1>3

LEMMA PeerSetInv == ASSUME Inv, PeerSet PROVE Inv'
<1>1. /\ Answered("poll", "set_peer") /\ Joins(state, poll.lines, Tail(cmds))
      /\ UNCHANGED <<backend, conn, disc, faults, start>>
  BY DEF PeerSet
<1>2. QueueOK(Tail(cmds), conn.goal, state.role) /\ poll.lines \in Seq(Events)
  BY <1>1, OtherAnswered DEF Inv, RestTypes, PollOK, PollRecords
<1>3. Keeps(state, state') /\ PollOK(poll') /\ QueueOK(cmds', conn.goal, state.role)
  BY <1>1, <1>2, OldState, JoinsStep
<1> QED
  BY <1>1, <1>3, LineStep

LEMMA FeedbackSentInv == ASSUME Inv, FeedbackSent PROVE Inv'
<1>1. /\ Answered("poll", "media_send") /\ cmds' = Tail(cmds)
      /\ Polls(state, poll.lines) \/ Polls(state, <<>>)
      /\ UNCHANGED <<backend, conn, disc, faults, start>>
  BY DEF FeedbackSent, NoMore
<1>2. <<>> \in Seq(Events) /\ poll.lines \in Seq(Events)
  BY DEF Inv, RestTypes, PollOK, PollRecords
<1>3. Keeps(state, state') /\ PollOK(poll')
  BY <1>1, <1>2, OldState, PollsStep
<1>4. QueueOK(cmds', conn.goal, state.role)
  BY <1>1, OtherAnswered
<1> QED
  BY <1>1, <1>3, <1>4, LineStep

LEMMA PushTypes ==
  ASSUME NEW b \in BackendRecords, NEW event \in Events PROVE Push(b, event) \in BackendRecords
<1>1. b.inbox \in Seq(Events) /\ Append(b.inbox, event) \in Seq(Events)
  BY AppendProperties DEF BackendRecords
<1> QED
  BY <1>1 DEF Push, BackendRecords

LEMMA SendAnsweredInv == ASSUME Inv, SendAnswered PROVE Inv'
<1> DEFINE s == [state EXCEPT !.signal_connected = FALSE]
<1>1. /\ Answered("send", "signal_send") /\ cmds' = Tail(cmds) /\ UNCHANGED <<conn, disc, poll, faults, start>>
      /\ state' \in {state, s, schedule_signal_reconnect(s)}
      /\ backend' \in {backend, Push(backend, "error")}
  BY DEF SendAnswered, NoMore
<1>2. Keeps(state, s)
  BY OldState DEF Keeps, StateOK, StateRecords, TimerOK
<1> HIDE DEF s
<1>3. Keeps(s, schedule_signal_reconnect(s))
  BY <1>2, ScheduleKeeps DEF Keeps
<1>4. Keeps(state, state')
  BY <1>1, <1>2, <1>3, OldState, KeepsTwice
<1>5. SessionInv'
  BY <1>1, <1>4, OtherAnswered, OtherStep
<1>6. backend' \in BackendRecords
  BY <1>1, PushTypes DEF Inv, RestTypes, Events
<1> QED
  BY <1>1, <1>5, <1>6 DEF Inv, RestTypes

-------------------------------------------------------------------------------
(* The environment, and all steps together                                     *)

LEMMA HappensInv ==
  ASSUME Inv, NEW b \in BackendRecords, Happens(b), Faulty \/ UNCHANGED faults
  PROVE  Inv'
<1>1. backend' \in BackendRecords /\ UNCHANGED <<state, cmds, conn, disc, poll, start>>
  BY DEF Happens
<1>2. SessionInv'
  BY <1>1, OldState, OtherStep DEF Inv, SessionInv
<1>3. faults' \in 0 .. MaxFaults
  BY Numbers DEF Inv, RestTypes, Faulty
<1> QED
  BY <1>1, <1>2, <1>3 DEF Inv, RestTypes

LEMMA EnvironmentInv == ASSUME Inv, Environment PROVE Inv'
<1>1. backend \in BackendRecords
  BY DEF Inv, RestTypes
<1>2. CASE ListenerReady \/ ListenerFails \/ PeerArrives \/ PeerLeaves
  <2>1. PICK link \in {"listen", "lost", "served"}, event \in Events :
           /\ Happens(Push([backend EXCEPT !.signal = link], event))
           /\ Faulty \/ UNCHANGED faults
    BY <1>2 DEF ListenerReady, ListenerFails, PeerArrives, PeerLeaves, Events
  <2>2. [backend EXCEPT !.signal = link] \in BackendRecords
    BY <1>1 DEF BackendRecords, Links
  <2> QED
    BY <2>1, <2>2, PushTypes, HappensInv
<1>3. CASE IpAssigned
  <2>1. [backend EXCEPT !.ip = TRUE] \in BackendRecords
    BY <1>1 DEF BackendRecords
  <2> QED
    BY <1>3, <2>1, HappensInv DEF IpAssigned
<1>4. CASE NodeGoesOffline \/ NodeComesOnline
  <2>1. PICK b \in BOOLEAN, e \in {"on", "off"} :
           /\ Happens([backend EXCEPT !.online = b, !.events = Append(@, e)])
           /\ Faulty \/ UNCHANGED faults
    BY <1>4 DEF NodeGoesOffline, NodeComesOnline
  <2>2. Append(backend.events, e) \in Seq({"on", "off"})
    BY <1>1, AppendProperties DEF BackendRecords
  <2>3. [backend EXCEPT !.online = b, !.events = Append(@, e)] \in BackendRecords
    BY <1>1, <2>2 DEF BackendRecords
  <2> QED
    BY <2>1, <2>3, HappensInv
<1> QED
  BY <1>2, <1>3, <1>4 DEF Environment

LEMMA NextInv == ASSUME Inv, Next PROVE Inv'
<1>1. CASE Clicks
  BY <1>1, ConnectClickedInv, StartClickedInv, DisconnectClickedInv DEF Clicks
<1>2. CASE Timers
  BY <1>2, ReconnectTimerInv, RetryWakesInv, WaitInv DEF Timers
<1>3. CASE Answers
  BY <1>3, SignalClosedInv, ResetDoneInv, ZtStartedInv, IpReadInv, SignalListensInv,
     MediaListensInv, SignalDialedInv, MediaDialedInv, RetryClosedInv, FailClosedInv,
     DiscClosedInv, ZtStoppedInv, InvalClosedInv, PollAnsweredInv, PeerSetInv, FeedbackSentInv,
     SendAnsweredInv, StartGoesOnInv DEF Answers
<1>4. CASE \/ SharePipelineStarted \/ PipelineStopped \/ EventsPolled
           \/ OfflineTimerFires \/ SoftOffline \/ PollTick
  BY <1>4, StartGoesOnInv, PipelineStoppedInv, EventsPolledInv, OfflineInv, PollTickInv
<1> QED
  BY <1>1, <1>2, <1>3, <1>4, HandleLineInv, EnvironmentInv DEF Next

LEMMA StepInv == ASSUME Inv, [Next]_vars PROVE Inv'
<1>1. CASE UNCHANGED vars
  BY <1>1 DEF vars, Inv, SessionInv, RestTypes
<1> QED
  BY <1>1, NextInv

LEMMA InvariantHolds == Spec => []Inv
<1>1. Inv /\ [Next]_vars => Inv'
  BY StepInv
<1> QED
  BY <1>1, InitInv, PTL DEF Spec

-------------------------------------------------------------------------------
(* The theorems                                                                *)

(* The session keeps its types: attempts and retries stay within their limits, *)
(* through every order of clicks, timers, failures and events.                 *)
THEOREM TypeCorrect == Spec => []TypeOK
<1>1. Inv => TypeOK
  BY DEF Inv, SessionInv, StateOK, ConnOK, QueueOK, RestTypes, PollOK, TypeOK,
     StateRecords, BackendRecords, Commands, ConnRecords, PollRecords
<1> QED
  BY <1>1, InvariantHolds, PTL

(* An armed reconnect timer belongs to the current epoch, beside no connect    *)
(* and after no disconnect: schedule_signal_reconnect, connect_channels and    *)
(* disconnect_all agree about it.                                              *)
THEOREM TimerIsCurrent == Spec => []ArmedTimerIsCurrent
<1>1. Inv => ArmedTimerIsCurrent
  BY DEF Inv, SessionInv, StateOK, TimerOK, ArmedTimerIsCurrent
<1> QED
  BY <1>1, InvariantHolds, PTL

(* connect_channels awaits at most one command: two runs of it never overlap.  *)
THEOREM SingleFlight == Spec => []OneConnectAtATime
<1>1. Inv => OneConnectAtATime
  BY DEF Inv, SessionInv, QueueOK, OneConn, OneConnectAtATime
<1> QED
  BY <1>1, InvariantHolds, PTL

===============================================================================

------------------------- MODULE SessionBackend_proofs -------------------------
(* What the session leaves in the backend, for every number of attempts,       *)
(* epochs, faults and unread events: the invariants of Session that relate the *)
(* state object to libzt's sockets.  The commands of the four coroutines reach *)
(* the backend through one queue, in the order of their calls, so none of them *)
(* follows from the fields alone: a close ends what was opened before it and   *)
(* spares what is opened behind it.  BackendInv therefore says which command   *)
(* stands ahead of which.                                                      *)
EXTENDS Session_proofs

-------------------------------------------------------------------------------
(* The order of commands in the queue                                          *)

(* The commands of caller `by' with an operation in ops.                       *)
Calls(by, ops) == [by : {by}, op : ops]

(* q has a command of X; at most one; every one of X ahead of every one of Y;  *)
(* behind each of X one of Y; ahead of each of X one of Y.                     *)
Holds(q, X) == \E i \in 1 .. Len(q) : q[i] \in X
Single(q, X) == \A i, j \in 1 .. Len(q) : q[i] \in X /\ q[j] \in X => i = j
AllAhead(q, X, Y) == \A i, j \in 1 .. Len(q) : q[i] \in X /\ q[j] \in Y => i < j
Followed(q, X, Y) ==
  \A i \in 1 .. Len(q) : q[i] \in X => \E j \in 1 .. Len(q) : i < j /\ q[j] \in Y
Preceded(q, X, Y) ==
  \A i \in 1 .. Len(q) : q[i] \in X => \E j \in 1 .. Len(q) : j < i /\ q[j] \in Y

Nothing == Cmd("none", "none")

(* r is q after the answer of h has been taken and c has been called, either   *)
(* of which may be Nothing.                                                    *)
Moved(q, r, h, c) ==
  /\ h # Nothing => q # <<>> /\ Head(q) = h
  /\ LET rest == IF h = Nothing THEN q ELSE Tail(q)
     IN r = IF c = Nothing THEN rest ELSE Append(rest, c)

(* Where r holds what q held.                                                  *)
Shifted(q, r, h, c) ==
  \E d \in {0, 1}, n \in Nat, m \in Nat :
    /\ Len(q) = n + d /\ Len(r) = m
    /\ d = 1 <=> h # Nothing
    /\ h # Nothing => q[1] = h
    /\ m = n \/ m = n + 1
    /\ m = n + 1 <=> c # Nothing
    /\ c # Nothing => r[m] = c
    /\ \A i \in 1 .. n : r[i] = q[i + d]

LEMMA Positions ==
  ASSUME NEW q \in Seq(Commands), NEW r, NEW h, NEW c, Moved(q, r, h, c),
         c \in Commands \/ c = Nothing
  PROVE  Shifted(q, r, h, c)
<1> DEFINE rest == IF h = Nothing THEN q ELSE Tail(q)
           d == IF h = Nothing THEN 0 ELSE 1
           n == Len(q) - d
<1>1. rest \in Seq(Commands) /\ n \in Nat /\ Len(rest) = n /\ \A i \in 1 .. n : rest[i] = q[i + d]
  <2>1. CASE h = Nothing
    BY <2>1
  <2>2. CASE h # Nothing
    <3>1. q # <<>>
      BY <2>2 DEF Moved
    <3> QED
      BY <2>2, <3>1, HeadTailProperties
  <2> QED
    BY <2>1, <2>2
<1>2. h # Nothing => q[1] = h
  BY HeadTailProperties DEF Moved
<1>6. d \in {0, 1} /\ Len(q) = n + d /\ (d = 1 <=> h # Nothing)
  BY <1>1
<1>3. r = IF c = Nothing THEN rest ELSE Append(rest, c)
  BY DEF Moved
<1> HIDE DEF rest, d, n
<1>4. CASE c = Nothing
  <2>1. r = rest
    BY <1>3, <1>4
  <2>2. /\ Len(r) = n /\ n \in Nat /\ n # n + 1
        /\ \A i \in 1 .. n : r[i] = q[i + d]
    BY <1>1, <2>1
  <2> QED
    BY <1>2, <1>4, <1>6, <2>2 DEF Shifted
<1>5. CASE c # Nothing
  <2>1. /\ Len(r) = n + 1 /\ r[n + 1] = c
        /\ \A i \in 1 .. n : r[i] = rest[i]
    BY <1>1, <1>3, <1>5, AppendProperties
  <2>2. n + 1 \in Nat
    BY <1>1
  <2> QED
    BY <1>1, <1>2, <1>5, <1>6, <2>1, <2>2, ZenonT(40) DEF Shifted
<1> QED
  BY <1>4, <1>5

(* What becomes of the order when h is taken and c is called.                  *)
MoveFacts(q, r, h, c) ==
  /\ \A X : Nothing \notin X =>
       /\ Holds(r, X) => Holds(q, X) \/ c \in X
       /\ Holds(q, X) /\ h \notin X => Holds(r, X)
       /\ c \in X => Holds(r, X)
       /\ h \in X => Holds(q, X)
       /\ Single(q, X) /\ (c \in X => h \in X \/ ~Holds(q, X)) => Single(r, X)
       /\ Single(q, X) /\ h \in X /\ c \notin X => ~Holds(r, X)
       /\ Single(q, X) /\ h \in X =>
            \A Y : Y \subseteq X /\ c \notin Y => ~Holds(r, Y)
  /\ \A X, Y : Nothing \notin X /\ Nothing \notin Y =>
       /\ AllAhead(q, X, Y) /\ (c \in X => c \notin Y /\ ~Holds(r, Y)) => AllAhead(r, X, Y)
       /\ AllAhead(q, X, Y) /\ h \in Y => ~Holds(q, X)
       /\ Followed(q, X, Y) /\ c \notin X => Followed(r, X, Y)
       /\ c \in Y /\ c \notin X => Followed(r, X, Y)
       /\ Followed(q, X, Y) /\ h \in X => Holds(r, Y)
       /\ Preceded(q, X, Y) /\ h \notin Y /\ (c \in X => Holds(q, Y)) => Preceded(r, X, Y)
       /\ Preceded(q, X, Y) => h \notin X
       /\ Single(q, X) /\ h \in X /\ h \notin Y /\ Holds(q, Y) => Preceded(r, X, Y)
       /\ ~Holds(r, X) => /\ Followed(r, X, Y) /\ Preceded(r, X, Y)
                          /\ AllAhead(r, X, Y) /\ AllAhead(r, Y, X)

LEMMA MovedFacts ==
  ASSUME NEW q \in Seq(Commands), NEW r, NEW h, NEW c, Moved(q, r, h, c),
         c \in Commands \/ c = Nothing
  PROVE  MoveFacts(q, r, h, c)
<1>1. PICK d \in {0, 1}, n \in Nat, m \in Nat :
           /\ Len(q) = n + d /\ Len(r) = m
           /\ d = 1 <=> h # Nothing
           /\ h # Nothing => q[1] = h
           /\ m = n \/ m = n + 1
           /\ m = n + 1 <=> c # Nothing
           /\ c # Nothing => r[m] = c
           /\ \A i \in 1 .. n : r[i] = q[i + d]
  <2>1. Shifted(q, r, h, c)
    BY Positions
  <2> QED
    BY <2>1 DEF Shifted
(* Positions of q and r.                                                       *)
<1>2. /\ \A i \in 1 .. m : (i \in 1 .. n /\ r[i] = q[i + d] /\ i + d \in 1 .. n + d) \/ (i = m /\ m = n + 1 /\ r[i] = c /\ c # Nothing)
      /\ \A i \in 1 .. n + d : (i - d \in 1 .. n /\ i - d \in 1 .. m /\ r[i - d] = q[i]) \/ (i = 1 /\ d = 1 /\ h # Nothing /\ q[i] = h)
      /\ \A i \in 1 .. n : i \in 1 .. m
  BY <1>1
<1>3. ASSUME NEW X, Nothing \notin X
      PROVE  /\ Holds(r, X) => Holds(q, X) \/ c \in X
             /\ Holds(q, X) /\ h \notin X => Holds(r, X)
             /\ c \in X => Holds(r, X)
             /\ h \in X => Holds(q, X)
  BY <1>1, <1>2, <1>3 DEF Holds
<1>4. ASSUME NEW X, Nothing \notin X
      PROVE  /\ Single(q, X) /\ (c \in X => h \in X \/ ~Holds(q, X)) => Single(r, X)
             /\ Single(q, X) /\ h \in X /\ c \notin X => ~Holds(r, X)
  BY <1>1, <1>2, <1>4 DEF Holds, Single
<1>5. ASSUME NEW X, NEW Y, Nothing \notin X, Nothing \notin Y
      PROVE  /\ AllAhead(q, X, Y) /\ (c \in X => c \notin Y /\ ~Holds(r, Y)) => AllAhead(r, X, Y)
             /\ AllAhead(q, X, Y) /\ h \in Y => ~Holds(q, X)
  BY <1>1, <1>2, <1>5 DEF Holds, AllAhead
<1>6. ASSUME NEW X, NEW Y, Nothing \notin X, Nothing \notin Y
      PROVE  /\ Followed(q, X, Y) /\ c \notin X => Followed(r, X, Y)
             /\ c \in Y /\ c \notin X => Followed(r, X, Y)
             /\ Followed(q, X, Y) /\ h \in X => Holds(r, Y)
  BY <1>1, <1>2, <1>6 DEF Holds, Followed
<1>7. ASSUME NEW X, NEW Y, Nothing \notin X, Nothing \notin Y
      PROVE  /\ Preceded(q, X, Y) /\ h \notin Y /\ (c \in X => Holds(q, Y)) => Preceded(r, X, Y)
             /\ Preceded(q, X, Y) => h \notin X
             /\ Single(q, X) /\ h \in X /\ h \notin Y /\ Holds(q, Y) => Preceded(r, X, Y)
  BY <1>1, <1>2, <1>7 DEF Holds, Single, Preceded
<1>9. ASSUME NEW X, NEW Y, Nothing \notin X, Single(q, X), h \in X, Y \subseteq X, c \notin Y
      PROVE  ~Holds(r, Y)
  <2> SUFFICES ASSUME NEW i \in 1 .. m, r[i] \in Y PROVE FALSE
    BY <1>1 DEF Holds
  <2>1. d = 1 /\ 1 \in 1 .. Len(q) /\ q[1] \in X
    BY <1>1, <1>9
  <2>2. i \in 1 .. n /\ q[i + 1] \in X /\ i + 1 \in 1 .. Len(q) /\ i + 1 # 1
    BY <1>1, <1>2, <1>9, <2>1
  <2> QED
    BY <1>9, <2>1, <2>2 DEF Single
<1>8. ASSUME NEW X, NEW Y, ~Holds(r, X)
      PROVE  /\ Followed(r, X, Y) /\ Preceded(r, X, Y)
             /\ AllAhead(r, X, Y) /\ AllAhead(r, Y, X)
  BY <1>8 DEF Holds, Followed, Preceded, AllAhead
<1> QED
  BY <1>3, <1>4, <1>5, <1>6, <1>7, <1>8, <1>9 DEF MoveFacts

(* The commands that close the signal transport, and those whose answer, or    *)
(* the send that follows it, sets signal_connected to false if the link has    *)
(* gone.                                                                       *)
Closers == [by : Callers, op : {"signal_close", "zt_stop"}]
Vouchers == Calls("send", Ops) \cup Calls("poll", {"set_peer"})

LEMMA CallsMember ==
  /\ \A b, o, by, ops : Cmd(b, o) \in Calls(by, ops) <=> b = by /\ o \in ops
  /\ \A b, o : Cmd(b, o) \in Closers <=> b \in Callers /\ o \in {"signal_close", "zt_stop"}
  /\ \A b, o : Cmd(b, o) \in Vouchers <=> (b = "send" /\ o \in Ops) \/ (b = "poll" /\ o = "set_peer")
  BY DEF Cmd, Calls, Closers, Vouchers

LEMMA NothingIsNoCall ==
  /\ \A by \in Callers : \A ops : Nothing \notin Calls(by, ops)
  /\ Nothing \notin Closers /\ Nothing \notin Vouchers
  /\ \A by \in Callers : \A op : Cmd(by, op) # Nothing
  /\ \A by \in Callers : \A op \in Ops : Cmd(by, op) \in Commands
<1>1. "none" \notin Callers
  BY DEF Callers
<1>2. \A b, o : Cmd(b, o).by = b
  BY DEF Cmd
<1>3. Nothing.by = "none"
  BY <1>2 DEF Nothing
<1>4. \A by \in Callers : \A op \in Ops : Cmd(by, op) \in Commands
  BY DEF Cmd, Commands
<1>5. /\ \A by \in Callers : \A ops : Nothing \notin Calls(by, ops)
      /\ Nothing \notin Closers /\ Nothing \notin Vouchers
  BY <1>1, CallsMember DEF Nothing
<1> QED
  BY <1>1, <1>2, <1>3, <1>4, <1>5

LEMMA Pushes ==
  ASSUME NEW by \in Callers, NEW op \in Ops, cmds' = Append(cmds, Cmd(by, op))
  PROVE  Moved(cmds, cmds', Nothing, Cmd(by, op))
  BY NothingIsNoCall DEF Moved

LEMMA Pops ==
  ASSUME NEW by \in Callers, NEW op \in Ops, Answered(by, op), cmds' = Tail(cmds)
  PROVE  Moved(cmds, cmds', Cmd(by, op), Nothing)
  BY NothingIsNoCall DEF Moved, Answered

LEMMA PopsPushes ==
  ASSUME NEW b \in Callers, NEW o \in Ops, Answered(b, o),
         NEW by \in Callers, NEW op \in Ops, cmds' = Append(Tail(cmds), Cmd(by, op))
  PROVE  Moved(cmds, cmds', Cmd(b, o), Cmd(by, op))
  BY NothingIsNoCall DEF Moved, Answered

(* What send_signal puts on the queue.                                         *)
Sent(s) == IF s.signal_connected THEN Cmd("send", "signal_send") ELSE Nothing

LEMMA SendsIs ==
  ASSUME NEW q \in Seq(Commands), NEW s
  PROVE  /\ q \o Sends(s) = IF s.signal_connected THEN Append(q, Cmd("send", "signal_send")) ELSE q
         /\ Sent(s) \in Commands \/ Sent(s) = Nothing
<1> DEFINE c == Cmd("send", "signal_send")
<1>1. c \in Commands
  BY DEF Cmd, Commands, Callers, Ops
<1>2. q \o <<>> = q /\ q \o <<c>> = Append(q, c)
  BY <1>1, ConcatEmptySeq, AppendIsConcat
<1> QED
  BY <1>1, <1>2 DEF Sends, Sent

LEMMA CmdsType == Inv => cmds \in Seq(Commands)
  BY DEF Inv, SessionInv, QueueOK

LEMMA SendPushes ==
  ASSUME Inv, NEW s, cmds' = cmds \o Sends(s)
  PROVE  Moved(cmds, cmds', Nothing, Sent(s)) /\ (Sent(s) \in Commands \/ Sent(s) = Nothing)
<1>1. "send" \in Callers /\ "signal_send" \in Ops
  BY DEF Callers, Ops
<1> QED
  BY <1>1, CmdsType, SendsIs, NothingIsNoCall DEF Moved, Sent

LEMMA PopSendPushes ==
  ASSUME Inv, NEW s, NEW by \in Callers, NEW op \in Ops, Answered(by, op),
         cmds' = Tail(cmds) \o Sends(s)
  PROVE  Moved(cmds, cmds', Cmd(by, op), Sent(s)) /\ (Sent(s) \in Commands \/ Sent(s) = Nothing)
<1>1. "send" \in Callers /\ "signal_send" \in Ops
  BY DEF Callers, Ops
<1>2. Tail(cmds) \in Seq(Commands)
  BY CmdsType, HeadTailProperties DEF Answered
<1> QED
  BY <1>1, <1>2, SendsIs, NothingIsNoCall DEF Moved, Sent, Answered

LEMMA Stays == ASSUME cmds' = cmds PROVE Moved(cmds, cmds', Nothing, Nothing)
  BY DEF Moved

(* Fewer operations, and the calls of connect_channels.                        *)
LEMMA HoldsMore ==
  \A q, by, ops, all : ops \subseteq all /\ Holds(q, Calls(by, ops)) => Holds(q, Calls(by, all))
  BY DEF Holds, Calls

LEMMA ConnCalls ==
  ASSUME NEW q, NEW goal, NEW role, QueueOK(q, goal, role)
  PROVE  /\ Single(q, Calls("conn", Ops))
         /\ goal \in {"none", "sleep"} => ~Holds(q, Calls("conn", Ops))
         /\ Holds(q, Calls("conn", {"zt_start", "get_ip"})) => goal \in {"prepare", "wait"}
<1>1. \A c, ops : c \in Calls("conn", ops) => c.by = "conn" /\ c.op \in ops
  BY DEF Calls
<1> QED
  BY <1>1 DEF QueueOK, OneConn, Fits, Single, Holds

-------------------------------------------------------------------------------
(* The inductive invariant                                                     *)

OpensSignal == {"signal_listen", "signal_connect"}
OpensMedia == {"media_listen", "media_connect"}
(* connect_channels runs and is past its reset.                                *)
Past == conn.goal \notin {"none", "reset"}
(* invalidate_transports_after_soft_offline is between its two awaits.         *)
Invalidating ==
  Holds(cmds, Calls("inval", {"signal_close"})) \/ Holds(cmds, Calls("inval", {"media_close"}))

(* What the fields of the page say of connect_channels and of its calls.       *)
ConnView ==
  /\ conn.goal = "none" <=> ~state.connecting
  /\ conn.goal # "none" => /\ ~state.signal_pump
                           /\ conn.epoch # state.epoch => state.manual_disconnect
  /\ Holds(cmds, Calls("conn", OpensSignal)) \/ Holds(cmds, Calls("conn", OpensMedia))
       => conn.goal = "open"

(* disconnect_all has one call at a time.                                      *)
DiscView ==
  /\ Single(cmds, Calls("disc", Ops))
  /\ Holds(cmds, Calls("disc", Ops)) => disc = "closing"

(* The signal pump has one call at a time, and poll knows which.               *)
PollView ==
  /\ Single(cmds, Calls("poll", Ops))
  /\ Holds(cmds, Calls("poll", {"signal_poll"})) <=> poll.pc = "called"
  /\ Holds(cmds, Calls("poll", {"set_peer"})) <=> poll.pc = "set_peer"
  /\ Holds(cmds, Calls("poll", {"media_send"})) <=> poll.pc = "feedback"
  /\ Holds(cmds, Calls("poll", Ops)) => poll.pc \in {"called", "set_peer", "feedback"}
  /\ poll.pc \in {"idle", "called"} => poll.lines = <<>>

(* No transport outlives libzt, and libzt is down after a disconnect.          *)
ZtView ==
  /\ state.zt_started = backend.zt
  /\ ~backend.zt => backend.signal = "none" /\ ~backend.media
  /\ backend.signal = "none" => backend.inbox = <<>>
  /\ state.manual_disconnect /\ disc = "idle" => ~backend.zt

(* connect_channels opens each transport over a closed one.                    *)
ConnCloses ==
  /\ \/ conn.goal \in {"prepare", "wait", "sleep"}
     \/ Holds(cmds, Calls("conn", OpensSignal))
     \/ Holds(cmds, Calls("conn", {"media_close"}))
     => backend.signal = "none"
  /\ Past => ~backend.media
  /\ Past \/ Holds(cmds, Calls("conn", {"media_close"})) => ~state.media_open
  /\ conn.goal \in {"open", "retry", "sleep"} => ~state.invalidated

(* The closes of the offline watch come ahead of those of connect_channels, so *)
(* they never reach a transport that it has opened.                            *)
InvalView ==
  /\ Holds(cmds, Calls("inval", {"media_close"})) => ~state.media_open /\ backend.signal = "none"
  /\ Past => ~Invalidating
  /\ AllAhead(cmds, Calls("inval", {"signal_close"}), Calls("conn", {"signal_close"}))
  /\ AllAhead(cmds, Calls("inval", {"media_close"}), Calls("conn", {"media_close"}))
  /\ Holds(cmds, Calls("conn", {"media_close"})) => ~Holds(cmds, Calls("inval", {"signal_close"}))

(* A disconnect's closes come behind what a superseded attempt still opens.    *)
DiscOrder ==
  /\ state.manual_disconnect /\ disc # "stopping" =>
       /\ Followed(cmds, Calls("conn", {"zt_start"}), Calls("disc", {"signal_close"}))
       /\ Followed(cmds, Calls("conn", OpensSignal), Calls("disc", {"signal_close"}))
       /\ \/ Holds(cmds, Calls("disc", {"signal_close"}))
          \/ Followed(cmds, Calls("conn", OpensMedia), Calls("disc", {"media_close"}))
  /\ backend.signal # "none" =>
       Followed(cmds, Calls("disc", {"media_close"}), Calls("conn", OpensMedia))

(* The answers of the pump are in before connect_channels passes its reset, so *)
(* a late one is never taken for an event of the new signal transport.         *)
PollOrder ==
  /\ Past => poll.pc = "idle"
  /\ AllAhead(cmds, Calls("poll", Ops), Calls("conn", {"media_close"}))

(* The link is up, or the event of its loss has yet to be handled.  The lines  *)
(* behind a probe do not count: they are lost when it cannot be sent.          *)
LossUnread ==
  \/ Linked(backend)
  \/ \E i \in 1 .. Len(backend.inbox) : backend.inbox[i] = "disconnected"
  \/ /\ poll.pc # "feedback"
     /\ \E i \in 1 .. Len(poll.lines) : poll.lines[i] = "disconnected"

(* A shown link is real, its loss is yet to be read, or an answer on its way   *)
(* will take it down; a close on its way is followed by such an answer.        *)
LinkOrder ==
  state.signal_connected =>
    /\ conn.goal \in {"none", "reset", "prepare"}
    /\ conn.goal = "prepare" => Preceded(cmds, Calls("conn", Ops), Calls("send", Ops))
    /\ backend.signal = "none" \/ Followed(cmds, Closers, Vouchers)
    /\ Holds(cmds, Vouchers) \/ LossUnread

(* OpenIsServed and InvalidatedIsClosed, of every state in which the coroutine *)
(* that could be half-way is not.                                              *)
Served ==
  state.media_open /\ conn.goal = "none" /\ disc = "idle" /\ ~Invalidating
  => state.signal_pump /\ state.media_pump /\ backend.media

Closed ==
  state.invalidated /\ conn.goal = "none" /\ disc = "idle" /\ ~Invalidating
  => ~state.media_open /\ ~backend.media /\ backend.signal = "none"

BackendInv ==
  /\ ConnView /\ DiscView /\ PollView /\ ZtView
  /\ ConnCloses /\ InvalView /\ DiscOrder /\ PollOrder /\ LinkOrder
  /\ Served /\ Closed

(* What a step of a bystander leaves of the state object.                      *)
Alike(s, t) ==
  /\ t.manual_disconnect = s.manual_disconnect /\ t.epoch = s.epoch
  /\ t.zt_started = s.zt_started /\ t.invalidated = s.invalidated
  /\ t.media_open = s.media_open /\ t.media_pump = s.media_pump

LEMMA QueueFacts ==
  ASSUME Inv, NEW h, NEW c, Moved(cmds, cmds', h, c), c \in Commands \/ c = Nothing
  PROVE  MoveFacts(cmds, cmds', h, c)
  BY CmdsType, MovedFacts

LEMMA SignalDownFields ==
  ASSUME NEW s \in StateRecords
  PROVE  /\ Alike(s, SignalDown(s)) /\ SignalDown(s).connecting = s.connecting
         /\ ~SignalDown(s).signal_pump /\ ~SignalDown(s).signal_connected
  BY DEF SignalDown, StateRecords, Alike

LEMMA HoldsVouchers ==
  \A q : Holds(q, Vouchers) <=> Holds(q, Calls("send", Ops)) \/ Holds(q, Calls("poll", {"set_peer"}))
  BY DEF Holds, Vouchers

LEMMA CallsMore ==
  \A by, ops, all : ops \subseteq all => Calls(by, ops) \subseteq Calls(by, all)
  BY DEF Calls

(* ... and what it also leaves when it is not about the link.                  *)
Same(s, t) ==
  /\ Alike(s, t) /\ t.connecting = s.connecting
  /\ t.signal_pump = s.signal_pump /\ t.signal_connected = s.signal_connected

LEMMA ScheduleSame == ASSUME NEW s \in StateRecords PROVE Same(s, schedule_signal_reconnect(s))
  BY DEF schedule_signal_reconnect, StateRecords, Same, Alike

LEMMA FinishedFields ==
  ASSUME NEW s \in StateRecords, NEW retry
  PROVE  /\ Alike(s, Finished(s, retry)) /\ ~Finished(s, retry).connecting
         /\ Finished(s, retry).signal_pump = s.signal_pump
         /\ Finished(s, retry).signal_connected = s.signal_connected
<1> DEFINE t == [s EXCEPT !.resetting = FALSE, !.connecting = FALSE]
<1>1. /\ t \in StateRecords /\ Alike(s, t) /\ ~t.connecting
      /\ t.signal_pump = s.signal_pump /\ t.signal_connected = s.signal_connected
  BY DEF StateRecords, Alike
<1>2. Finished(s, retry) = t \/ Finished(s, retry) = schedule_signal_reconnect(t)
  BY DEF Finished
<1> HIDE DEF t
<1> QED
  BY <1>1, <1>2, ScheduleSame DEF Same, Alike

LEMMA OnlineSame == ASSUME NEW s, StateOK(s) PROVE Same(s, handle_libzt_online(s))
<1> DEFINE t == [s EXCEPT !.node_online = TRUE, !.offline_timer = FALSE]
           u == [t EXCEPT !.need_restore = FALSE]
<1>1. t \in StateRecords /\ Same(s, t)
  BY DEF StateOK, StateRecords, Same, Alike
<1>2. handle_libzt_online(s) \in {t, schedule_signal_reconnect(u)}
  BY DEF handle_libzt_online
<1> HIDE DEF t
<1>3. u \in StateRecords /\ Same(t, u)
  BY <1>1 DEF StateRecords, Same, Alike
<1> HIDE DEF u
<1> QED
  BY <1>1, <1>2, <1>3, ScheduleSame DEF Same, Alike

LEMMA EventsSame == ASSUME NEW s, StateOK(s), NEW events PROVE Same(s, HandleZtEvents(s, events))
<1> DEFINE t == IF \E i \in DOMAIN events : events[i] = "on" THEN handle_libzt_online(s) ELSE s
           u == [t EXCEPT !.node_online = FALSE, !.offline_timer = TRUE]
<1>1. t \in StateRecords /\ Same(s, t)
  BY OnlineSame, OnlineKeeps DEF Same, Alike, Keeps, StateOK
<1>2. HandleZtEvents(s, events) \in {t, u}
  BY DEF HandleZtEvents
<1> HIDE DEF t
<1>3. Same(t, u)
  BY <1>1 DEF StateRecords, Same, Alike
<1> QED
  BY <1>1, <1>2, <1>3 DEF Same, Alike

LEMMA LinkEventFields ==
  ASSUME NEW s \in StateRecords
  PROVE  /\ Same(s, OnError(s))
         /\ Alike(s, OnDisconnected(s)) /\ OnDisconnected(s).connecting = s.connecting
         /\ OnDisconnected(s).signal_pump = s.signal_pump
         /\ ~OnDisconnected(s).signal_connected
<1> DEFINE t == [s EXCEPT !.signal_connected = FALSE]
<1>1. /\ t \in StateRecords /\ Alike(s, t) /\ t.connecting = s.connecting
      /\ t.signal_pump = s.signal_pump /\ ~t.signal_connected
  BY DEF StateRecords, Alike
<1>2. OnDisconnected(s) \in {t, schedule_signal_reconnect(t)}
  BY DEF OnDisconnected
<1>3. OnError(s) \in {s, schedule_signal_reconnect(s)}
  BY DEF OnError
<1>4. Same(s, s)
  BY DEF Same, Alike
<1> HIDE DEF t
<1> QED
  BY <1>1, <1>2, <1>3, <1>4, ScheduleSame DEF Same, Alike

LEMMA StateTyped == Inv => state \in StateRecords /\ StateOK(state) /\ conn \in ConnRecords
  BY DEF Inv, SessionInv, StateOK, ConnOK

(* A step that only loses a shown link, if anything.                           *)
LEMMA Bystander ==
  ASSUME BackendInv, Alike(state, state'), state'.connecting = state.connecting,
         state'.signal_pump = state.signal_pump,
         state'.signal_connected => state.signal_connected,
         UNCHANGED <<backend.zt, backend.media, backend.signal, backend.inbox>>,
         UNCHANGED <<cmds, conn, disc, poll>>
  PROVE  BackendInv'
<1>1. ConnView' /\ DiscView' /\ PollView' /\ ZtView' /\ ConnCloses' /\ InvalView'
  BY DEF BackendInv, Alike, ConnView, DiscView, PollView, ZtView, ConnCloses, InvalView, Past,
     Invalidating
<1>2. DiscOrder' /\ PollOrder' /\ LinkOrder' /\ Served' /\ Closed'
  BY DEF BackendInv, Alike, DiscOrder, PollOrder, LinkOrder, LossUnread, Linked, Served, Closed, Past,
     Invalidating
<1> QED
  BY <1>1, <1>2 DEF BackendInv

-------------------------------------------------------------------------------
(* connect_channels                                                            *)

(* A step of connect_channels takes its only call off the queue, or none was   *)
(* there, and puts c on it.                                                    *)
ConnMoves(h, c) ==
  /\ Moved(cmds, cmds', h, c)
  /\ \/ \E o \in Ops : h = Cmd("conn", o)
     \/ h = Nothing /\ ~Holds(cmds, Calls("conn", Ops))
  /\ c = Nothing \/ \E o \in Ops : c = Cmd("conn", o) \/ c = Cmd("send", o)

ConnFacts(h, c) ==
  /\ MoveFacts(cmds, cmds', h, c)
  /\ \A ops \in SUBSET Ops : Holds(cmds', Calls("conn", ops)) => c \in Calls("conn", ops)
  /\ \A by \in {"disc", "inval", "poll"} : \A ops :
       /\ h \notin Calls(by, ops) /\ c \notin Calls(by, ops)
       /\ Nothing \notin Calls(by, ops)
       /\ Holds(cmds', Calls(by, ops)) <=> Holds(cmds, Calls(by, ops))
  /\ \A ops : Nothing \notin Calls("conn", ops) /\ Nothing \notin Calls("send", ops)
  /\ Nothing \notin Closers /\ Nothing \notin Vouchers

LEMMA ConnMovesFacts ==
  ASSUME Inv, NEW h, NEW c, ConnMoves(h, c)
  PROVE  ConnFacts(h, c)
<1>1. c \in Commands \/ c = Nothing
  BY NothingIsNoCall DEF ConnMoves, Callers
<1>2. MoveFacts(cmds, cmds', h, c)
  BY <1>1, QueueFacts DEF ConnMoves
<1>3. Single(cmds, Calls("conn", Ops))
  BY ConnCalls DEF Inv, SessionInv
<1>4. \A ops : Nothing \notin Calls("conn", ops) /\ Nothing \notin Calls("send", ops)
  BY NothingIsNoCall DEF Callers
<1>5. ASSUME NEW ops \in SUBSET Ops, Holds(cmds', Calls("conn", ops))
      PROVE  c \in Calls("conn", ops)
  <2>1. CASE \E o \in Ops : h = Cmd("conn", o)
    <3>1. h \in Calls("conn", Ops) /\ Calls("conn", ops) \subseteq Calls("conn", Ops)
      BY <2>1, CallsMember, CallsMore
    <3> QED
      BY <1>2, <1>3, <1>4, <1>5, <3>1 DEF MoveFacts
  <2>2. CASE ~Holds(cmds, Calls("conn", Ops))
    BY <1>2, <1>4, <1>5, <2>2, HoldsMore DEF MoveFacts
  <2> QED
    BY <2>1, <2>2 DEF ConnMoves
<1>6. ASSUME NEW by \in {"disc", "inval", "poll"}, NEW ops
      PROVE  /\ h \notin Calls(by, ops) /\ c \notin Calls(by, ops)
             /\ Nothing \notin Calls(by, ops)
             /\ Holds(cmds', Calls(by, ops)) <=> Holds(cmds, Calls(by, ops))
  <2>1. Nothing \notin Calls(by, ops)
    BY NothingIsNoCall DEF Callers
  <2>2. h \notin Calls(by, ops) /\ c \notin Calls(by, ops)
    BY <2>1, CallsMember DEF ConnMoves
  <2> QED
    BY <1>2, <2>1, <2>2 DEF MoveFacts
<1> QED
  BY <1>2, <1>4, <1>5, <1>6, NothingIsNoCall DEF ConnFacts

LEMMA ConnClosesStep ==
  ASSUME Inv, BackendInv, NEW h, ConnMoves(h, Cmd("conn", "signal_close")),
         NEW s \in StateRecords, state' = SignalDown(s), s.connecting,
         s.manual_disconnect = state.manual_disconnect, s.epoch = state.epoch,
         s.zt_started = state.zt_started, ~s.media_open,
         conn'.goal \in {"fail", "refuse", "retry"}, conn'.epoch = conn.epoch, conn.goal # "none",
         conn'.goal = "retry" => ~s.invalidated,
         backend'.zt = backend.zt, ~backend'.media,
         \/ UNCHANGED <<backend.signal, backend.inbox>>
         \/ backend'.signal = "none" /\ backend'.inbox = <<>>,
         ~Invalidating, poll.pc = "idle", UNCHANGED <<disc, poll>>
  PROVE  BackendInv'
<1> DEFINE c == Cmd("conn", "signal_close")
<1>1. ConnFacts(h, c)
  BY ConnMovesFacts
<1>2. /\ state'.connecting /\ ~state'.signal_pump /\ ~state'.signal_connected
      /\ Alike(s, state')
  BY SignalDownFields DEF Alike
<1>3. c \notin Calls("conn", OpensSignal) /\ c \notin Calls("conn", OpensMedia)
      /\ c \notin Calls("conn", {"media_close"}) /\ c \notin Calls("conn", {"zt_start"})
  BY CallsMember DEF OpensSignal, OpensMedia
<1> HIDE DEF c
<1>4. /\ ~Holds(cmds', Calls("conn", OpensSignal)) /\ ~Holds(cmds', Calls("conn", OpensMedia))
      /\ ~Holds(cmds', Calls("conn", {"media_close"})) /\ ~Holds(cmds', Calls("conn", {"zt_start"}))
  BY <1>1, <1>3 DEF ConnFacts, Ops, OpensSignal, OpensMedia
<1>5. ConnView' /\ DiscView' /\ PollView'
  BY <1>1, <1>2, <1>4 DEF BackendInv, ConnView, DiscView, PollView, ConnFacts, MoveFacts, Alike
<1>6. ZtView' /\ ConnCloses'
  BY <1>2, <1>4 DEF BackendInv, ZtView, ConnCloses, Alike
<1>7. InvalView' /\ ~Invalidating'
  BY <1>1, <1>2, <1>4 DEF InvalView, Invalidating, ConnFacts, MoveFacts, Alike
<1>8. DiscOrder'
  BY <1>1, <1>2, <1>4 DEF BackendInv, DiscOrder, ConnFacts, MoveFacts, Alike
<1>9. PollOrder' /\ LinkOrder' /\ Served' /\ Closed'
  BY <1>1, <1>2, <1>4 DEF PollOrder, LinkOrder, Served, Closed, ConnFacts, MoveFacts
<1> QED
  BY <1>5, <1>6, <1>7, <1>8, <1>9 DEF BackendInv

(* connect_channels begins: nothing of it was there before.                    *)
LEMMA BeginsStep ==
  ASSUME Inv, BackendInv, NEW s \in StateRecords, NEW again, Begin(s, again), ~state.connecting,
         s.zt_started = state.zt_started, s.invalidated = state.invalidated,
         s.media_open = state.media_open,
         s.manual_disconnect => state.manual_disconnect, UNCHANGED <<backend, disc, poll>>
  PROVE  BackendInv'
<1> DEFINE c == Cmd("conn", "signal_close")
<1>0. PICK role \in Roles :
        /\ conn' = [goal |-> "reset", epoch |-> s.epoch, again |-> again, tries |-> 0]
        /\ Closes("conn", [s EXCEPT !.connecting = TRUE, !.resetting = TRUE, !.timer = NoTimer,
                                    !.role = role], cmds)
  BY DEF Begin
<1> DEFINE t == [s EXCEPT !.connecting = TRUE, !.resetting = TRUE, !.timer = NoTimer,
                          !.role = role]
<1>1. conn.goal = "none" /\ ~Holds(cmds, Calls("conn", Ops))
  BY ConnCalls DEF BackendInv, ConnView, Inv, SessionInv
<1>2. state' = SignalDown(t) /\ cmds' = Append(cmds, c)
      /\ conn' = [goal |-> "reset", epoch |-> s.epoch, again |-> again, tries |-> 0]
  BY <1>0 DEF Closes
<1>3. t \in StateRecords /\ t.connecting /\ Alike(s, t)
  BY Numbers, RolesAssumption DEF StateRecords, NoTimer, Alike
<1>4. /\ state'.connecting /\ ~state'.signal_pump /\ ~state'.signal_connected
      /\ Alike(s, state')
  BY <1>2, <1>3, SignalDownFields DEF Alike
<1>5. Moved(cmds, cmds', Nothing, c)
  BY <1>2, Pushes DEF Callers, Ops
<1>6. ConnFacts(Nothing, c)
  <2>1. ConnMoves(Nothing, c)
    BY <1>1, <1>5 DEF ConnMoves, Ops
  <2> QED
    BY <2>1, ConnMovesFacts
<1>7. c \notin Calls("conn", OpensSignal) /\ c \notin Calls("conn", OpensMedia)
      /\ c \notin Calls("conn", {"media_close"}) /\ c \notin Calls("conn", {"zt_start"})
  BY CallsMember DEF OpensSignal, OpensMedia
<1> HIDE DEF c, t
<1>8. /\ ~Holds(cmds', Calls("conn", OpensSignal)) /\ ~Holds(cmds', Calls("conn", OpensMedia))
      /\ ~Holds(cmds', Calls("conn", {"media_close"})) /\ ~Holds(cmds', Calls("conn", {"zt_start"}))
  BY <1>6, <1>7 DEF ConnFacts, Ops, OpensSignal, OpensMedia
<1>9. ConnView' /\ DiscView' /\ PollView'
  BY <1>2, <1>4, <1>6, <1>8 DEF BackendInv, ConnView, DiscView, PollView, ConnFacts, MoveFacts, Alike
<1>10. ZtView' /\ ConnCloses'
  BY <1>2, <1>4, <1>8 DEF BackendInv, ZtView, ConnCloses, Past, Alike
<1>11. InvalView'
  BY <1>2, <1>4, <1>6, <1>7, <1>8 DEF BackendInv, InvalView, Past, ConnFacts, MoveFacts, Alike
<1>12. DiscOrder'
  BY <1>4, <1>6, <1>8 DEF BackendInv, DiscOrder, ConnFacts, MoveFacts, Alike
<1>13. PollOrder' /\ LinkOrder' /\ Served' /\ Closed'
  BY <1>2, <1>4, <1>6, <1>8 DEF PollOrder, Past, LinkOrder, Served, Closed, ConnFacts, MoveFacts
<1> QED
  BY <1>9, <1>10, <1>11, <1>12, <1>13 DEF BackendInv

(* connect_channels ends without a session.                                    *)
LEMMA ConnEndsStep ==
  ASSUME Inv, BackendInv, NEW h, ConnMoves(h, Nothing), h \notin Closers,
         NEW s \in StateRecords, NEW retry, state' = Finished(s, retry), conn' = NoConn,
         Alike(state, s), s.signal_pump = state.signal_pump,
         s.signal_connected => state.signal_connected,
         ~state.media_open, state.invalidated => backend.signal = "none" /\ ~backend'.media,
         backend'.zt = backend.zt, UNCHANGED <<backend.signal, backend.inbox>>,
         backend'.media => backend.zt, UNCHANGED <<disc, poll>>
  PROVE  BackendInv'
<1>1. ConnFacts(h, Nothing)
  BY ConnMovesFacts
<1>2. /\ ~state'.connecting /\ Alike(state, state') /\ ~state'.media_open
      /\ state'.signal_connected => state.signal_connected
  BY FinishedFields DEF Alike
<1>3. conn'.goal = "none"
  BY DEF NoConn
<1>4. \A ops \in SUBSET Ops : ~Holds(cmds', Calls("conn", ops))
  BY <1>1 DEF ConnFacts
<1>5. /\ ~Holds(cmds', Calls("conn", OpensSignal)) /\ ~Holds(cmds', Calls("conn", OpensMedia))
      /\ ~Holds(cmds', Calls("conn", {"media_close"})) /\ ~Holds(cmds', Calls("conn", {"zt_start"}))
      /\ ~Holds(cmds', Calls("conn", {"signal_close"}))
  BY <1>4 DEF Ops, OpensSignal, OpensMedia
<1>6. h \notin Vouchers /\ Nothing \notin Closers /\ Nothing \notin Vouchers
  BY CallsMember, NothingIsNoCall DEF ConnMoves
<1>7. ConnView' /\ DiscView' /\ PollView'
  BY <1>1, <1>2, <1>3, <1>5 DEF BackendInv, ConnView, DiscView, PollView, ConnFacts, MoveFacts
<1>8. ZtView' /\ ConnCloses'
  BY <1>2, <1>3, <1>5 DEF BackendInv, ZtView, ConnCloses, Past, Alike
<1>9. InvalView'
  BY <1>1, <1>2, <1>3, <1>5 DEF BackendInv, InvalView, Past, ConnFacts, MoveFacts, Alike
<1>10. DiscOrder'
  BY <1>1, <1>2, <1>5 DEF BackendInv, DiscOrder, ConnFacts, MoveFacts, Alike
<1>11. PollOrder' /\ Served' /\ Closed'
  BY <1>1, <1>2, <1>3, <1>5 DEF PollOrder, Past, Served, Closed, ConnFacts, MoveFacts, Alike
<1>12. LinkOrder'
  BY <1>1, <1>2, <1>3, <1>6 DEF BackendInv, LinkOrder, LossUnread, Linked, ConnFacts, MoveFacts
<1> QED
  BY <1>7, <1>8, <1>9, <1>10, <1>11, <1>12 DEF BackendInv

(* connect_channels has closed the old transports and opened no new one yet.   *)
LEMMA ConnPreparesStep ==
  ASSUME Inv, BackendInv, NEW h, NEW c, ConnMoves(h, c),
         \/ c = Nothing \/ c = Cmd("conn", "get_ip")
         \/ c = Cmd("conn", "zt_start") /\ ~state.manual_disconnect,
         conn'.goal \in {"prepare", "wait", "sleep"}, conn'.epoch = conn.epoch, conn.goal # "none",
         conn'.goal = "sleep" => ~state'.invalidated,
         state'.manual_disconnect = state.manual_disconnect, state'.epoch = state.epoch,
         state'.connecting, state'.signal_pump = state.signal_pump, ~state'.media_open,
         state'.zt_started = backend'.zt,
         state.manual_disconnect /\ disc = "idle" => ~backend'.zt,
         backend'.signal = "none", backend'.inbox = <<>>, ~backend'.media,
         state'.signal_connected =>
           /\ conn'.goal = "prepare" /\ Holds(cmds', Vouchers)
           /\ Preceded(cmds', Calls("conn", Ops), Calls("send", Ops)),
         ~Invalidating, poll.pc = "idle", UNCHANGED <<disc, poll>>
  PROVE  BackendInv'
<1>1. ConnFacts(h, c)
  BY ConnMovesFacts
<1>2. /\ c \notin Calls("conn", OpensSignal) /\ c \notin Calls("conn", OpensMedia)
      /\ c \notin Calls("conn", {"media_close"}) /\ c \notin Calls("conn", {"signal_close"})
      /\ c \in Calls("conn", {"zt_start"}) => ~state.manual_disconnect
  BY CallsMember DEF OpensSignal, OpensMedia, Nothing
<1>3. /\ ~Holds(cmds', Calls("conn", OpensSignal)) /\ ~Holds(cmds', Calls("conn", OpensMedia))
      /\ ~Holds(cmds', Calls("conn", {"media_close"})) /\ ~Holds(cmds', Calls("conn", {"signal_close"}))
      /\ Holds(cmds', Calls("conn", {"zt_start"})) => ~state.manual_disconnect
  BY <1>1, <1>2 DEF ConnFacts, Ops, OpensSignal, OpensMedia
<1>4. ConnView' /\ DiscView' /\ PollView'
  BY <1>1, <1>3 DEF BackendInv, ConnView, DiscView, PollView, ConnFacts, MoveFacts
<1>5. ZtView' /\ ConnCloses'
  BY <1>3 DEF BackendInv, ZtView, ConnCloses
<1>6. InvalView' /\ ~Invalidating'
  BY <1>1, <1>3 DEF InvalView, Invalidating, ConnFacts, MoveFacts
<1>7. DiscOrder'
  BY <1>1, <1>3 DEF BackendInv, DiscOrder, ConnFacts, MoveFacts
<1>8. PollOrder' /\ LinkOrder' /\ Served' /\ Closed'
  BY <1>1, <1>3 DEF PollOrder, LinkOrder, Served, Closed, ConnFacts, MoveFacts
<1> QED
  BY <1>4, <1>5, <1>6, <1>7, <1>8 DEF BackendInv

(* connect_channels asks for the signal transport: it was not superseded.      *)
LEMMA ConnOpensSignalStep ==
  ASSUME Inv, BackendInv, NEW h, NEW op \in OpensSignal, ConnMoves(h, Cmd("conn", op)),
         conn'.goal = "open", conn'.epoch = conn.epoch, conn.goal # "none",
         ~state.manual_disconnect, ~state'.manual_disconnect, state'.epoch = state.epoch,
         state'.zt_started = state.zt_started,
         state'.connecting, state'.signal_pump = state.signal_pump, ~state'.media_open,
         ~state'.invalidated, ~state'.signal_connected,
         backend' = backend, backend.signal = "none", ~backend.media,
         ~Invalidating, poll.pc = "idle", UNCHANGED <<disc, poll>>
  PROVE  BackendInv'
<1> DEFINE c == Cmd("conn", op)
<1>1. ConnFacts(h, c)
  BY ConnMovesFacts
<1>2. /\ c \notin Calls("conn", OpensMedia)
      /\ c \notin Calls("conn", {"media_close"}) /\ c \notin Calls("conn", {"signal_close"})
  BY CallsMember DEF OpensSignal, OpensMedia
<1> HIDE DEF c
<1>3. /\ ~Holds(cmds', Calls("conn", OpensMedia))
      /\ ~Holds(cmds', Calls("conn", {"media_close"})) /\ ~Holds(cmds', Calls("conn", {"signal_close"}))
  BY <1>1, <1>2 DEF ConnFacts, Ops, OpensSignal, OpensMedia
<1>4. ConnView' /\ DiscView' /\ PollView'
  BY <1>1, <1>3 DEF BackendInv, ConnView, DiscView, PollView, ConnFacts, MoveFacts
<1>5. ZtView' /\ ConnCloses'
  BY <1>3 DEF BackendInv, ZtView, ConnCloses
<1>6. InvalView' /\ ~Invalidating'
  BY <1>1, <1>3 DEF InvalView, Invalidating, ConnFacts, MoveFacts
<1>7. DiscOrder' /\ PollOrder' /\ LinkOrder' /\ Served' /\ Closed'
  BY <1>1, <1>3 DEF DiscOrder, PollOrder, LinkOrder, Served, Closed, ConnFacts, MoveFacts
<1> QED
  BY <1>4, <1>5, <1>6, <1>7 DEF BackendInv

(* The signal transport is open and connect_channels asks for the media one.   *)
LEMMA ConnOpensMediaStep ==
  ASSUME Inv, BackendInv, NEW from \in OpensSignal, NEW op \in OpensMedia,
         ConnMoves(Cmd("conn", from), Cmd("conn", op)),
         conn'.goal = "open", conn'.epoch = conn.epoch, conn.goal = "open", state' = state,
         backend'.zt, backend.zt, backend'.signal # "none", backend'.media = backend.media,
         UNCHANGED <<disc, poll>>
  PROVE  BackendInv'
<1> DEFINE h == Cmd("conn", from)
           c == Cmd("conn", op)
<1>1. ConnFacts(h, c)
  BY ConnMovesFacts
<1>2. /\ h \in Calls("conn", OpensSignal) /\ c \in Calls("conn", OpensMedia)
      /\ c \notin Calls("conn", OpensSignal) /\ c \notin Calls("conn", {"zt_start"})
      /\ c \notin Calls("conn", {"media_close"}) /\ c \notin Calls("conn", {"signal_close"})
  BY CallsMember DEF OpensSignal, OpensMedia
<1> HIDE DEF c, h
<1>3. /\ ~Holds(cmds', Calls("conn", OpensSignal)) /\ ~Holds(cmds', Calls("conn", {"zt_start"}))
      /\ ~Holds(cmds', Calls("conn", {"media_close"})) /\ ~Holds(cmds', Calls("conn", {"signal_close"}))
  BY <1>1, <1>2 DEF ConnFacts, Ops, OpensSignal, OpensMedia
<1>4. ConnView' /\ DiscView' /\ PollView'
  BY <1>1, <1>3 DEF BackendInv, ConnView, DiscView, PollView, ConnFacts, MoveFacts
<1>5. ZtView' /\ ConnCloses'
  BY <1>3 DEF BackendInv, ZtView, ConnCloses, Past
<1>6. InvalView' /\ ~Invalidating'
  BY <1>1, <1>3 DEF BackendInv, InvalView, Past, Invalidating, ConnFacts, MoveFacts
<1>7. DiscOrder'
  <2>1. state.manual_disconnect /\ disc # "stopping" => Holds(cmds', Calls("disc", {"signal_close"}))
    BY <1>1, <1>2 DEF BackendInv, DiscOrder, ConnFacts, MoveFacts
  <2>2. Followed(cmds', Calls("disc", {"media_close"}), Calls("conn", OpensMedia))
    BY <1>1, <1>2 DEF ConnFacts, MoveFacts
  <2> QED
    BY <1>1, <1>3, <2>1, <2>2 DEF DiscOrder, ConnFacts, MoveFacts
<1>8. PollOrder' /\ LinkOrder' /\ Served' /\ Closed'
  BY <1>1, <1>3 DEF BackendInv, PollOrder, Past, LinkOrder, Served, Closed, ConnFacts, MoveFacts
<1> QED
  BY <1>4, <1>5, <1>6, <1>7, <1>8 DEF BackendInv

(* A superseded attempt that publishes is overtaken by a running disconnect.   *)
LEMMA DiscOvertakes ==
  ASSUME BackendInv, NEW h, NEW c, ConnFacts(h, c), h \in Calls("conn", OpensMedia),
         conn.goal # "none", should_stop(state, conn)
  PROVE  disc # "idle"
<1>1. state.manual_disconnect
  BY DEF should_stop, BackendInv, ConnView
<1>2. CASE disc # "stopping"
  <2>1. \/ Holds(cmds, Calls("disc", {"signal_close"}))
        \/ Holds(cmds, Calls("disc", {"media_close"}))
    BY <1>1, <1>2 DEF BackendInv, DiscOrder, ConnFacts, MoveFacts
  <2>2. Holds(cmds, Calls("disc", Ops))
    BY <2>1, HoldsMore DEF Ops
  <2> QED
    BY <2>2 DEF BackendInv, DiscView
<1> QED
  BY <1>2

(* connect_channels ends with the session it publishes.                        *)
LEMMA ConnPublishesStep ==
  ASSUME Inv, BackendInv, NEW from \in OpensMedia, NEW c, ConnMoves(Cmd("conn", from), c),
         c = Nothing \/ c = Cmd("send", "signal_send"),
         conn' = NoConn, conn.goal = "open",
         ~state'.connecting, state'.manual_disconnect = state.manual_disconnect,
         state'.zt_started = state.zt_started, state'.invalidated => state.invalidated,
         should_stop(state, conn) \/ (state'.signal_pump /\ state'.media_pump),
         state'.signal_connected => c = Cmd("send", "signal_send"),
         backend.zt, backend'.zt, backend'.media, UNCHANGED <<backend.signal, backend.inbox>>,
         UNCHANGED <<disc, poll>>
  PROVE  BackendInv'
<1> DEFINE h == Cmd("conn", from)
<1>1. ConnFacts(h, c)
  BY ConnMovesFacts
<1>2. /\ h \in Calls("conn", OpensMedia) /\ \A ops : c \notin Calls("conn", ops)
      /\ c \notin Closers /\ (c # Nothing => c \in Vouchers)
  BY CallsMember, NothingIsNoCall DEF Ops, Nothing
<1>3. conn'.goal = "none" /\ ~Invalidating
  BY DEF NoConn, BackendInv, InvalView, Past
<1> HIDE DEF h
<1>4. /\ ~Holds(cmds', Calls("conn", OpensSignal)) /\ ~Holds(cmds', Calls("conn", OpensMedia))
      /\ ~Holds(cmds', Calls("conn", {"media_close"})) /\ ~Holds(cmds', Calls("conn", {"zt_start"}))
      /\ ~Holds(cmds', Calls("conn", {"signal_close"}))
  BY <1>1, <1>2 DEF ConnFacts, Ops, OpensSignal, OpensMedia
<1>5. ConnView' /\ DiscView' /\ PollView'
  BY <1>1, <1>3, <1>4 DEF BackendInv, ConnView, DiscView, PollView, ConnFacts, MoveFacts
<1>6. ZtView' /\ ConnCloses'
  BY <1>3, <1>4 DEF BackendInv, ZtView, ConnCloses, Past
<1>7. InvalView' /\ ~Invalidating'
  BY <1>1, <1>3, <1>4 DEF InvalView, Invalidating, Past, ConnFacts, MoveFacts
<1>8. DiscOrder'
  BY <1>1, <1>2, <1>4 DEF BackendInv, DiscOrder, ConnFacts, MoveFacts
<1>9. PollOrder' /\ Closed'
  BY <1>1, <1>3, <1>4 DEF BackendInv, ConnCloses, PollOrder, Past, Closed, ConnFacts, MoveFacts
<1>10. LinkOrder'
  <2>1. state'.signal_connected => Holds(cmds', Vouchers) /\ Followed(cmds', Closers, Vouchers)
    BY <1>1, <1>2, NothingIsNoCall DEF ConnFacts, MoveFacts, Callers, Ops
  <2> QED
    BY <1>3, <2>1 DEF LinkOrder
<1>11. Served'
  BY <1>1, <1>2, <1>3, DiscOvertakes DEF Served
<1> QED
  BY <1>5, <1>6, <1>7, <1>8, <1>9, <1>10, <1>11 DEF BackendInv

LEMMA ConnTakes ==
  ASSUME Inv, NEW op \in Ops, Answered("conn", op)
  PROVE  /\ \A to \in Ops : cmds' = Append(Tail(cmds), Cmd("conn", to))
                              => ConnMoves(Cmd("conn", op), Cmd("conn", to))
         /\ cmds' = Tail(cmds) => ConnMoves(Cmd("conn", op), Nothing)
         /\ \A s : cmds' = Tail(cmds) \o Sends(s) => ConnMoves(Cmd("conn", op), Sent(s))
         /\ \A ops : op \in ops => Holds(cmds, Calls("conn", ops))
         /\ conn \in ConnRecords /\ Fits(conn.goal, op) /\ conn.goal # "none" /\ state.connecting
<1>1. "conn" \in Callers /\ "signal_send" \in Ops
  BY DEF Callers, Ops
<1>2. cmds \in Seq(Commands) /\ cmds # <<>> /\ Head(cmds) = Cmd("conn", op)
  BY CmdsType DEF Answered
<1>3. \A ops : op \in ops => Holds(cmds, Calls("conn", ops))
  <2>1. 1 \in 1 .. Len(cmds) /\ cmds[1] = Cmd("conn", op)
    BY <1>2, HeadTailProperties
  <2> QED
    BY <2>1, CallsMember DEF Holds
<1>4. conn \in ConnRecords /\ Fits(conn.goal, op) /\ conn.goal # "none" /\ state.connecting
  BY ConnAnswered, StateTyped DEF Fits
<1>5. ASSUME NEW to \in Ops, cmds' = Append(Tail(cmds), Cmd("conn", to))
      PROVE  ConnMoves(Cmd("conn", op), Cmd("conn", to))
  BY <1>1, <1>5, PopsPushes DEF ConnMoves
<1>6. ASSUME cmds' = Tail(cmds) PROVE ConnMoves(Cmd("conn", op), Nothing)
  BY <1>1, <1>6, Pops DEF ConnMoves
<1>7. ASSUME NEW s, cmds' = Tail(cmds) \o Sends(s) PROVE ConnMoves(Cmd("conn", op), Sent(s))
  BY <1>1, <1>7, PopSendPushes DEF ConnMoves, Sent
<1> QED
  BY <1>3, <1>4, <1>5, <1>6, <1>7

(* While no call of connect_channels is under way it may put one on the queue. *)
LEMMA ConnFree ==
  ASSUME Inv, ~Holds(cmds, Calls("conn", Ops))
  PROVE  /\ \A to \in Ops : cmds' = Append(cmds, Cmd("conn", to))
                              => ConnMoves(Nothing, Cmd("conn", to))
         /\ cmds' = cmds => ConnMoves(Nothing, Nothing)
<1>1. "conn" \in Callers
  BY DEF Callers
<1> QED
  BY <1>1, Pushes, Stays DEF ConnMoves

LEMMA NotWaiting ==
  ASSUME Inv, NEW by, ~Waits(by), NEW ops PROVE ~Holds(cmds, Calls(by, ops))
<1>1. \A c : c \in Calls(by, ops) => c.by = by
  BY DEF Calls
<1>2. DOMAIN cmds = 1 .. Len(cmds)
  BY CmdsType
<1> QED
  BY <1>1, <1>2 DEF Waits, Holds

LEMMA PastFacts ==
  ASSUME BackendInv, Past
  PROVE  ~state.media_open /\ ~backend.media /\ ~Invalidating /\ poll.pc = "idle"
  BY DEF BackendInv, ConnCloses, InvalView, PollOrder

LEMMA FailsFields ==
  ASSUME Inv, NEW op \in Ops, Answered("conn", op), NEW s
  PROVE  /\ Fails(s) => /\ ConnMoves(Cmd("conn", op), Cmd("conn", "signal_close"))
                        /\ state' = SignalDown(s)
                        /\ conn'.goal = "fail" /\ conn'.epoch = conn.epoch
         /\ DialFails => /\ ConnMoves(Cmd("conn", op), Cmd("conn", "signal_close"))
                         /\ state' = SignalDown(state)
                         /\ conn'.goal = "retry" /\ conn'.epoch = conn.epoch
         /\ FailsTo("refuse", s, Tail(cmds))
              => /\ ConnMoves(Cmd("conn", op), Cmd("conn", "signal_close"))
                 /\ state' = SignalDown(s)
                 /\ conn'.goal = "refuse" /\ conn'.epoch = conn.epoch
<1>1. "signal_close" \in Ops
  BY DEF Ops
<1> QED
  BY <1>1, ConnTakes DEF Fails, DialFails, FailsTo, Closes, ConnRecords

LEMMA ConnectClickedBackend ==
  ASSUME Inv, BackendInv, ConnectClicked PROVE BackendInv'
<1> DEFINE s == [state EXCEPT !.epoch = @ + 1, !.manual_disconnect = FALSE,
                   !.auto_reconnect = TRUE, !.attempts = 0]
<1>0. state.epoch + 1 \in 0 .. MaxEpoch
  BY StateTyped, Numbers DEF ConnectClicked, StateRecords
<1>1. s \in StateRecords /\ s.zt_started = state.zt_started /\ s.invalidated = state.invalidated
      /\ s.media_open = state.media_open /\ ~s.manual_disconnect
  BY <1>0, StateTyped, Numbers DEF StateRecords
<1>2. Begin(s, FALSE) /\ ~state.connecting /\ UNCHANGED <<backend, disc, poll>>
  BY DEF ConnectClicked, NotConnecting
<1> HIDE DEF s
<1> QED
  BY <1>1, <1>2, BeginsStep

LEMMA ReconnectTimerBackend ==
  ASSUME Inv, BackendInv, ReconnectTimerFires PROVE BackendInv'
<1> DEFINE s == [state EXCEPT !.timer = NoTimer]
<1>1. s \in StateRecords /\ Same(state, s)
  BY StateTyped, Numbers DEF StateRecords, NoTimer, Same, Alike
<1>2. \/ TimerStillValid(s, state.timer) /\ Begin(s, TRUE)
      \/ state' = s /\ UNCHANGED <<cmds, conn>>
  BY DEF ReconnectTimerFires
<1>3. UNCHANGED <<backend, disc, poll>>
  BY DEF ReconnectTimerFires
<1> HIDE DEF s
<1>4. CASE TimerStillValid(s, state.timer) /\ Begin(s, TRUE)
  BY <1>1, <1>3, <1>4, BeginsStep DEF TimerStillValid, Same, Alike
<1>5. CASE state' = s /\ UNCHANGED <<cmds, conn>>
  BY <1>1, <1>3, <1>5, Bystander DEF Same
<1> QED
  BY <1>2, <1>4, <1>5

LEMMA ResetDoneBackend ==
  ASSUME Inv, BackendInv, poll.pc # "lines", ResetDone PROVE BackendInv'
<1> DEFINE s == [state EXCEPT !.event_pump = TRUE]
           h == Cmd("conn", "media_close")
<1>0. s \in StateRecords /\ Same(state, s) /\ s.epoch = state.epoch
  BY StateTyped DEF StateRecords, Same, Alike
<1>1. /\ conn.goal = "reset" /\ Answered("conn", "media_close")
      /\ backend' = [backend EXCEPT !.media = FALSE] /\ UNCHANGED <<disc, poll, faults>>
      /\ \/ Ends(state, FALSE)
         \/ ~should_stop(state, conn) /\ Goes(s, "prepare", "get_ip") /\ state.zt_started
         \/ ~should_stop(state, conn) /\ Goes(s, "prepare", "zt_start") /\ ~state.zt_started
         \/ FailsTo("refuse", s, Tail(cmds))
  BY <1>0 DEF ResetDone, MediaClosed, Same, Alike
<1>2. "media_close" \in Ops /\ "get_ip" \in Ops /\ "zt_start" \in Ops
  BY DEF Ops
<1>3. Holds(cmds, Calls("conn", {"media_close"})) /\ state.connecting /\ conn \in ConnRecords
  BY <1>1, <1>2, ConnTakes
<1>5. backend.signal = "none" /\ ~state.media_open
  BY <1>3 DEF BackendInv, ConnCloses
<1>6. /\ backend'.signal = "none" /\ backend'.zt = backend.zt /\ ~backend'.media
      /\ backend'.inbox = backend.inbox /\ backend.inbox = <<>>
  BY <1>1, <1>5 DEF Inv, RestTypes, BackendRecords, BackendInv, ZtView
<1>7. PICK c : ConnMoves(h, c)
  <2>1. "signal_close" \in Ops
    BY DEF Ops
  <2> QED
    BY <1>1, <1>2, <2>1, ConnTakes DEF Ends, Goes, GoesOn, FailsTo, Closes, NoMore
<1>8. h \in Calls("conn", Ops) /\ h \in Calls("conn", {"media_close"}) /\ h \notin Closers
      /\ \A by, ops : by # "conn" => h \notin Calls(by, ops)
  BY CallsMember DEF Ops
<1>9. MoveFacts(cmds, cmds', h, c) /\ \A by \in Callers : \A ops : Nothing \notin Calls(by, ops)
  BY <1>7, ConnMovesFacts, NothingIsNoCall DEF ConnFacts
<1> HIDE DEF s, h
<1>10. ~Invalidating
  BY <1>3, <1>8, <1>9 DEF BackendInv, InvalView, Invalidating, MoveFacts, Callers
<1>11. poll.pc = "idle"
  <2>1. ~Holds(cmds, Calls("poll", Ops))
    BY <1>8, <1>9 DEF BackendInv, PollOrder, MoveFacts, Callers
  <2>2. /\ ~Holds(cmds, Calls("poll", {"signal_poll"})) /\ ~Holds(cmds, Calls("poll", {"set_peer"}))
        /\ ~Holds(cmds, Calls("poll", {"media_send"}))
    BY <2>1, HoldsMore DEF Ops
  <2> QED
    BY <2>2 DEF BackendInv, PollView, Inv, RestTypes, PollOK, PollRecords
<1>12. CASE Ends(state, FALSE)
  <2>1. ConnMoves(h, Nothing) /\ state' = Finished(state, FALSE) /\ conn' = NoConn
    BY <1>1, <1>2, <1>12, ConnTakes DEF Ends, NoMore, h
  <2>2. Alike(state, state)
    BY DEF Alike
  <2> QED
    BY <1>1, <1>5, <1>6, <1>8, <2>1, <2>2, StateTyped, ConnEndsStep
<1>13. ASSUME NEW op \in {"get_ip", "zt_start"}, ~should_stop(state, conn), Goes(s, "prepare", op)
       PROVE  BackendInv'
  <2> DEFINE d == Cmd("conn", op)
  <2>1. ConnMoves(h, d) /\ state' = s
    BY <1>1, <1>2, <1>13, ConnTakes DEF Goes, GoesOn, h
  <2>2. conn'.goal = "prepare" /\ conn'.epoch = conn.epoch
    BY <1>3, <1>13 DEF Goes, GoesOn, ConnRecords
  <2>3. ~state.manual_disconnect
    BY <1>13 DEF should_stop
  <2>4. ConnFacts(h, d)
    BY <2>1, ConnMovesFacts
  <2>5. \/ d = Cmd("conn", "get_ip")
        \/ d = Cmd("conn", "zt_start") /\ ~state.manual_disconnect
    BY <2>3
  <2>6. \A ops : d \notin Calls("send", ops)
    BY CallsMember
  <2> HIDE DEF d
  <2>7. state'.signal_connected => Holds(cmds', Vouchers)
                                   /\ Preceded(cmds', Calls("conn", Ops), Calls("send", Ops))
    <3> SUFFICES ASSUME state.signal_connected
                 PROVE  Holds(cmds', Vouchers)
                        /\ Preceded(cmds', Calls("conn", Ops), Calls("send", Ops))
      BY <1>0, <2>1 DEF Same
    <3>1. ~LossUnread
      BY <1>5, <1>6, <1>11 DEF LossUnread, Linked, BackendInv, PollView
    <3>2. ~Holds(cmds, Calls("poll", {"set_peer"}))
      BY <1>11 DEF BackendInv, PollView
    <3>3. Holds(cmds, Calls("send", Ops))
      BY <3>1, <3>2, HoldsVouchers DEF BackendInv, LinkOrder
    <3>4. Single(cmds, Calls("conn", Ops))
      BY ConnCalls DEF Inv, SessionInv
    <3>5. Holds(cmds', Calls("send", Ops))
      BY <1>8, <2>4, <3>3 DEF ConnFacts, MoveFacts
    <3> QED
      BY <1>8, <2>4, <3>3, <3>4, <3>5, HoldsVouchers DEF ConnFacts, MoveFacts
  <2> QED
    BY <1>1, <1>3, <1>0, <1>5, <1>6, <1>10, <1>11, <2>1, <2>2, <2>3, <2>5, <2>7, ConnPreparesStep
       DEF BackendInv, ZtView, ConnView, Same, Alike
<1>14. CASE FailsTo("refuse", s, Tail(cmds))
  <2>1. /\ ConnMoves(h, Cmd("conn", "signal_close")) /\ state' = SignalDown(s)
        /\ conn'.goal = "refuse" /\ conn'.epoch = conn.epoch
    BY <1>1, <1>2, <1>14, FailsFields DEF h
  <2> QED
    BY <1>1, <1>3, <1>0, <1>5, <1>6, <1>10, <1>11, <2>1, ConnClosesStep DEF Same, Alike
<1> QED
  BY <1>1, <1>12, <1>13, <1>14

(* A call that opens or prepares something is answered after the old transports *)
(* were closed, and the link they carried is not shown any more.               *)
LEMMA PreparingFacts ==
  ASSUME Inv, BackendInv, NEW op \in {"zt_start", "get_ip"}, Answered("conn", op)
  PROVE  /\ conn.goal \in {"prepare", "wait"} /\ ~state.signal_connected
         /\ ~state.media_open /\ ~backend.media /\ ~Invalidating /\ poll.pc = "idle"
         /\ backend.signal = "none" /\ backend.inbox = <<>>
<1>1. op \in Ops
  BY DEF Ops
<1>2. conn.goal \in {"prepare", "wait"}
  BY <1>1, ConnTakes DEF Fits
<1>3. ~Preceded(cmds, Calls("conn", Ops), Calls("send", Ops))
  <2> SUFFICES ASSUME Preceded(cmds, Calls("conn", Ops), Calls("send", Ops)) PROVE FALSE
    OBVIOUS
  <2>1. 1 \in 1 .. Len(cmds) /\ cmds[1] \in Calls("conn", Ops)
    BY <1>1, CmdsType, HeadTailProperties, CallsMember DEF Answered
  <2> QED
    BY <2>1 DEF Preceded
<1>4. ~state.signal_connected
  BY <1>2, <1>3 DEF BackendInv, LinkOrder
<1> QED
  BY <1>2, <1>4, PastFacts DEF Past, BackendInv, ConnCloses, ZtView

LEMMA ZtStartedBackend == ASSUME Inv, BackendInv, ZtStarted PROVE BackendInv'
<1> DEFINE s == [state EXCEPT !.zt_started = TRUE, !.need_restore = FALSE, !.invalidated = FALSE]
           h == Cmd("conn", "zt_start")
<1>1. /\ Answered("conn", "zt_start") /\ UNCHANGED <<disc, poll, faults>>
      /\ \/ backend' = [backend EXCEPT !.zt = TRUE, !.stray = FALSE] /\ Goes(s, "prepare", "get_ip")
         \/ /\ \E runs \in BOOLEAN : backend' = [backend EXCEPT !.stray = @ \/ runs]
            /\ Fails(state)
  BY DEF ZtStarted
<1>2. "zt_start" \in Ops /\ "get_ip" \in Ops /\ "signal_close" \in Ops
  BY DEF Ops
<1>3. state.connecting /\ conn \in ConnRecords /\ conn.goal # "none"
  BY <1>1, <1>2, ConnTakes
<1>4. /\ ~state.signal_connected /\ ~state.media_open /\ ~backend.media
      /\ ~Invalidating /\ poll.pc = "idle" /\ backend.signal = "none" /\ backend.inbox = <<>>
  BY <1>1, PreparingFacts
<1>5. s \in StateRecords /\ s.zt_started /\ Same(state, [s EXCEPT !.zt_started = state.zt_started,
                                                          !.invalidated = state.invalidated])
  BY StateTyped DEF StateRecords, Same, Alike
<1>6. /\ s.manual_disconnect = state.manual_disconnect /\ s.epoch = state.epoch
      /\ s.connecting /\ s.signal_pump = state.signal_pump /\ ~s.media_open /\ ~s.signal_connected
  BY <1>3, <1>4, StateTyped DEF StateRecords
<1>7. h \in Calls("conn", {"zt_start"})
  BY CallsMember
<1> HIDE DEF s, h
<1>8. CASE backend' = [backend EXCEPT !.zt = TRUE, !.stray = FALSE] /\ Goes(s, "prepare", "get_ip")
  <2> DEFINE c == Cmd("conn", "get_ip")
  <2>1. ConnMoves(h, c) /\ state' = s
    BY <1>1, <1>2, <1>8, ConnTakes DEF Goes, GoesOn, h
  <2>2. conn'.goal = "prepare" /\ conn'.epoch = conn.epoch
    BY <1>3, <1>8 DEF Goes, GoesOn, ConnRecords
  <2>3. /\ backend'.zt /\ backend'.signal = "none" /\ backend'.inbox = <<>> /\ ~backend'.media
    BY <1>4, <1>8 DEF Inv, RestTypes, BackendRecords
  <2>4. ~(state.manual_disconnect /\ disc = "idle")
    <3> SUFFICES ASSUME state.manual_disconnect, disc # "stopping" PROVE disc # "idle"
      OBVIOUS
    <3>1. ConnFacts(h, c)
      BY <2>1, ConnMovesFacts
    <3>2. Holds(cmds', Calls("disc", {"signal_close"}))
      BY <1>7, <3>1 DEF BackendInv, DiscOrder, ConnFacts, MoveFacts
    <3>3. Holds(cmds, Calls("disc", {"signal_close"}))
      BY <3>1, <3>2 DEF ConnFacts
    <3>4. Holds(cmds, Calls("disc", Ops))
      BY <3>3, HoldsMore DEF Ops
    <3> QED
      BY <3>4 DEF BackendInv, DiscView
  <2> QED
    BY <1>1, <1>3, <1>4, <1>5, <1>6, <2>1, <2>2, <2>3, <2>4, ConnPreparesStep
<1>9. CASE /\ \E runs \in BOOLEAN : backend' = [backend EXCEPT !.stray = @ \/ runs]
           /\ Fails(state)
  <2>1. /\ ConnMoves(h, Cmd("conn", "signal_close")) /\ state' = SignalDown(state)
        /\ conn'.goal = "fail" /\ conn'.epoch = conn.epoch
    BY <1>1, <1>2, <1>9, FailsFields DEF h
  <2>2. UNCHANGED <<backend.zt, backend.media, backend.signal, backend.inbox>>
    BY <1>9 DEF Inv, RestTypes, BackendRecords
  <2> QED
    BY <1>1, <1>3, <1>4, <2>1, <2>2, StateTyped, ConnClosesStep
<1> QED
  BY <1>1, <1>8, <1>9

(* create_channels_by_role opens the signal transport or refuses the form.     *)
LEMMA CreateChannelsBackend ==
  ASSUME Inv, BackendInv, NEW s \in StateRecords, Same(state, s), ~state.manual_disconnect,
         NEW rest, CreateChannels(s, rest), NEW h,
         \A to \in Ops : cmds' = Append(rest, Cmd("conn", to)) => ConnMoves(h, Cmd("conn", to)),
         state.connecting, conn \in ConnRecords, conn.goal # "none",
         ~state.signal_connected, ~state.media_open, ~backend.media,
         ~Invalidating, poll.pc = "idle", backend.signal = "none", backend.inbox = <<>>,
         UNCHANGED <<backend, disc, poll>>
  PROVE  BackendInv'
<1> DEFINE t == [s EXCEPT !.invalidated = FALSE]
<1>1. /\ t \in StateRecords /\ t.connecting /\ ~t.media_open /\ ~t.invalidated
      /\ t.manual_disconnect = state.manual_disconnect /\ t.epoch = state.epoch
      /\ t.zt_started = state.zt_started
      /\ t.signal_pump = state.signal_pump /\ ~t.signal_connected
  BY DEF StateRecords, Same, Alike
<1>2. \/ \E op \in OpensSignal : GoesOn(t, "open", op, rest)
      \/ FailsTo("refuse", t, rest)
  BY DEF CreateChannels, OpensSignal
<1> HIDE DEF t
<1>3. ASSUME NEW op \in OpensSignal, GoesOn(t, "open", op, rest) PROVE BackendInv'
  <2>1. ConnMoves(h, Cmd("conn", op)) /\ state' = t
    BY <1>3 DEF GoesOn, OpensSignal, Ops
  <2>2. conn'.goal = "open" /\ conn'.epoch = conn.epoch
    BY <1>3 DEF GoesOn, ConnRecords
  <2> QED
    BY <1>1, <1>3, <2>1, <2>2, ConnOpensSignalStep
<1>4. CASE FailsTo("refuse", t, rest)
  <2>1. ConnMoves(h, Cmd("conn", "signal_close")) /\ state' = SignalDown(t)
    BY <1>4 DEF FailsTo, Closes, Ops
  <2>2. conn'.goal = "refuse" /\ conn'.epoch = conn.epoch
    BY <1>4 DEF FailsTo, ConnRecords
  <2> QED
    BY <1>1, <2>1, <2>2, ConnClosesStep
<1> QED
  BY <1>2, <1>3, <1>4

LEMMA IpReadBackend == ASSUME Inv, BackendInv, IpRead PROVE BackendInv'
<1> DEFINE s == [state EXCEPT !.host_ip = backend.ip]
           h == Cmd("conn", "get_ip")
<1>1. /\ Answered("conn", "get_ip") /\ UNCHANGED <<backend, disc, poll, faults>>
      /\ \/ Ends(s, FALSE)
         \/ ~should_stop(s, conn) /\ CreateChannels(s, Tail(cmds))
         \/ /\ state' = s /\ cmds' = Tail(cmds)
            /\ conn' = [conn EXCEPT !.goal = "wait"] \/ (conn' = conn /\ conn.goal # "prepare")
  BY DEF IpRead, NoMore
<1>2. "get_ip" \in Ops
  BY DEF Ops
<1>3. state.connecting /\ conn \in ConnRecords /\ conn.goal # "none"
  BY <1>1, <1>2, ConnTakes
<1>4. /\ conn.goal \in {"prepare", "wait"} /\ ~state.signal_connected
      /\ ~state.media_open /\ ~backend.media
      /\ ~Invalidating /\ poll.pc = "idle" /\ backend.signal = "none" /\ backend.inbox = <<>>
  BY <1>1, PreparingFacts
<1>5. s \in StateRecords /\ Same(state, s)
  BY StateTyped DEF StateRecords, Same, Alike, Inv, RestTypes, BackendRecords
<1>6. h \notin Closers
  BY CallsMember
<1> HIDE DEF s, h
<1>9. CASE Ends(s, FALSE)
  <2>1. ConnMoves(h, Nothing) /\ state' = Finished(s, FALSE) /\ conn' = NoConn
    BY <1>1, <1>2, <1>9, ConnTakes DEF Ends, NoMore, h
  <2> QED
    BY <1>1, <1>4, <1>5, <1>6, <2>1, ConnEndsStep DEF Same
<1>10. CASE ~should_stop(s, conn) /\ CreateChannels(s, Tail(cmds))
  <2>1. \A to \in Ops : cmds' = Append(Tail(cmds), Cmd("conn", to)) => ConnMoves(h, Cmd("conn", to))
    BY <1>1, <1>2, ConnTakes DEF h
  <2>2. ~state.manual_disconnect
    BY <1>5, <1>10 DEF should_stop, Same, Alike
  <2> QED
    BY <1>1, <1>3, <1>4, <1>5, <1>10, <2>1, <2>2, CreateChannelsBackend
<1>12. CASE /\ state' = s /\ cmds' = Tail(cmds)
            /\ conn' = [conn EXCEPT !.goal = "wait"] \/ (conn' = conn /\ conn.goal # "prepare")
  <2>1. ConnMoves(h, Nothing)
    BY <1>1, <1>2, <1>12, ConnTakes DEF h
  <2>2. conn'.goal = "wait" /\ conn'.epoch = conn.epoch
    BY <1>3, <1>4, <1>12 DEF ConnRecords
  <2> QED
    BY <1>1, <1>3, <1>4, <1>5, <1>12, <2>1, <2>2, ConnPreparesStep
       DEF Same, Alike, BackendInv, ZtView
<1> QED
  BY <1>1, <1>9, <1>10, <1>12

LEMMA WaitBackend ==
  ASSUME Inv, BackendInv, WaitTick \/ WaitTimeout PROVE BackendInv'
<1>1. conn.goal = "wait" /\ ~Waits("conn") /\ UNCHANGED <<backend, disc, poll>>
  BY DEF WaitTick, WaitTimeout
<1>2. "get_ip" \in Ops /\ "signal_close" \in Ops
  BY DEF Ops
<1>3. ~Holds(cmds, Calls("conn", Ops)) /\ state.connecting /\ conn \in ConnRecords
  BY <1>1, NotWaiting, StateTyped DEF BackendInv, ConnView
<1>4. /\ ~state.signal_connected /\ ~state.media_open /\ ~backend.media
      /\ ~Invalidating /\ poll.pc = "idle" /\ backend.signal = "none" /\ backend.inbox = <<>>
  BY <1>1, PastFacts DEF Past, BackendInv, LinkOrder, ConnCloses, ZtView
<1>5. CASE WaitTick
  <2>1. cmds' = Append(cmds, Cmd("conn", "get_ip")) /\ UNCHANGED <<state, conn>>
    BY <1>5 DEF WaitTick
  <2>2. ConnMoves(Nothing, Cmd("conn", "get_ip"))
    BY <1>2, <1>3, <2>1, ConnFree
  <2> QED
    BY <1>1, <1>3, <1>4, <2>1, <2>2, ConnPreparesStep DEF BackendInv, ZtView
<1>6. CASE state' = Finished(state, FALSE) /\ conn' = NoConn /\ UNCHANGED cmds
  <2>1. ConnMoves(Nothing, Nothing)
    BY <1>3, <1>6, ConnFree
  <2> QED
    BY <1>1, <1>4, <1>6, <2>1, StateTyped, NothingIsNoCall, ConnEndsStep DEF Alike
<1>7. CASE FailsTo("fail", state, cmds)
  <2>1. ConnMoves(Nothing, Cmd("conn", "signal_close")) /\ state' = SignalDown(state)
    BY <1>2, <1>3, <1>7, ConnFree DEF FailsTo, Closes
  <2>2. conn'.goal = "fail" /\ conn'.epoch = conn.epoch
    BY <1>3, <1>7 DEF FailsTo, ConnRecords
  <2> QED
    BY <1>1, <1>3, <1>4, <2>1, <2>2, StateTyped, ConnClosesStep
<1>8. CASE ~should_stop(state, conn) /\ CreateChannels(state, cmds)
  <2>1. \A to \in Ops : cmds' = Append(cmds, Cmd("conn", to)) => ConnMoves(Nothing, Cmd("conn", to))
    BY <1>3, ConnFree
  <2>2. ~state.manual_disconnect /\ Same(state, state)
    BY <1>8 DEF should_stop, Same, Alike
  <2> QED
    BY <1>1, <1>3, <1>4, <1>8, <2>1, <2>2, StateTyped, CreateChannelsBackend
<1> QED
  BY <1>5, <1>6, <1>7, <1>8 DEF WaitTimeout

(* A call that opens a transport is answered while connect_channels opens.     *)
LEMMA OpeningFacts ==
  ASSUME Inv, BackendInv, NEW op \in OpensSignal \cup OpensMedia, Answered("conn", op)
  PROVE  /\ conn.goal = "open" /\ ~state.signal_connected /\ ~state.invalidated
         /\ ~state.media_open /\ ~backend.media /\ ~Invalidating /\ poll.pc = "idle"
         /\ op \in Ops /\ Cmd("conn", op) \notin Closers
         /\ backend.signal = "none" => backend.inbox = <<>>
<1>1. op \in Ops
  BY DEF Ops, OpensSignal, OpensMedia
<1>2. conn.goal = "open"
  BY <1>1, ConnTakes DEF BackendInv, ConnView
<1>3. Cmd("conn", op) \notin Closers
  BY CallsMember DEF OpensSignal, OpensMedia
<1> QED
  BY <1>1, <1>2, <1>3, PastFacts DEF Past, BackendInv, LinkOrder, ConnCloses, ZtView

LEMMA SignalListensBackend == ASSUME Inv, BackendInv, SignalListens PROVE BackendInv'
<1> DEFINE h == Cmd("conn", "signal_listen")
<1>1. /\ Answered("conn", "signal_listen") /\ UNCHANGED <<disc, poll>>
      /\ \/ /\ backend.zt /\ backend' = [backend EXCEPT !.signal = "starting", !.inbox = <<>>]
            /\ Goes(state, "open", "media_listen")
         \/ /\ backend' = [backend EXCEPT !.signal = "none", !.inbox = <<>>]
            /\ Fails(state)
  BY DEF SignalListens
<1>2. "signal_listen" \in Ops /\ "media_listen" \in Ops /\ "signal_close" \in Ops
      /\ "signal_listen" \in OpensSignal /\ "media_listen" \in OpensMedia
  BY DEF Ops, OpensSignal, OpensMedia
<1>3. state.connecting /\ conn \in ConnRecords /\ conn.goal # "none"
  BY <1>1, <1>2, ConnTakes
<1>4. /\ conn.goal = "open" /\ ~state.signal_connected /\ ~state.media_open
      /\ ~backend.media /\ ~Invalidating /\ poll.pc = "idle"
  BY <1>1, <1>2, OpeningFacts
<1>5. CASE /\ backend.zt /\ backend' = [backend EXCEPT !.signal = "starting", !.inbox = <<>>]
           /\ Goes(state, "open", "media_listen")
  <2>1. ConnMoves(h, Cmd("conn", "media_listen")) /\ state' = state
    BY <1>1, <1>2, <1>5, ConnTakes DEF Goes, GoesOn
  <2>2. conn'.goal = "open" /\ conn'.epoch = conn.epoch
    BY <1>3, <1>5 DEF Goes, GoesOn, ConnRecords
  <2>3. backend'.zt /\ backend'.signal # "none" /\ backend'.media = backend.media
    BY <1>5 DEF Inv, RestTypes, BackendRecords
  <2> HIDE DEF h
  <2> QED
    BY <1>1, <1>2, <1>4, <1>5, <2>1, <2>2, <2>3, ConnOpensMediaStep DEF h
<1>6. CASE /\ backend' = [backend EXCEPT !.signal = "none", !.inbox = <<>>]
           /\ Fails(state)
  <2>1. /\ ConnMoves(h, Cmd("conn", "signal_close")) /\ state' = SignalDown(state)
        /\ conn'.goal = "fail" /\ conn'.epoch = conn.epoch
    BY <1>1, <1>2, <1>6, FailsFields
  <2>2. /\ backend'.signal = "none" /\ backend'.inbox = <<>> /\ ~backend'.media
        /\ backend'.zt = backend.zt
    BY <1>4, <1>6 DEF Inv, RestTypes, BackendRecords
  <2> HIDE DEF h
  <2> QED
    BY <1>1, <1>3, <1>4, <2>1, <2>2, StateTyped, ConnClosesStep
<1> QED
  BY <1>1, <1>5, <1>6

LEMMA SignalDialedBackend == ASSUME Inv, BackendInv, SignalDialed PROVE BackendInv'
<1> DEFINE h == Cmd("conn", "signal_connect")
<1>1. /\ Answered("conn", "signal_connect") /\ UNCHANGED <<disc, poll>>
      /\ \/ /\ backend.zt /\ backend' = [backend EXCEPT !.signal = "linked", !.inbox = <<"connected">>]
            /\ Goes(state, "open", "media_connect")
         \/ /\ backend' = [backend EXCEPT !.signal = "none", !.inbox = <<>>]
            /\ DialFails
  BY DEF SignalDialed
<1>2. "signal_connect" \in Ops /\ "media_connect" \in Ops /\ "signal_close" \in Ops
      /\ "signal_connect" \in OpensSignal /\ "media_connect" \in OpensMedia
  BY DEF Ops, OpensSignal, OpensMedia
<1>3. state.connecting /\ conn \in ConnRecords /\ conn.goal # "none"
  BY <1>1, <1>2, ConnTakes
<1>4. /\ conn.goal = "open" /\ ~state.signal_connected /\ ~state.media_open /\ ~state.invalidated
      /\ ~backend.media /\ ~Invalidating /\ poll.pc = "idle"
  BY <1>1, <1>2, OpeningFacts
<1>5. CASE /\ backend.zt /\ backend' = [backend EXCEPT !.signal = "linked", !.inbox = <<"connected">>]
           /\ Goes(state, "open", "media_connect")
  <2>1. ConnMoves(h, Cmd("conn", "media_connect")) /\ state' = state
    BY <1>1, <1>2, <1>5, ConnTakes DEF Goes, GoesOn
  <2>2. conn'.goal = "open" /\ conn'.epoch = conn.epoch
    BY <1>3, <1>5 DEF Goes, GoesOn, ConnRecords
  <2>3. backend'.zt /\ backend'.signal # "none" /\ backend'.media = backend.media
    BY <1>5 DEF Inv, RestTypes, BackendRecords
  <2> HIDE DEF h
  <2> QED
    BY <1>1, <1>2, <1>4, <1>5, <2>1, <2>2, <2>3, ConnOpensMediaStep DEF h
<1>6. CASE /\ backend' = [backend EXCEPT !.signal = "none", !.inbox = <<>>]
           /\ DialFails
  <2>1. /\ ConnMoves(h, Cmd("conn", "signal_close")) /\ state' = SignalDown(state)
        /\ conn'.goal = "retry" /\ conn'.epoch = conn.epoch
    BY <1>1, <1>2, <1>6, FailsFields
  <2>2. /\ backend'.signal = "none" /\ backend'.inbox = <<>> /\ ~backend'.media
        /\ backend'.zt = backend.zt
    BY <1>4, <1>6 DEF Inv, RestTypes, BackendRecords
  <2> HIDE DEF h
  <2> QED
    BY <1>1, <1>3, <1>4, <2>1, <2>2, StateTyped, ConnClosesStep
<1> QED
  BY <1>1, <1>5, <1>6

(* What the published session shows.                                           *)
LEMMA PublishFields ==
  ASSUME NEW s \in StateRecords, NEW t \in {Publish(s), Established(Publish(s))}
  PROVE  LET u == Finished(t, FALSE)
         IN /\ ~u.connecting /\ u.manual_disconnect = s.manual_disconnect
            /\ u.zt_started = s.zt_started /\ (u.invalidated => s.invalidated)
            /\ t = Established(Publish(s)) => u.signal_pump /\ u.media_pump
            /\ u.signal_connected = Publish(s).signal_connected
            /\ s.role = "share" => ~u.signal_connected
            /\ Publish(s).manual_disconnect = s.manual_disconnect /\ Publish(s).epoch = s.epoch
<1> DEFINE p == Publish(s)
           u == Finished(t, FALSE)
<1>1. /\ p \in StateRecords /\ p.manual_disconnect = s.manual_disconnect /\ p.epoch = s.epoch
      /\ p.zt_started = s.zt_started /\ p.invalidated = s.invalidated
      /\ s.role = "share" => ~p.signal_connected
  BY ZenonT(40) DEF StateRecords, Publish
<1>0. t \in {p, Established(p)}
  OBVIOUS
<1> HIDE DEF p
<1>2. /\ Established(p) \in StateRecords /\ Established(p).manual_disconnect = p.manual_disconnect
      /\ Established(p).zt_started = p.zt_started /\ ~Established(p).invalidated
      /\ Established(p).signal_pump /\ Established(p).media_pump
      /\ Established(p).signal_connected = p.signal_connected
  BY <1>1, Numbers, ZenonT(40) DEF StateRecords, Established, NoTimer
<1>3. /\ ~u.connecting /\ Alike(t, u)
      /\ u.signal_pump = t.signal_pump /\ u.signal_connected = t.signal_connected
  <2>1. t \in StateRecords
    BY <1>0, <1>1, <1>2
  <2> QED
    BY ONLY <2>1, FinishedFields
<1> HIDE DEF u
<1>4. /\ u.manual_disconnect = s.manual_disconnect /\ u.zt_started = s.zt_started
      /\ u.invalidated => s.invalidated
      /\ t = Established(p) => u.signal_pump /\ u.media_pump
      /\ u.signal_connected = p.signal_connected
  BY <1>0, <1>1, <1>2, <1>3 DEF Alike
<1> QED
  BY <1>1, <1>3, <1>4 DEF p, u

LEMMA MediaListensBackend == ASSUME Inv, BackendInv, MediaListens PROVE BackendInv'
<1> DEFINE h == Cmd("conn", "media_listen")
           p == Publish(state)
           t == IF should_stop(p, conn) THEN p ELSE Established(p)
<1>1. /\ Answered("conn", "media_listen") /\ UNCHANGED <<disc, poll>>
      /\ \/ backend.zt /\ backend' = [backend EXCEPT !.media = TRUE] /\ Ends(t, FALSE)
         \/ backend' = [backend EXCEPT !.media = FALSE] /\ Fails(state)
  BY DEF MediaListens
<1>2. "media_listen" \in Ops /\ "media_listen" \in OpensMedia
  BY DEF Ops, OpensMedia
<1>3. state.connecting /\ conn \in ConnRecords /\ conn.goal # "none"
  BY <1>1, <1>2, ConnTakes
<1>4. /\ conn.goal = "open" /\ ~state.media_open /\ ~Invalidating /\ poll.pc = "idle"
  BY <1>1, <1>2, OpeningFacts
<1>5. state.role = "share"
  BY <1>1, ConnAnswered DEF Listen
<1>6. CASE backend.zt /\ backend' = [backend EXCEPT !.media = TRUE] /\ Ends(t, FALSE)
  <2>1. ConnMoves(h, Nothing) /\ state' = Finished(t, FALSE) /\ conn' = NoConn
    BY <1>1, <1>2, <1>6, ConnTakes DEF Ends, NoMore
  <2>2. backend'.zt /\ backend'.media /\ UNCHANGED <<backend.signal, backend.inbox>>
    BY <1>6 DEF Inv, RestTypes, BackendRecords
  <2>3. t \in {p, Established(p)} /\ (t = Established(p) \/ should_stop(p, conn))
    OBVIOUS
  <2> HIDE DEF h, t
  <2>4. /\ ~state'.connecting /\ state'.manual_disconnect = state.manual_disconnect
        /\ state'.zt_started = state.zt_started /\ (state'.invalidated => state.invalidated)
        /\ t = Established(p) => state'.signal_pump /\ state'.media_pump
        /\ ~state'.signal_connected
        /\ p.manual_disconnect = state.manual_disconnect /\ p.epoch = state.epoch
    BY <1>5, <2>1, <2>3, StateTyped, PublishFields
  <2>5. should_stop(state, conn) \/ (state'.signal_pump /\ state'.media_pump)
    BY <2>3, <2>4 DEF should_stop
  <2> HIDE DEF p
  <2> QED
    BY <1>1, <1>2, <1>4, <1>6, <2>1, <2>2, <2>4, <2>5, ConnPublishesStep DEF h
<1>7. CASE backend' = [backend EXCEPT !.media = FALSE] /\ Fails(state)
  <2>1. /\ ConnMoves(h, Cmd("conn", "signal_close")) /\ state' = SignalDown(state)
        /\ conn'.goal = "fail" /\ conn'.epoch = conn.epoch
    BY <1>1, <1>2, <1>7, FailsFields
  <2>2. UNCHANGED <<backend.signal, backend.inbox>> /\ ~backend'.media /\ backend'.zt = backend.zt
    BY <1>7 DEF Inv, RestTypes, BackendRecords
  <2> HIDE DEF h
  <2> QED
    BY <1>1, <1>3, <1>4, <2>1, <2>2, StateTyped, ConnClosesStep
<1> QED
  BY <1>1, <1>6, <1>7

LEMMA MediaDialedBackend == ASSUME Inv, BackendInv, MediaDialed PROVE BackendInv'
<1> DEFINE h == Cmd("conn", "media_connect")
           p == Publish(state)
<1>1. /\ Answered("conn", "media_connect") /\ UNCHANGED <<disc, poll>>
      /\ \/ backend.zt /\ backend' = [backend EXCEPT !.media = TRUE] /\ Ends(state, FALSE)
         \/ /\ backend.zt /\ backend' = [backend EXCEPT !.media = TRUE]
            /\ state' = Finished(Established(p), FALSE)
            /\ conn' = NoConn /\ cmds' = Tail(cmds) \o Sends(p)
         \/ backend' = [backend EXCEPT !.media = FALSE] /\ DialFails
  BY DEF MediaDialed
<1>2. "media_connect" \in Ops /\ "media_connect" \in OpensMedia
  BY DEF Ops, OpensMedia
<1>3. state.connecting /\ conn \in ConnRecords /\ conn.goal # "none"
  BY <1>1, <1>2, ConnTakes
<1>4. /\ conn.goal = "open" /\ ~state.media_open /\ ~state.invalidated
      /\ ~Invalidating /\ poll.pc = "idle" /\ h \notin Closers
  BY <1>1, <1>2, OpeningFacts
<1>5. CASE backend.zt /\ backend' = [backend EXCEPT !.media = TRUE] /\ Ends(state, FALSE)
  <2>1. ConnMoves(h, Nothing) /\ state' = Finished(state, FALSE) /\ conn' = NoConn
    BY <1>1, <1>2, <1>5, ConnTakes DEF Ends, NoMore
  <2>2. backend'.zt = backend.zt /\ UNCHANGED <<backend.signal, backend.inbox>>
    BY <1>5 DEF Inv, RestTypes, BackendRecords
  <2> HIDE DEF h
  <2> QED
    BY <1>1, <1>4, <1>5, <2>1, <2>2, StateTyped, ConnEndsStep DEF Alike
<1>6. CASE /\ backend.zt /\ backend' = [backend EXCEPT !.media = TRUE]
           /\ state' = Finished(Established(p), FALSE)
           /\ conn' = NoConn /\ cmds' = Tail(cmds) \o Sends(p)
  <2> DEFINE c == Sent(p)
  <2>1. ConnMoves(h, c)
    BY <1>1, <1>2, <1>6, ConnTakes
  <2>2. backend'.zt /\ backend'.media /\ UNCHANGED <<backend.signal, backend.inbox>>
    BY <1>6 DEF Inv, RestTypes, BackendRecords
  <2>3. /\ ~state'.connecting /\ state'.manual_disconnect = state.manual_disconnect
        /\ state'.zt_started = state.zt_started /\ (state'.invalidated => state.invalidated)
        /\ state'.signal_pump /\ state'.media_pump
        /\ state'.signal_connected = p.signal_connected
    BY <1>6, StateTyped, PublishFields
  <2>4. /\ c = Nothing \/ c = Cmd("send", "signal_send")
        /\ state'.signal_connected => c = Cmd("send", "signal_send")
    BY <2>3 DEF Sent
  <2> HIDE DEF h, p, c
  <2> QED
    BY <1>1, <1>2, <1>4, <1>6, <2>1, <2>2, <2>3, <2>4, ConnPublishesStep DEF h
<1>7. CASE backend' = [backend EXCEPT !.media = FALSE] /\ DialFails
  <2>1. /\ ConnMoves(h, Cmd("conn", "signal_close")) /\ state' = SignalDown(state)
        /\ conn'.goal = "retry" /\ conn'.epoch = conn.epoch
    BY <1>1, <1>2, <1>7, FailsFields
  <2>2. UNCHANGED <<backend.signal, backend.inbox>> /\ ~backend'.media /\ backend'.zt = backend.zt
    BY <1>7 DEF Inv, RestTypes, BackendRecords
  <2> HIDE DEF h
  <2> QED
    BY <1>1, <1>3, <1>4, <2>1, <2>2, StateTyped, ConnClosesStep
<1> QED
  BY <1>1, <1>5, <1>6, <1>7

(* A clean-up of connect_channels has closed the transports.                   *)
LEMMA CleanedFacts ==
  ASSUME Inv, BackendInv, MediaClosed("conn"), Past
  PROVE  /\ ~state.signal_connected \/ conn.goal = "prepare"
         /\ ~state.media_open /\ ~Invalidating /\ poll.pc = "idle"
         /\ backend.signal = "none" /\ backend.inbox = <<>>
         /\ backend'.signal = "none" /\ backend'.inbox = <<>> /\ ~backend'.media
         /\ backend'.zt = backend.zt
         /\ Cmd("conn", "media_close") \notin Closers
         /\ state.connecting /\ conn \in ConnRecords /\ "media_close" \in Ops
<1>1. "media_close" \in Ops
  BY DEF Ops
<1>2. /\ Holds(cmds, Calls("conn", {"media_close"})) /\ state.connecting /\ conn \in ConnRecords
  BY <1>1, ConnTakes DEF MediaClosed
<1>3. backend.signal = "none" /\ backend.inbox = <<>>
  BY <1>2 DEF BackendInv, ConnCloses, ZtView
<1>4. /\ backend'.signal = "none" /\ backend'.inbox = <<>> /\ ~backend'.media
      /\ backend'.zt = backend.zt
  BY <1>3 DEF MediaClosed, Inv, RestTypes, BackendRecords
<1>5. Cmd("conn", "media_close") \notin Closers
  BY CallsMember
<1> QED
  BY <1>1, <1>2, <1>3, <1>4, <1>5, PastFacts DEF Past, BackendInv, LinkOrder

LEMMA RetryClosedBackend == ASSUME Inv, BackendInv, RetryClosed PROVE BackendInv'
<1> DEFINE h == Cmd("conn", "media_close")
<1>1. /\ conn.goal = "retry" /\ MediaClosed("conn") /\ Answered("conn", "media_close")
      /\ \/ conn' = [conn EXCEPT !.goal = "sleep"] /\ cmds' = Tail(cmds) /\ UNCHANGED state
         \/ Fails(state)
      /\ UNCHANGED <<disc, poll>>
  BY DEF RetryClosed, MediaClosed, NoMore
<1>2. /\ ~state.signal_connected /\ ~state.media_open /\ ~Invalidating /\ poll.pc = "idle"
      /\ backend.signal = "none"
      /\ backend'.signal = "none" /\ backend'.inbox = <<>> /\ ~backend'.media
      /\ backend'.zt = backend.zt
      /\ state.connecting /\ conn \in ConnRecords /\ "media_close" \in Ops
  BY <1>1, CleanedFacts DEF Past
<1>3. CASE conn' = [conn EXCEPT !.goal = "sleep"] /\ cmds' = Tail(cmds) /\ UNCHANGED state
  <2>1. ConnMoves(h, Nothing)
    BY <1>1, <1>2, <1>3, ConnTakes
  <2>2. conn'.goal = "sleep" /\ conn'.epoch = conn.epoch
    BY <1>2, <1>3 DEF ConnRecords
  <2>3. ~state'.invalidated
    BY <1>1, <1>3 DEF BackendInv, ConnCloses
  <2> HIDE DEF h
  <2> QED
    BY <1>1, <1>2, <1>3, <2>1, <2>2, <2>3, ConnPreparesStep DEF BackendInv, ZtView
<1>4. CASE Fails(state)
  <2>1. /\ ConnMoves(h, Cmd("conn", "signal_close")) /\ state' = SignalDown(state)
        /\ conn'.goal = "fail" /\ conn'.epoch = conn.epoch
    BY <1>1, <1>2, <1>4, FailsFields
  <2> HIDE DEF h
  <2> QED
    BY <1>1, <1>2, <2>1, StateTyped, ConnClosesStep
<1> QED
  BY <1>1, <1>3, <1>4

LEMMA RetryWakesBackend == ASSUME Inv, BackendInv, RetryWakes PROVE BackendInv'
<1>1. /\ conn.goal = "sleep" /\ UNCHANGED <<backend, disc, poll>>
      /\ \/ state' = Finished(state, FALSE) /\ conn' = NoConn /\ UNCHANGED cmds
         \/ /\ ~should_stop(state, conn) /\ conn' = [conn EXCEPT !.goal = "open", !.tries = @ + 1]
            /\ cmds' = Append(cmds, Cmd("conn", "signal_connect")) /\ UNCHANGED state
  BY DEF RetryWakes
<1>2. ~Holds(cmds, Calls("conn", Ops)) /\ state.connecting /\ conn \in ConnRecords
  BY <1>1, ConnCalls, StateTyped DEF Inv, SessionInv, ConnOK
<1>3. /\ ~state.signal_connected /\ ~state.invalidated /\ ~state.media_open /\ ~backend.media
      /\ ~Invalidating /\ poll.pc = "idle" /\ backend.signal = "none"
  BY <1>1, PastFacts DEF Past, BackendInv, LinkOrder, ConnCloses
<1>4. CASE state' = Finished(state, FALSE) /\ conn' = NoConn /\ UNCHANGED cmds
  <2>1. ConnMoves(Nothing, Nothing)
    BY <1>2, <1>4, ConnFree
  <2> QED
    BY <1>1, <1>3, <1>4, <2>1, StateTyped, NothingIsNoCall, ConnEndsStep DEF Alike
<1>5. CASE /\ ~should_stop(state, conn) /\ conn' = [conn EXCEPT !.goal = "open", !.tries = @ + 1]
           /\ cmds' = Append(cmds, Cmd("conn", "signal_connect")) /\ UNCHANGED state
  <2>1. ConnMoves(Nothing, Cmd("conn", "signal_connect"))
    BY <1>2, <1>5, ConnFree DEF Ops
  <2>2. conn'.goal = "open" /\ conn'.epoch = conn.epoch
    BY <1>2, <1>5 DEF ConnRecords
  <2>3. ~state.manual_disconnect /\ "signal_connect" \in OpensSignal
    BY <1>5 DEF should_stop, OpensSignal
  <2> QED
    BY <1>1, <1>2, <1>3, <1>5, <2>1, <2>2, <2>3, ConnOpensSignalStep
<1> QED
  BY <1>1, <1>4, <1>5

LEMMA FailClosedBackend == ASSUME Inv, BackendInv, FailClosed PROVE BackendInv'
<1> DEFINE h == Cmd("conn", "media_close")
           retry == IF conn.goal = "fail" THEN state.auto_reconnect ELSE conn.again
<1>1. /\ conn.goal \in {"fail", "refuse"} /\ MediaClosed("conn") /\ Answered("conn", "media_close")
      /\ Ends(state, retry) /\ UNCHANGED <<disc, poll>>
  BY DEF FailClosed, MediaClosed
<1>2. /\ ~state.media_open /\ backend.signal = "none" /\ backend.inbox = <<>>
      /\ backend'.signal = "none" /\ backend'.inbox = <<>> /\ ~backend'.media
      /\ backend'.zt = backend.zt /\ "media_close" \in Ops /\ h \notin Closers
  BY <1>1, CleanedFacts DEF Past
<1>3. ConnMoves(h, Nothing) /\ state' = Finished(state, retry) /\ conn' = NoConn
  BY <1>1, <1>2, ConnTakes DEF Ends, NoMore
<1> HIDE DEF h, retry
<1> QED
  BY <1>1, <1>2, <1>3, StateTyped, ConnEndsStep DEF Alike

-------------------------------------------------------------------------------
(* Closing the transports, and disconnect_all                                  *)

LEMMA SignalClosedBackend ==
  ASSUME Inv, BackendInv, NEW by \in {"conn", "disc", "inval"}, SignalClosed(by)
  PROVE  BackendInv'
<1> DEFINE h == Cmd(by, "signal_close")
           c == Cmd(by, "media_close")
<1>1. /\ Answered(by, "signal_close") /\ cmds' = Append(Tail(cmds), c)
      /\ backend' = [backend EXCEPT !.signal = "none", !.inbox = <<>>]
      /\ state' = MediaDown(state) /\ UNCHANGED <<conn, disc, poll>>
  BY DEF SignalClosed, Then
<1>2. by \in Callers /\ "signal_close" \in Ops /\ "media_close" \in Ops
  BY DEF Callers, Ops
<1>3. MoveFacts(cmds, cmds', h, c)
  <2>1. Moved(cmds, cmds', h, c)
    BY <1>1, <1>2, PopsPushes
  <2> QED
    BY <1>2, <2>1, NothingIsNoCall, QueueFacts
<1>4. /\ backend'.signal = "none" /\ backend'.inbox = <<>>
      /\ backend'.zt = backend.zt /\ backend'.media = backend.media
  BY <1>1 DEF Inv, RestTypes, BackendRecords
<1>5. /\ ~state'.media_open /\ state'.connecting = state.connecting
      /\ state'.manual_disconnect = state.manual_disconnect /\ state'.epoch = state.epoch
      /\ state'.zt_started = state.zt_started /\ state'.invalidated = state.invalidated
      /\ state'.signal_pump = state.signal_pump /\ state'.signal_connected = state.signal_connected
  BY <1>1, StateTyped DEF MediaDown, StateRecords
<1>6. /\ \A who, ops : h \in Calls(who, ops) <=> who = by /\ "signal_close" \in ops
      /\ \A who, ops : c \in Calls(who, ops) <=> who = by /\ "media_close" \in ops
      /\ h \in Closers /\ c \notin Closers /\ h \notin Vouchers /\ c \notin Vouchers
      /\ \A who \in Callers : \A ops : Nothing \notin Calls(who, ops)
      /\ Nothing \notin Closers /\ Nothing \notin Vouchers
  BY <1>2, CallsMember, NothingIsNoCall
<1>7. by = "conn" => conn.goal # "none"
  BY <1>1, <1>2, ConnTakes
<1> HIDE DEF h, c
<1>8. ConnView' /\ DiscView'
  BY <1>1, <1>3, <1>5, <1>6
     DEF BackendInv, ConnView, DiscView, MoveFacts, Callers, Ops, OpensSignal, OpensMedia
<1>9. PollView' /\ ZtView' /\ ConnCloses'
  BY <1>1, <1>3, <1>4, <1>5, <1>6
     DEF BackendInv, PollView, ZtView, ConnCloses, Past, MoveFacts, Callers
<1>10. InvalView'
  BY <1>1, <1>3, <1>4, <1>5, <1>6
     DEF BackendInv, InvalView, Past, Invalidating, MoveFacts, Callers
<1>11. DiscOrder' /\ PollOrder'
  BY <1>1, <1>3, <1>4, <1>5, <1>6
     DEF BackendInv, DiscOrder, PollOrder, Past, MoveFacts, Callers, OpensSignal, OpensMedia
<1>12. LinkOrder'
  <2> SUFFICES ASSUME state.signal_connected
               PROVE  /\ conn.goal = "prepare" => Preceded(cmds', Calls("conn", Ops), Calls("send", Ops))
                      /\ Holds(cmds', Vouchers) \/ LossUnread'
    BY <1>1, <1>4, <1>5 DEF LinkOrder, BackendInv
  <2>1. conn.goal = "prepare" => Preceded(cmds', Calls("conn", Ops), Calls("send", Ops))
    BY <1>3, <1>6 DEF BackendInv, LinkOrder, MoveFacts, Callers, Ops
  <2>2. backend.signal # "none" => Holds(cmds', Vouchers)
    BY <1>3, <1>6 DEF BackendInv, LinkOrder, MoveFacts
  <2>3. backend.signal = "none" => Holds(cmds', Vouchers) \/ LossUnread'
    BY <1>1, <1>3, <1>6 DEF BackendInv, LinkOrder, LossUnread, Linked, ZtView, MoveFacts
  <2> QED
    BY <2>1, <2>2, <2>3
<1>13. Served' /\ Closed'
  <2>1. by = "disc" => disc = "closing"
    BY <1>2, <1>3, <1>6 DEF BackendInv, DiscView, MoveFacts, Callers
  <2>2. by = "inval" => Invalidating'
    BY <1>3, <1>6 DEF Invalidating, MoveFacts, Callers
  <2> QED
    BY <1>1, <1>5, <1>7, <2>1, <2>2 DEF Served, Closed
<1> QED
  BY <1>8, <1>9, <1>10, <1>11, <1>12, <1>13 DEF BackendInv

(* The start click probes the media link and sends its message, or             *)
(* disconnect_all begins by stopping the encoder.                              *)
LEMMA SendStep ==
  ASSUME Inv, BackendInv, NEW h, NEW c, Moved(cmds, cmds', h, c),
         h = Nothing \/ h = Cmd("start", "media_send"),
         c = Nothing \/ c = Cmd("send", "signal_send") \/ c = Cmd("start", "media_send"),
         state'.connecting = state.connecting, state'.signal_pump = state.signal_pump,
         state'.zt_started = state.zt_started, state'.invalidated = state.invalidated,
         state'.media_open = state.media_open, state'.media_pump = state.media_pump,
         state'.signal_connected = state.signal_connected,
         \/ /\ state'.epoch = state.epoch /\ state'.manual_disconnect = state.manual_disconnect
            /\ disc' = disc
         \/ state'.manual_disconnect /\ disc = "idle" /\ disc' = "stopping",
         UNCHANGED <<backend, conn, poll>>
  PROVE  BackendInv'
<1>1. MoveFacts(cmds, cmds', h, c)
  BY NothingIsNoCall, QueueFacts DEF Callers, Ops
<1>2. /\ \A who \in Callers : \A ops : c \in Calls(who, ops) => who \in {"send", "start"}
      /\ \A who \in Callers : \A ops : h \in Calls(who, ops) => who = "start"
      /\ c \notin Closers /\ h \notin Closers /\ h \notin Vouchers
      /\ \A who \in Callers : \A ops : Nothing \notin Calls(who, ops)
      /\ Nothing \notin Closers /\ Nothing \notin Vouchers
  BY CallsMember, NothingIsNoCall
<1>3. ConnView' /\ DiscView' /\ PollView' /\ ZtView' /\ ConnCloses'
  BY <1>1, <1>2 DEF BackendInv, ConnView, DiscView, PollView, ZtView, ConnCloses, Past,
     MoveFacts, Callers
<1>4. InvalView' /\ (Invalidating' <=> Invalidating)
  BY <1>1, <1>2 DEF BackendInv, InvalView, Past, Invalidating, MoveFacts, Callers
<1>5. DiscOrder' /\ PollOrder'
  BY <1>1, <1>2 DEF BackendInv, DiscOrder, PollOrder, Past, MoveFacts, Callers
<1>6. LinkOrder'
  BY <1>1, <1>2 DEF BackendInv, LinkOrder, LossUnread, Linked, MoveFacts, Callers
<1>7. Served' /\ Closed'
  BY <1>4 DEF BackendInv, Served, Closed
<1> QED
  BY <1>3, <1>4, <1>5, <1>6, <1>7 DEF BackendInv

LEMMA StartClickedBackend == ASSUME Inv, BackendInv, StartClicked PROVE BackendInv'
<1>1. PICK role \in Roles :
        LET s == [state EXCEPT !.start_requested = TRUE, !.role = role]
        IN /\ state' = s /\ UNCHANGED <<backend, conn, disc, poll>>
           /\ \/ cmds' = cmds \o Sends(s) \/ cmds' = cmds
              \/ cmds' = Append(cmds, Cmd("start", "media_send"))
  BY DEF StartClicked
<1> DEFINE s == [state EXCEPT !.start_requested = TRUE, !.role = role]
<1>2. Same(state, s)
  BY StateTyped, RolesAssumption DEF StateRecords, Same, Alike
<1> HIDE DEF s
<1>3. "start" \in Callers /\ "media_send" \in Ops
  BY DEF Callers, Ops
<1>4. PICK c \in {Nothing, Cmd("send", "signal_send"), Cmd("start", "media_send")} :
           Moved(cmds, cmds', Nothing, c)
  BY <1>1, <1>3, SendPushes, Pushes, Stays DEF Sent, s
<1>5. state' = s /\ UNCHANGED <<backend, conn, disc, poll>>
  BY <1>1 DEF s
<1> QED
  BY <1>2, <1>4, <1>5, SendStep DEF Same, Alike

LEMMA StartGoesOnBackend ==
  ASSUME Inv, BackendInv, StartProbed \/ SharePipelineStarted PROVE BackendInv'
<1>1. UNCHANGED <<state, backend, conn, disc, poll>>
  BY DEF StartProbed, SharePipelineStarted
<1>2. PICK h \in {Nothing, Cmd("start", "media_send")}, c \in {Nothing, Cmd("send", "signal_send")} :
           Moved(cmds, cmds', h, c)
  <2>1. CASE StartProbed
    <3>1. "start" \in Callers /\ "media_send" \in Ops
      BY DEF Callers, Ops
    <3>2. /\ Answered("start", "media_send")
          /\ cmds' = Tail(cmds) \o Sends(state) \/ cmds' = Tail(cmds)
      BY <2>1 DEF StartProbed, NoMore
    <3> QED
      BY <3>1, <3>2, PopSendPushes, Pops DEF Sent
  <2>2. CASE SharePipelineStarted
    BY <2>2, SendPushes, Stays DEF SharePipelineStarted, Sent
  <2> QED
    BY <2>1, <2>2
<1> QED
  BY <1>1, <1>2, SendStep DEF Alike

(* disconnect_all closes the transports, behind the message it may have sent.  *)
LEMMA DiscClosesStep ==
  ASSUME Inv, BackendInv, disc # "closing", disc' = "closing",
         NEW b \in {Nothing, Cmd("send", "signal_send")},
         NEW q \in Seq(Commands), Moved(cmds, q, Nothing, b),
         NEW s \in StateRecords, Closes("disc", s, q), s.connecting = state.connecting,
         s.zt_started = state.zt_started, s.invalidated = state.invalidated,
         s.media_open = state.media_open,
         \/ s.epoch = state.epoch /\ s.manual_disconnect = state.manual_disconnect
         \/ s.manual_disconnect,
         UNCHANGED <<backend, conn, poll>>
  PROVE  BackendInv'
<1> DEFINE c == Cmd("disc", "signal_close")
<1>1. /\ MoveFacts(cmds, q, Nothing, b) /\ MoveFacts(q, cmds', Nothing, c)
      /\ state' = SignalDown(s)
  <2>1. "disc" \in Callers /\ "signal_close" \in Ops /\ "send" \in Callers /\ "signal_send" \in Ops
    BY DEF Callers, Ops
  <2>2. b \in Commands \/ b = Nothing
    BY <2>1, NothingIsNoCall
  <2>3. Moved(q, cmds', Nothing, c) /\ c \in Commands
    BY <2>1, NothingIsNoCall DEF Moved, Closes
  <2> QED
    BY <2>2, <2>3, CmdsType, MovedFacts DEF Closes
<1>2. /\ Alike(s, state') /\ state'.connecting = s.connecting
      /\ ~state'.signal_pump /\ ~state'.signal_connected
  BY <1>1, SignalDownFields
<1>3. /\ \A who, ops : c \in Calls(who, ops) <=> who = "disc" /\ "signal_close" \in ops
      /\ \A who \in Callers : \A ops : b \in Calls(who, ops) => who = "send"
      /\ \A who \in Callers : \A ops : Nothing \notin Calls(who, ops)
  BY CallsMember, NothingIsNoCall
<1> HIDE DEF c
<1>4. ConnView' /\ PollView' /\ ZtView' /\ ConnCloses'
  BY <1>1, <1>2, <1>3 DEF BackendInv, ConnView, PollView, ZtView, ConnCloses, Past,
     MoveFacts, Callers, Alike
<1>5. DiscView' /\ InvalView'
  BY <1>1, <1>2, <1>3 DEF BackendInv, DiscView, InvalView, Past, Invalidating,
     MoveFacts, Callers, Alike
<1>6. DiscOrder' /\ PollOrder'
  BY <1>1, <1>2, <1>3 DEF BackendInv, DiscOrder, PollOrder, Past, MoveFacts, Callers
<1>7. LinkOrder' /\ Served' /\ Closed'
  BY <1>2 DEF LinkOrder, Served, Closed
<1> QED
  BY <1>4, <1>5, <1>6, <1>7 DEF BackendInv

LEMMA DisconnectClickedBackend == ASSUME Inv, BackendInv, DisconnectClicked PROVE BackendInv'
<1> DEFINE s == [state EXCEPT !.epoch = @ + 1, !.manual_disconnect = TRUE,
                   !.auto_reconnect = FALSE, !.resetting = TRUE, !.timer = NoTimer,
                   !.offline_timer = FALSE]
           ended == IF s.role = "share" /\ s.start_requested THEN cmds \o Sends(s) ELSE cmds
<1>1. /\ disc = "idle" /\ UNCHANGED <<backend, conn, poll>>
      /\ \/ state' = s /\ disc' = "stopping" /\ cmds' = ended
         \/ disc' = "closing" /\ Closes("disc", s, ended)
  BY DEF DisconnectClicked
<1>2. state.epoch + 1 \in 0 .. MaxEpoch
  BY StateTyped, Numbers DEF DisconnectClicked, StateRecords
<1>3. /\ s \in StateRecords /\ s.manual_disconnect /\ s.connecting = state.connecting
      /\ s.zt_started = state.zt_started /\ s.invalidated = state.invalidated
      /\ s.media_open = state.media_open /\ s.media_pump = state.media_pump
      /\ s.signal_pump = state.signal_pump /\ s.signal_connected = state.signal_connected
  BY <1>2, StateTyped, Numbers DEF StateRecords, NoTimer
<1>4. PICK b \in {Nothing, Cmd("send", "signal_send")} :
           Moved(cmds, ended, Nothing, b) /\ ended \in Seq(Commands)
  <2>1. cmds \in Seq(Commands) /\ Cmd("send", "signal_send") \in Commands
    BY CmdsType, NothingIsNoCall DEF Callers, Ops
  <2>2. ended \in {cmds, Append(cmds, Cmd("send", "signal_send"))}
    BY <2>1, SendsIs
  <2>3. Cmd("send", "signal_send") # Nothing
    BY NothingIsNoCall DEF Callers, Ops
  <2> HIDE DEF ended
  <2> QED
    BY <2>1, <2>2, <2>3, AppendProperties DEF Moved
<1> HIDE DEF s, ended
<1>5. CASE state' = s /\ disc' = "stopping" /\ cmds' = ended
  <2>1. Moved(cmds, cmds', Nothing, b)
    BY <1>4, <1>5
  <2> QED
    BY <1>1, <1>3, <1>5, <2>1, SendStep
<1>6. CASE disc' = "closing" /\ Closes("disc", s, ended)
  BY <1>1, <1>3, <1>4, <1>6, DiscClosesStep
<1> QED
  BY <1>1, <1>5, <1>6

LEMMA PipelineStoppedBackend == ASSUME Inv, BackendInv, PipelineStopped PROVE BackendInv'
<1>1. Moved(cmds, cmds, Nothing, Nothing) /\ cmds \in Seq(Commands)
  BY CmdsType DEF Moved
<1> QED
  BY <1>1, StateTyped, DiscClosesStep DEF PipelineStopped

(* The end of disconnect_all, with libzt stopped before or by this step.       *)
LEMMA DisconnectedStepBackend ==
  ASSUME Inv, BackendInv, NEW op \in {"media_close", "zt_stop"}, Answered("disc", op),
         cmds' = Tail(cmds), disc' = "idle", op = "zt_stop" \/ backend.signal = "none",
         state'.connecting = state.connecting, state'.signal_pump = state.signal_pump,
         state'.epoch = state.epoch, state'.manual_disconnect = state.manual_disconnect,
         state'.signal_connected = state.signal_connected,
         ~state'.media_open, ~state'.invalidated, state'.zt_started = FALSE,
         backend'.zt = FALSE, ~backend'.media, backend'.signal = "none", backend'.inbox = <<>>,
         UNCHANGED <<conn, poll>>
  PROVE  BackendInv'
<1> DEFINE h == Cmd("disc", op)
<1>1. MoveFacts(cmds, cmds', h, Nothing)
  <2>1. "disc" \in Callers /\ op \in Ops
    BY DEF Callers, Ops
  <2> QED
    BY <2>1, Pops, QueueFacts
<1>2. /\ \A who, ops : h \in Calls(who, ops) <=> who = "disc" /\ op \in ops
      /\ \A who \in Callers : \A ops : Nothing \notin Calls(who, ops)
      /\ h \notin Vouchers /\ (op = "zt_stop" => h \in Closers)
      /\ Nothing \notin Closers /\ Nothing \notin Vouchers
  BY CallsMember, NothingIsNoCall DEF Callers
<1>3. disc = "closing"
  BY <1>1, <1>2 DEF BackendInv, DiscView, MoveFacts, Callers, Ops
<1> HIDE DEF h
<1>4. ConnView' /\ PollView' /\ ZtView' /\ ConnCloses'
  BY <1>1, <1>2 DEF BackendInv, ConnView, PollView, ZtView, ConnCloses, Past, MoveFacts, Callers
<1>5. DiscView' /\ InvalView'
  BY <1>1, <1>2 DEF BackendInv, DiscView, InvalView, Past, Invalidating, MoveFacts, Callers, Ops
<1>6. DiscOrder' /\ PollOrder'
  <2>1. /\ Holds(cmds', Calls("disc", {"signal_close"})) <=> Holds(cmds, Calls("disc", {"signal_close"}))
    BY <1>1, <1>2 DEF MoveFacts, Callers
  <2> QED
    BY <1>1, <1>2, <1>3, <2>1 DEF BackendInv, DiscOrder, PollOrder, Past, MoveFacts, Callers
<1>7. LinkOrder'
  <2> SUFFICES ASSUME state.signal_connected
               PROVE  /\ conn.goal = "prepare" => Preceded(cmds', Calls("conn", Ops), Calls("send", Ops))
                      /\ Holds(cmds', Vouchers) \/ LossUnread'
    BY DEF LinkOrder, BackendInv
  <2>1. conn.goal = "prepare" => Preceded(cmds', Calls("conn", Ops), Calls("send", Ops))
    BY <1>1, <1>2 DEF BackendInv, LinkOrder, MoveFacts, Callers
  <2>2. backend.signal # "none" => Holds(cmds', Vouchers)
    BY <1>1, <1>2 DEF BackendInv, LinkOrder, MoveFacts
  <2>3. backend.signal = "none" => Holds(cmds', Vouchers) \/ LossUnread'
    BY <1>1, <1>2 DEF BackendInv, LinkOrder, LossUnread, Linked, ZtView, MoveFacts
  <2> QED
    BY <2>1, <2>2, <2>3
<1>8. Served' /\ Closed'
  BY DEF Served, Closed
<1> QED
  BY <1>4, <1>5, <1>6, <1>7, <1>8 DEF BackendInv

LEMMA DiscClosedBackend == ASSUME Inv, BackendInv, DiscClosed PROVE BackendInv'
<1>1. /\ Answered("disc", "media_close") /\ backend' = [backend EXCEPT !.media = FALSE]
      /\ UNCHANGED <<conn, poll>>
      /\ \/ /\ cmds' = Append(Tail(cmds), Cmd("disc", "zt_stop")) /\ UNCHANGED <<state, disc>>
         \/ ~state.zt_started /\ Disconnected(state)
  BY DEF DiscClosed, MediaClosed, Then
<1>2. /\ backend'.zt = backend.zt /\ ~backend'.media
      /\ backend'.signal = backend.signal /\ backend'.inbox = backend.inbox
  BY <1>1 DEF Inv, RestTypes, BackendRecords
<1>3. CASE ~state.zt_started /\ Disconnected(state)
  <2>1. /\ cmds' = Tail(cmds) /\ disc' = "idle"
        /\ state'.connecting = state.connecting /\ state'.signal_pump = state.signal_pump
        /\ state'.epoch = state.epoch /\ state'.manual_disconnect = state.manual_disconnect
        /\ state'.signal_connected = state.signal_connected
        /\ ~state'.media_open /\ ~state'.invalidated /\ state'.zt_started = FALSE
    BY <1>3, StateTyped DEF Disconnected, NoMore, StateRecords
  <2>2. backend'.zt = FALSE /\ backend.signal = "none" /\ backend.inbox = <<>>
    BY <1>2, <1>3, StateTyped DEF BackendInv, ZtView, StateRecords
  <2> QED
    BY <1>1, <1>2, <2>1, <2>2, DisconnectedStepBackend
<1>4. CASE cmds' = Append(Tail(cmds), Cmd("disc", "zt_stop")) /\ UNCHANGED <<state, disc>>
  <2> DEFINE h == Cmd("disc", "media_close")
             c == Cmd("disc", "zt_stop")
  <2>1. MoveFacts(cmds, cmds', h, c)
    <3>1. "disc" \in Callers /\ "media_close" \in Ops /\ "zt_stop" \in Ops
      BY DEF Callers, Ops
    <3> QED
      BY <1>1, <1>4, <3>1, PopsPushes, NothingIsNoCall, QueueFacts
  <2>2. /\ \A who, ops : h \in Calls(who, ops) <=> who = "disc" /\ "media_close" \in ops
        /\ \A who, ops : c \in Calls(who, ops) <=> who = "disc" /\ "zt_stop" \in ops
        /\ \A who \in Callers : \A ops : Nothing \notin Calls(who, ops)
        /\ h \notin Vouchers /\ c \notin Vouchers /\ h \notin Closers
        /\ Nothing \notin Closers /\ Nothing \notin Vouchers
    BY CallsMember, NothingIsNoCall
  <2> HIDE DEF h, c
  <2>3. disc = "closing" /\ Holds(cmds, Calls("disc", {"media_close"}))
    BY <2>1, <2>2 DEF BackendInv, DiscView, MoveFacts, Callers, Ops
  <2>4. ConnView' /\ PollView' /\ ZtView' /\ ConnCloses'
    BY <1>1, <1>2, <1>4, <2>1, <2>2
       DEF BackendInv, ConnView, PollView, ZtView, ConnCloses, Past, MoveFacts, Callers
  <2>5. DiscView' /\ InvalView'
    BY <1>1, <1>2, <1>4, <2>1, <2>2
       DEF BackendInv, DiscView, InvalView, Past, Invalidating, MoveFacts, Callers, Ops
  <2>6. DiscOrder' /\ PollOrder'
    BY <1>1, <1>2, <1>4, <2>1, <2>2
       DEF BackendInv, DiscOrder, PollOrder, Past, MoveFacts, Callers
  <2>7. LinkOrder'
    <3> SUFFICES ASSUME state.signal_connected
                 PROVE  backend.signal = "none" /\ LinkOrder'
      BY <1>4 DEF LinkOrder
    <3>1. backend.signal = "none"
      <4> SUFFICES ASSUME backend.signal # "none" PROVE FALSE
        OBVIOUS
      <4>1. Holds(cmds', Calls("conn", OpensMedia))
        BY <2>1, <2>2 DEF BackendInv, DiscOrder, MoveFacts, Callers
      <4>2. Holds(cmds, Calls("conn", OpensMedia))
        BY <2>1, <2>2, <4>1 DEF MoveFacts, Callers
      <4> QED
        BY <4>2 DEF BackendInv, ConnView, LinkOrder
    <3> QED
      BY <1>1, <1>2, <1>4, <2>1, <2>2, <3>1
         DEF BackendInv, LinkOrder, LossUnread, Linked, MoveFacts, Callers
  <2>8. Served' /\ Closed'
    BY <1>4, <2>3 DEF Served, Closed
  <2> QED
    BY <2>4, <2>5, <2>6, <2>7, <2>8 DEF BackendInv
<1> QED
  BY <1>1, <1>3, <1>4

LEMMA ZtStoppedBackend == ASSUME Inv, BackendInv, ZtStopped PROVE BackendInv'
<1> DEFINE s == [state EXCEPT !.zt_started = FALSE, !.node_online = FALSE,
                   !.host_ip = FALSE, !.event_pump = FALSE]
<1>1. /\ Answered("disc", "zt_stop") /\ Disconnected(s) /\ UNCHANGED <<conn, poll>>
      /\ backend' = [backend EXCEPT !.zt = FALSE, !.online = FALSE, !.ip = FALSE,
                       !.media = FALSE, !.signal = "none", !.inbox = <<>>]
  BY DEF ZtStopped
<1>2. s \in StateRecords /\ Same(state, [s EXCEPT !.zt_started = state.zt_started]) /\ ~s.zt_started
  BY StateTyped, ZenonT(40) DEF StateRecords, Same, Alike
<1> HIDE DEF s
<1>3. /\ cmds' = Tail(cmds) /\ disc' = "idle"
      /\ state'.connecting = s.connecting /\ state'.signal_pump = s.signal_pump
      /\ state'.epoch = s.epoch /\ state'.manual_disconnect = s.manual_disconnect
      /\ state'.signal_connected = s.signal_connected
      /\ ~state'.media_open /\ ~state'.invalidated /\ state'.zt_started = FALSE
  BY <1>1, <1>2 DEF Disconnected, NoMore, StateRecords
<1>4. /\ s.connecting = state.connecting /\ s.signal_pump = state.signal_pump
      /\ s.epoch = state.epoch /\ s.manual_disconnect = state.manual_disconnect
      /\ s.signal_connected = state.signal_connected
  BY <1>2 DEF Same, Alike, StateRecords
<1>5. backend'.zt = FALSE /\ ~backend'.media /\ backend'.signal = "none" /\ backend'.inbox = <<>>
  BY <1>1 DEF Inv, RestTypes, BackendRecords
<1> QED
  BY <1>1, <1>3, <1>4, <1>5, DisconnectedStepBackend

-------------------------------------------------------------------------------
(* The offline watch                                                           *)

LEMMA EventsPolledBackend == ASSUME Inv, BackendInv, EventsPolled PROVE BackendInv'
<1>1. /\ state' = HandleZtEvents(state, backend.events) /\ UNCHANGED <<cmds, conn, disc, poll>>
      /\ backend' = [backend EXCEPT !.events = <<>>]
  BY DEF EventsPolled
<1>2. Same(state, state')
  BY <1>1, StateTyped, EventsSame
<1>3. UNCHANGED <<backend.zt, backend.media, backend.signal, backend.inbox>>
  BY <1>1 DEF Inv, RestTypes, BackendRecords
<1> QED
  BY <1>1, <1>2, <1>3, Bystander DEF Same

LEMMA InvalidatesStepBackend ==
  ASSUME Inv, BackendInv, NEW s \in StateRecords, Same(state, s), Invalidates(s),
         UNCHANGED <<backend, conn, disc, poll>>
  PROVE  BackendInv'
<1> DEFINE c == Cmd("inval", "signal_close")
           t == [s EXCEPT !.invalidated = TRUE, !.resetting = TRUE]
<1>1. MoveFacts(cmds, cmds', Nothing, c) /\ state' = SignalDown(t)
      /\ ~s.connecting /\ ~s.manual_disconnect
  <2>1. "inval" \in Callers /\ "signal_close" \in Ops
    BY DEF Callers, Ops
  <2> QED
    BY <2>1, Pushes, NothingIsNoCall, QueueFacts DEF Invalidates, MayInvalidate, Closes
<1>2. /\ t \in StateRecords /\ t.invalidated /\ t.media_open = s.media_open
      /\ t.manual_disconnect = s.manual_disconnect /\ t.epoch = s.epoch
      /\ t.zt_started = s.zt_started /\ t.connecting = s.connecting
  BY DEF StateRecords
<1> HIDE DEF t
<1>3. /\ state'.media_open = state.media_open /\ ~state'.manual_disconnect
      /\ state'.zt_started = state.zt_started /\ ~state'.connecting /\ ~state.connecting
      /\ state'.invalidated /\ ~state'.signal_pump /\ ~state'.signal_connected
  BY <1>1, <1>2, SignalDownFields DEF Same, Alike
<1>4. conn.goal = "none"
  BY <1>3 DEF BackendInv, ConnView
<1>5. \A ops \in SUBSET Ops : ~Holds(cmds, Calls("conn", ops))
  BY <1>4, ConnCalls, HoldsMore DEF Inv, SessionInv
<1>6. /\ \A who, ops : c \in Calls(who, ops) <=> who = "inval" /\ "signal_close" \in ops
      /\ \A who \in Callers : \A ops : Nothing \notin Calls(who, ops)
  BY CallsMember, NothingIsNoCall
<1> HIDE DEF c
<1>7. /\ ~Holds(cmds', Calls("conn", OpensSignal)) /\ ~Holds(cmds', Calls("conn", OpensMedia))
      /\ ~Holds(cmds', Calls("conn", {"media_close"})) /\ ~Holds(cmds', Calls("conn", {"signal_close"}))
  <2>1. \A ops \in SUBSET Ops : ~Holds(cmds', Calls("conn", ops))
    BY <1>1, <1>5, <1>6 DEF MoveFacts, Callers
  <2> QED
    BY <2>1 DEF Ops, OpensSignal, OpensMedia
<1>8. ConnView' /\ DiscView' /\ PollView'
  BY <1>1, <1>3, <1>4, <1>6, <1>7 DEF BackendInv, ConnView, DiscView, PollView, MoveFacts, Callers
<1>9. ZtView' /\ ConnCloses'
  BY <1>3, <1>4, <1>7 DEF BackendInv, ZtView, ConnCloses, Past
<1>10. InvalView' /\ Invalidating'
  BY <1>1, <1>3, <1>4, <1>6, <1>7 DEF BackendInv, InvalView, Past, Invalidating, MoveFacts, Callers
<1>11. DiscOrder' /\ PollOrder'
  BY <1>1, <1>3, <1>4, <1>6, <1>7 DEF BackendInv, DiscOrder, PollOrder, Past, MoveFacts, Callers
<1>12. LinkOrder' /\ Served' /\ Closed'
  BY <1>3, <1>10 DEF LinkOrder, Served, Closed
<1> QED
  BY <1>8, <1>9, <1>10, <1>11, <1>12 DEF BackendInv

LEMMA OfflineBackend ==
  ASSUME Inv, BackendInv, SoftOffline \/ OfflineTimerFires PROVE BackendInv'
<1> DEFINE s == [state EXCEPT !.offline_timer = FALSE]
           had_session == \/ s.signal_connected \/ s.signal_listening
                          \/ s.media_open \/ s.start_requested
           t == IF s.node_online THEN s ELSE [s EXCEPT !.need_restore = had_session]
<1>1. /\ UNCHANGED <<backend, conn, disc, poll>>
      /\ Invalidates(state) \/ (state' = t /\ UNCHANGED cmds) \/ Invalidates(t)
  BY DEF SoftOffline, OfflineTimerFires
<1>2. s \in StateRecords /\ Same(state, s) /\ had_session \in BOOLEAN
  BY StateTyped DEF StateRecords, Same, Alike
<1> HIDE DEF s, had_session
<1>3. t \in StateRecords /\ Same(s, t)
  BY <1>2 DEF StateRecords, Same, Alike
<1> HIDE DEF t
<1>4. Same(state, t) /\ Same(state, state)
  BY <1>2, <1>3 DEF Same, Alike
<1>5. CASE Invalidates(state)
  BY <1>1, <1>4, <1>5, StateTyped, InvalidatesStepBackend
<1>6. CASE state' = t /\ UNCHANGED cmds
  BY <1>1, <1>4, <1>6, Bystander DEF Same
<1>7. CASE Invalidates(t)
  BY <1>1, <1>3, <1>4, <1>7, InvalidatesStepBackend
<1> QED
  BY <1>1, <1>5, <1>6, <1>7

LEMMA InvalClosedBackend == ASSUME Inv, BackendInv, InvalClosed PROVE BackendInv'
<1> DEFINE h == Cmd("inval", "media_close")
<1>1. /\ Answered("inval", "media_close") /\ backend' = [backend EXCEPT !.media = FALSE]
      /\ state' = [state EXCEPT !.resetting = FALSE] /\ cmds' = Tail(cmds)
      /\ UNCHANGED <<conn, disc, poll>>
  BY DEF InvalClosed, MediaClosed, NoMore
<1>2. MoveFacts(cmds, cmds', h, Nothing)
  <2>1. "inval" \in Callers /\ "media_close" \in Ops
    BY DEF Callers, Ops
  <2> QED
    BY <1>1, <2>1, Pops, QueueFacts
<1>3. /\ backend'.zt = backend.zt /\ ~backend'.media
      /\ backend'.signal = backend.signal /\ backend'.inbox = backend.inbox
  BY <1>1 DEF Inv, RestTypes, BackendRecords
<1>4. Same(state, state')
  BY <1>1, StateTyped DEF StateRecords, Same, Alike
<1>5. /\ \A who, ops : h \in Calls(who, ops) <=> who = "inval" /\ "media_close" \in ops
      /\ \A who \in Callers : \A ops : Nothing \notin Calls(who, ops)
      /\ h \notin Vouchers /\ h \notin Closers
      /\ Nothing \notin Closers /\ Nothing \notin Vouchers
  BY CallsMember, NothingIsNoCall
<1> HIDE DEF h
<1>6. ~state.media_open /\ backend.signal = "none"
  BY <1>2, <1>5 DEF BackendInv, InvalView, MoveFacts, Callers
<1>7. ConnView' /\ DiscView' /\ PollView'
  BY <1>1, <1>2, <1>4, <1>5
     DEF BackendInv, ConnView, DiscView, PollView, MoveFacts, Callers, Same, Alike
<1>8. ZtView' /\ ConnCloses'
  BY <1>1, <1>2, <1>3, <1>4, <1>5
     DEF BackendInv, ZtView, ConnCloses, Past, MoveFacts, Callers, Same, Alike
<1>9. InvalView'
  BY <1>1, <1>2, <1>3, <1>4, <1>5
     DEF BackendInv, InvalView, Past, Invalidating, MoveFacts, Callers, Same, Alike
<1>10. DiscOrder' /\ PollOrder'
  BY <1>1, <1>2, <1>3, <1>4, <1>5
     DEF BackendInv, DiscOrder, PollOrder, Past, MoveFacts, Callers, Same, Alike
<1>11. LinkOrder'
  BY <1>1, <1>2, <1>3, <1>4, <1>5
     DEF BackendInv, LinkOrder, LossUnread, Linked, MoveFacts, Callers, Same, Alike
<1>12. Served' /\ Closed'
  BY <1>3, <1>4, <1>6 DEF Served, Closed, Same, Alike
<1> QED
  BY <1>7, <1>8, <1>9, <1>10, <1>11, <1>12 DEF BackendInv

-------------------------------------------------------------------------------
(* The signal pump                                                             *)

LEMMA PollTickBackend == ASSUME Inv, BackendInv, PollTick PROVE BackendInv'
<1> DEFINE c == Cmd("poll", "signal_poll")
<1>1. /\ state.signal_pump /\ poll = NoPoll /\ state' = [state EXCEPT !.poll_busy = TRUE]
      /\ poll' = [poll EXCEPT !.pc = "called"] /\ cmds' = Append(cmds, c)
      /\ UNCHANGED <<backend, conn, disc>>
  BY DEF PollTick
<1>2. MoveFacts(cmds, cmds', Nothing, c)
  <2>1. "poll" \in Callers /\ "signal_poll" \in Ops
    BY DEF Callers, Ops
  <2> QED
    BY <1>1, <2>1, Pushes, NothingIsNoCall, QueueFacts
<1>3. Same(state, state')
  BY <1>1, StateTyped DEF StateRecords, Same, Alike
<1>4. poll.pc = "idle" /\ poll'.pc = "called" /\ poll.lines = <<>> /\ poll'.lines = <<>>
  BY <1>1 DEF NoPoll
<1>5. /\ \A who, ops : c \in Calls(who, ops) <=> who = "poll" /\ "signal_poll" \in ops
      /\ \A who \in Callers : \A ops : Nothing \notin Calls(who, ops)
      /\ c \notin Closers /\ c \notin Vouchers
      /\ Nothing \notin Closers /\ Nothing \notin Vouchers
  BY CallsMember, NothingIsNoCall
<1>6. conn.goal = "none"
  BY <1>1 DEF BackendInv, ConnView
<1>7. ~Holds(cmds, Calls("conn", {"media_close"}))
  <2>1. ~Holds(cmds, Calls("conn", Ops))
    BY <1>6, ConnCalls DEF Inv, SessionInv
  <2> QED
    BY <2>1, HoldsMore DEF Ops
<1> HIDE DEF c
<1>8. ConnView' /\ DiscView' /\ ZtView' /\ ConnCloses'
  BY <1>1, <1>2, <1>3, <1>5 DEF BackendInv, ConnView, DiscView, ZtView, ConnCloses, Past,
     MoveFacts, Callers, Same, Alike
<1>9. PollView'
  <2>1. /\ ~Holds(cmds, Calls("poll", Ops)) /\ ~Holds(cmds, Calls("poll", {"set_peer"}))
        /\ ~Holds(cmds, Calls("poll", {"media_send"}))
    BY <1>4 DEF BackendInv, PollView
  <2> QED
    BY <1>2, <1>4, <1>5, <2>1 DEF BackendInv, PollView, MoveFacts, Callers, Ops
<1>10. InvalView' /\ (Invalidating' <=> Invalidating)
  BY <1>1, <1>2, <1>3, <1>5 DEF BackendInv, InvalView, Past, Invalidating, MoveFacts, Callers,
     Same, Alike
<1>11. DiscOrder' /\ PollOrder'
  BY <1>1, <1>2, <1>3, <1>5, <1>6, <1>7
     DEF BackendInv, DiscOrder, PollOrder, Past, MoveFacts, Callers, Same, Alike
<1>12. LinkOrder'
  BY <1>1, <1>2, <1>3, <1>4, <1>5
     DEF BackendInv, LinkOrder, LossUnread, Linked, MoveFacts, Callers, Same, Alike
<1>13. Served' /\ Closed'
  BY <1>1, <1>3, <1>10 DEF BackendInv, Served, Closed, Same, Alike
<1> QED
  BY <1>8, <1>9, <1>10, <1>11, <1>12, <1>13 DEF BackendInv

(* The pump reads the inbox, handles a line or has a call answered.  It may    *)
(* send a message, b, and go on to a call of its own, c; what it then shows as *)
(* connected is vouched for.                                                   *)
LEMMA PumpStep ==
  ASSUME Inv, BackendInv, NEW h, NEW b \in {Nothing, Cmd("send", "signal_send")},
         NEW q \in Seq(Commands), Moved(cmds, q, h, b),
         NEW c, Moved(q, cmds', Nothing, c),
         \/ h = Nothing /\ poll.pc = "lines"
         \/ h = Cmd("poll", "signal_poll") \/ h = Cmd("poll", "set_peer")
         \/ h = Cmd("poll", "media_send"),
         \/ c = Nothing
         \/ c = Cmd("poll", "set_peer") /\ state.media_open
         \/ c = Cmd("poll", "media_send") /\ state.media_open,
         poll'.pc = "set_peer" <=> c = Cmd("poll", "set_peer"),
         poll'.pc = "feedback" <=> c = Cmd("poll", "media_send"),
         poll'.pc # "called", poll'.pc = "idle" => poll'.lines = <<>>,
         Alike(state, state'), state'.connecting = state.connecting,
         state'.signal_pump = state.signal_pump,
         UNCHANGED <<backend.zt, backend.media, backend.signal, conn, disc>>,
         backend'.inbox \in {backend.inbox, <<>>},
         state'.signal_connected =>
           \/ b # Nothing \/ c = Cmd("poll", "set_peer")
           \/ state.signal_connected /\ h # Cmd("poll", "set_peer") /\ (LossUnread => LossUnread')
  PROVE  BackendInv'
<1>1. MoveFacts(cmds, q, h, b) /\ MoveFacts(q, cmds', Nothing, c)
  <2>1. (b \in Commands \/ b = Nothing) /\ (c \in Commands \/ c = Nothing)
    BY NothingIsNoCall DEF Callers, Ops
  <2> QED
    BY <2>1, CmdsType, MovedFacts
<1>2. /\ \A who \in Callers : \A ops : h \in Calls(who, ops) => who = "poll"
      /\ \A who \in Callers : \A ops : b \in Calls(who, ops) => who = "send"
      /\ \A who \in Callers : \A ops : c \in Calls(who, ops) => who = "poll"
      /\ c \in Calls("poll", {"set_peer"}) <=> c = Cmd("poll", "set_peer")
      /\ c \in Calls("poll", {"media_send"}) <=> c = Cmd("poll", "media_send")
      /\ c \in Calls("poll", Ops) <=> c # Nothing
      /\ c \notin Calls("poll", {"signal_poll"})
      /\ h # Nothing => h \in Calls("poll", Ops)
      /\ b # Nothing => b \in Vouchers
      /\ c = Cmd("poll", "set_peer") => c \in Vouchers
      /\ h \in Vouchers => h = Cmd("poll", "set_peer")
      /\ \A who \in Callers : \A ops : Nothing \notin Calls(who, ops)
      /\ h \notin Closers /\ b \notin Closers /\ c \notin Closers
      /\ Nothing \notin Closers /\ Nothing \notin Vouchers
  BY CallsMember, NothingIsNoCall DEF Callers, Ops
<1>3. /\ h \in Calls("poll", Ops) \/ (h = Nothing /\ poll.pc = "lines")
      /\ c # Nothing => state.media_open
  BY CallsMember DEF Ops
<1>4. poll.pc # "idle" /\ ~Past
  <2>1. poll.pc # "idle"
    BY <1>1, <1>2, <1>3 DEF BackendInv, PollView, MoveFacts, Callers
  <2> QED
    BY <2>1 DEF BackendInv, PollOrder
<1>5. ConnView' /\ DiscView' /\ ZtView' /\ ConnCloses'
  BY <1>1, <1>2 DEF BackendInv, ConnView, DiscView, ZtView, ConnCloses, Past,
     MoveFacts, Callers, Alike
<1>6. PollView'
  <2>1. ~Holds(q, Calls("poll", Ops)) /\ Single(q, Calls("poll", Ops))
    <3>1. CASE h = Nothing
      <4>1. ~Holds(cmds, Calls("poll", Ops))
        BY <1>2, <1>3, <3>1 DEF BackendInv, PollView, Callers
      <4> QED
        BY <1>1, <1>2, <4>1 DEF BackendInv, PollView, MoveFacts, Callers
    <3>2. CASE h # Nothing
      BY <1>1, <1>2, <3>2 DEF BackendInv, PollView, MoveFacts, Callers
    <3> QED
      BY <3>1, <3>2
  <2>2. /\ ~Holds(q, Calls("poll", {"signal_poll"})) /\ ~Holds(q, Calls("poll", {"set_peer"}))
        /\ ~Holds(q, Calls("poll", {"media_send"}))
    BY <2>1, HoldsMore DEF Ops
  <2>3. /\ Holds(cmds', Calls("poll", {"signal_poll"})) <=> c \in Calls("poll", {"signal_poll"})
        /\ Holds(cmds', Calls("poll", {"set_peer"})) <=> c \in Calls("poll", {"set_peer"})
        /\ Holds(cmds', Calls("poll", {"media_send"})) <=> c \in Calls("poll", {"media_send"})
        /\ Holds(cmds', Calls("poll", Ops)) <=> c \in Calls("poll", Ops)
        /\ Single(cmds', Calls("poll", Ops))
    BY <1>1, <1>2, <2>1, <2>2 DEF MoveFacts, Callers
  <2> QED
    BY <1>2, <2>3 DEF PollView
<1>7. InvalView' /\ (Invalidating' <=> Invalidating)
  BY <1>1, <1>2 DEF BackendInv, InvalView, Past, Invalidating, MoveFacts, Callers, Alike
<1>8. DiscOrder' /\ PollOrder'
  <2>1. DiscOrder'
    BY <1>1, <1>2 DEF BackendInv, DiscOrder, MoveFacts, Callers, Alike
  <2>2. c # Nothing => ~Holds(cmds', Calls("conn", {"media_close"}))
    BY <1>1, <1>2, <1>3 DEF BackendInv, ConnCloses, MoveFacts, Callers
  <2> QED
    BY <1>1, <1>2, <1>4, <2>1, <2>2 DEF BackendInv, PollOrder, Past, MoveFacts, Callers
<1>9. LinkOrder'
  <2> SUFFICES ASSUME state'.signal_connected
               PROVE  /\ backend.signal = "none" \/ Followed(cmds', Closers, Vouchers)
                      /\ Holds(cmds', Vouchers) \/ LossUnread'
    BY <1>4 DEF LinkOrder, Past
  <2>1. CASE b # Nothing
    BY <1>1, <1>2, <2>1 DEF MoveFacts
  <2>2. CASE c = Cmd("poll", "set_peer")
    BY <1>1, <1>2, <2>2 DEF MoveFacts
  <2>3. CASE state.signal_connected /\ h # Cmd("poll", "set_peer") /\ (LossUnread => LossUnread')
    BY <1>1, <1>2, <2>3 DEF BackendInv, LinkOrder, MoveFacts
  <2> QED
    BY <2>1, <2>2, <2>3
<1>10. Served' /\ Closed'
  BY <1>7 DEF BackendInv, Served, Closed, Alike
<1> QED
  BY <1>5, <1>6, <1>7, <1>8, <1>9, <1>10 DEF BackendInv

LEMMA PollsFields ==
  ASSUME NEW s \in StateRecords, NEW lines, Polls(s, lines)
  PROVE  /\ Same(s, state') /\ poll'.lines = lines
         /\ poll'.pc \in {"idle", "lines"} /\ (poll'.pc = "idle" => poll'.lines = <<>>)
<1> DEFINE t == [s EXCEPT !.poll_busy = FALSE]
<1>1. Same(s, t) /\ Same(s, s)
  BY DEF StateRecords, Same, Alike
<1>2. \/ lines = <<>> /\ state' = t /\ poll' = NoPoll
      \/ state' = s /\ poll' = [pc |-> "lines", lines |-> lines]
  BY DEF Polls
<1> HIDE DEF t
<1> QED
  BY <1>1, <1>2 DEF NoPoll

LEMMA PollAnsweredBackend == ASSUME Inv, BackendInv, PollAnswered PROVE BackendInv'
<1> DEFINE h == Cmd("poll", "signal_poll")
<1>1. /\ Answered("poll", "signal_poll") /\ Polls(state, backend.inbox)
      /\ backend' = [backend EXCEPT !.inbox = <<>>] /\ cmds' = Tail(cmds) /\ UNCHANGED <<conn, disc>>
  BY DEF PollAnswered, NoMore
<1>2. /\ Moved(cmds, cmds', h, Nothing) /\ h # Nothing /\ h # Cmd("poll", "set_peer")
      /\ Nothing # Cmd("poll", "set_peer") /\ Nothing # Cmd("poll", "media_send")
  <2>1. "poll" \in Callers /\ "signal_poll" \in Ops
    BY DEF Callers, Ops
  <2> QED
    BY <1>1, <2>1, Pops, NothingIsNoCall DEF Cmd
<1>3. /\ Same(state, state') /\ poll'.lines = backend.inbox
      /\ poll'.pc \in {"idle", "lines"} /\ (poll'.pc = "idle" => poll'.lines = <<>>)
  BY <1>1, StateTyped, PollsFields
<1>4. /\ backend'.inbox = <<>>
      /\ UNCHANGED <<backend.zt, backend.media, backend.signal, conn, disc>>
  BY <1>1 DEF Inv, RestTypes, BackendRecords
<1>5. poll.lines = <<>> /\ poll.pc = "called"
  <2>1. Holds(cmds, Calls("poll", {"signal_poll"}))
    BY <1>1, CmdsType, HeadTailProperties, CallsMember DEF Answered, Holds
  <2> QED
    BY <2>1 DEF BackendInv, PollView
<1>6. LossUnread => LossUnread'
  BY <1>3, <1>4, <1>5 DEF LossUnread, Linked
<1>7. cmds' \in Seq(Commands) /\ Moved(cmds', cmds', Nothing, Nothing)
  BY <1>1, CmdsType, HeadTailProperties DEF Answered, Moved
<1> HIDE DEF h
<1> QED
  BY <1>2, <1>3, <1>4, <1>6, <1>7, PumpStep DEF Same, h

(* The join: a message is sent and for a started viewer a probe follows it.    *)
LEMMA JoinsBackend ==
  ASSUME Inv, BackendInv, NEW s \in StateRecords, NEW lines, NEW h, NEW q \in Seq(Commands),
         Joins(s, lines, q), Moved(cmds, q, h, Nothing),
         (h = Nothing /\ poll.pc = "lines") \/ h = Cmd("poll", "set_peer"),
         Alike(state, s), s.connecting = state.connecting, s.signal_pump = state.signal_pump,
         UNCHANGED <<backend, conn, disc>>
  PROVE  BackendInv'
<1> DEFINE b == Sent(s)
           r == q \o Sends(s)
<1>1. /\ b \in {Nothing, Cmd("send", "signal_send")} /\ (s.signal_connected => b # Nothing)
      /\ Cmd("poll", "set_peer") # Nothing /\ Cmd("poll", "media_send") # Nothing
      /\ Cmd("poll", "set_peer") # Cmd("poll", "media_send")
  BY NothingIsNoCall DEF Sent, Callers, Ops, Cmd
<1>2. r \in Seq(Commands) /\ Moved(cmds, r, h, b)
  <2>1. r = (IF s.signal_connected THEN Append(q, Cmd("send", "signal_send")) ELSE q)
    BY SendsIs
  <2>2. Cmd("send", "signal_send") \in Commands /\ Cmd("send", "signal_send") # Nothing
    BY NothingIsNoCall DEF Callers, Ops
  <2> HIDE DEF r
  <2> QED
    BY <2>1, <2>2, AppendProperties DEF Moved, Sent
<1> HIDE DEF b
<1>3. CASE Polls(s, lines) /\ cmds' = r
  <2>1. /\ Same(s, state') /\ poll'.pc \in {"idle", "lines"}
        /\ (poll'.pc = "idle" => poll'.lines = <<>>)
    BY <1>3, PollsFields
  <2>2. /\ Alike(state, state') /\ state'.connecting = state.connecting
        /\ state'.signal_pump = state.signal_pump /\ state'.signal_connected = s.signal_connected
    BY <2>1 DEF Same, Alike
  <2>3. Moved(r, cmds', Nothing, Nothing)
    BY <1>3 DEF Moved
  <2> HIDE DEF r
  <2> QED
    BY <1>1, <1>2, <2>1, <2>2, <2>3, PumpStep
<1>4. CASE /\ s.media_open /\ state' = s
           /\ poll' = [pc |-> "feedback", lines |-> lines]
           /\ cmds' = Append(r, Cmd("poll", "media_send"))
  <2>1. Moved(r, cmds', Nothing, Cmd("poll", "media_send"))
    BY <1>1, <1>4 DEF Moved
  <2>2. state.media_open /\ poll'.pc = "feedback"
    BY <1>4 DEF Alike
  <2> HIDE DEF r
  <2> QED
    BY <1>1, <1>2, <1>4, <2>1, <2>2, PumpStep
<1> QED
  BY <1>3, <1>4 DEF Joins

LEMMA PollPops ==
  ASSUME Inv, NEW op \in Ops, Answered("poll", op)
  PROVE  Moved(cmds, Tail(cmds), Cmd("poll", op), Nothing) /\ Tail(cmds) \in Seq(Commands)
<1>1. Cmd("poll", op) # Nothing
  BY NothingIsNoCall DEF Callers
<1> QED
  BY <1>1, CmdsType, HeadTailProperties DEF Answered, Moved

LEMMA PeerSetBackend == ASSUME Inv, BackendInv, PeerSet PROVE BackendInv'
<1> DEFINE h == Cmd("poll", "set_peer")
<1>1. /\ Answered("poll", "set_peer") /\ Joins(state, poll.lines, Tail(cmds))
      /\ UNCHANGED <<backend, conn, disc>>
  BY DEF PeerSet
<1>2. Moved(cmds, Tail(cmds), h, Nothing) /\ Tail(cmds) \in Seq(Commands)
  BY <1>1, PollPops DEF Ops
<1>3. Alike(state, state)
  BY DEF Alike
<1> HIDE DEF h
<1> QED
  BY <1>1, <1>2, <1>3, StateTyped, JoinsBackend DEF h

LEMMA FeedbackSentBackend == ASSUME Inv, BackendInv, FeedbackSent PROVE BackendInv'
<1> DEFINE h == Cmd("poll", "media_send")
<1>1. PICK lines \in {poll.lines, <<>>} : Polls(state, lines)
  BY DEF FeedbackSent
<1>2. Answered("poll", "media_send") /\ cmds' = Tail(cmds) /\ UNCHANGED <<backend, conn, disc>>
  BY DEF FeedbackSent, NoMore
<1>3. /\ Moved(cmds, cmds', h, Nothing) /\ cmds' \in Seq(Commands)
      /\ Moved(cmds', cmds', Nothing, Nothing)
  BY <1>2, PollPops DEF Ops, Moved
<1>4. /\ h # Cmd("poll", "set_peer") /\ Nothing # Cmd("poll", "set_peer")
      /\ Nothing # Cmd("poll", "media_send")
  BY NothingIsNoCall DEF Callers, Ops, Cmd
<1>5. /\ Same(state, state') /\ poll'.pc \in {"idle", "lines"}
      /\ (poll'.pc = "idle" => poll'.lines = <<>>)
  BY <1>1, StateTyped, PollsFields
<1>6. LossUnread => LossUnread'
  <2>1. Holds(cmds, Calls("poll", {"media_send"}))
    BY <1>2, CmdsType, HeadTailProperties, CallsMember DEF Answered, Holds
  <2>2. poll.pc = "feedback"
    BY <2>1 DEF BackendInv, PollView
  <2> QED
    BY <1>2, <2>2 DEF LossUnread, Linked
<1> HIDE DEF h
<1> QED
  BY <1>2, <1>3, <1>4, <1>5, <1>6, PumpStep DEF Same, h

LEMMA HandleLineBackend == ASSUME Inv, BackendInv, HandleLine PROVE BackendInv'
<1> DEFINE event == Head(poll.lines)
           rest == Tail(poll.lines)
           s == [state EXCEPT !.signal_connected = TRUE, !.attempts = 0, !.timer = NoTimer]
           t == [state EXCEPT !.signal_listening = TRUE]
<1>1. /\ poll.pc = "lines" /\ poll.lines \in Seq(Events) /\ poll.lines # <<>>
      /\ UNCHANGED <<backend, conn, disc>>
  BY DEF HandleLine, Inv, RestTypes, PollOK, PollRecords
<1>2. event \in Events /\ rest \in Seq(Events)
  BY <1>1, HeadTailProperties
<1>3. \/ event = "connected" /\ HandleConnected(rest)
      \/ event = "disconnected" /\ Polls(OnDisconnected(state), rest) /\ UNCHANGED cmds
      \/ event = "error" /\ Polls(OnError(state), rest) /\ UNCHANGED cmds
      \/ event = "listener_started" /\ Polls(t, rest) /\ UNCHANGED cmds
  BY <1>2 DEF HandleLine, Events
<1>4. /\ s \in StateRecords /\ Alike(state, s) /\ s.connecting = state.connecting
      /\ s.signal_pump = state.signal_pump /\ s.signal_connected
      /\ t \in StateRecords /\ Same(state, t)
  BY StateTyped, Numbers DEF StateRecords, NoTimer, Same, Alike
<1>5. event # "disconnected" /\ poll'.lines = rest /\ poll'.pc # "feedback" /\ UNCHANGED backend
      => (LossUnread => LossUnread')
  <2> SUFFICES ASSUME event # "disconnected", poll'.lines = rest, poll'.pc # "feedback",
                      UNCHANGED backend,
                      NEW i \in 1 .. Len(poll.lines), poll.lines[i] = "disconnected"
               PROVE  \E j \in 1 .. Len(rest) : rest[j] = "disconnected"
    BY DEF LossUnread, Linked
  <2>1. /\ Len(poll.lines) \in Nat /\ Len(rest) = Len(poll.lines) - 1 /\ event = poll.lines[1]
        /\ \A j \in 1 .. Len(rest) : rest[j] = poll.lines[j + 1]
    BY <1>1, HeadTailProperties
  <2> HIDE DEF event, rest
  <2>2. i # 1 /\ i - 1 \in 1 .. Len(rest) /\ (i - 1) + 1 = i
    BY <2>1
  <2> QED
    BY <2>1, <2>2
<1>6. /\ Cmd("poll", "set_peer") # Nothing /\ Cmd("poll", "media_send") # Nothing
      /\ Cmd("poll", "set_peer") # Cmd("poll", "media_send")
      /\ Moved(cmds, cmds, Nothing, Nothing) /\ cmds \in Seq(Commands)
  BY NothingIsNoCall, CmdsType DEF Callers, Cmd, Moved
<1>7. CASE event = "connected" /\ HandleConnected(rest)
  <2>1. \/ /\ state.media_open /\ state' = s
           /\ poll' = [pc |-> "set_peer", lines |-> rest]
           /\ cmds' = Append(cmds, Cmd("poll", "set_peer"))
        \/ Joins(s, rest, cmds)
    BY <1>4, <1>7 DEF HandleConnected, Alike
  <2> HIDE DEF s, rest
  <2>2. CASE /\ state.media_open /\ state' = s
             /\ poll' = [pc |-> "set_peer", lines |-> rest]
             /\ cmds' = Append(cmds, Cmd("poll", "set_peer"))
    <3>1. Moved(cmds, cmds', Nothing, Cmd("poll", "set_peer"))
      BY <2>2, Pushes DEF Callers, Ops
    <3> QED
      BY <1>1, <1>4, <1>6, <2>2, <3>1, PumpStep
  <2>3. CASE Joins(s, rest, cmds)
    BY <1>1, <1>4, <1>6, <2>3, JoinsBackend
  <2> QED
    BY <2>1, <2>2, <2>3
<1> HIDE DEF rest, t, event
<1>8. ASSUME NEW u \in StateRecords, Polls(u, rest), UNCHANGED cmds,
             Alike(state, u), u.connecting = state.connecting, u.signal_pump = state.signal_pump,
             u.signal_connected => state.signal_connected /\ event # "disconnected"
      PROVE  BackendInv'
  <2>1. /\ Same(u, state') /\ poll'.lines = rest /\ poll'.pc \in {"idle", "lines"}
        /\ (poll'.pc = "idle" => poll'.lines = <<>>)
    BY <1>8, PollsFields
  <2>2. Moved(cmds, cmds', Nothing, Nothing)
    BY <1>8, Stays
  <2>3. Alike(state, state') /\ state'.connecting = state.connecting
        /\ state'.signal_pump = state.signal_pump
        /\ state'.signal_connected = u.signal_connected
    BY <1>8, <2>1 DEF Same, Alike
  <2> QED
    BY <1>1, <1>5, <1>6, <1>8, <2>1, <2>2, <2>3, PumpStep
<1>9. /\ OnDisconnected(state) \in StateRecords /\ OnError(state) \in StateRecords
  BY StateTyped, LinkEventsKeep DEF Keeps, StateOK
<1>10. CASE event = "disconnected" /\ Polls(OnDisconnected(state), rest) /\ UNCHANGED cmds
  BY <1>8, <1>9, <1>10, StateTyped, LinkEventFields
<1>11. CASE event = "error" /\ Polls(OnError(state), rest) /\ UNCHANGED cmds
  BY <1>8, <1>9, <1>11, StateTyped, LinkEventFields DEF Same
<1>12. CASE event = "listener_started" /\ Polls(t, rest) /\ UNCHANGED cmds
  BY <1>4, <1>8, <1>12 DEF Same
<1> QED
  BY <1>3, <1>7, <1>10, <1>11, <1>12

LEMMA SendAnsweredBackend == ASSUME Inv, BackendInv, SendAnswered PROVE BackendInv'
<1> DEFINE h == Cmd("send", "signal_send")
           s == [state EXCEPT !.signal_connected = FALSE]
<1>1. /\ Answered("send", "signal_send") /\ cmds' = Tail(cmds) /\ UNCHANGED <<conn, disc, poll>>
      /\ \/ Linked(backend) /\ UNCHANGED <<state, backend>>
         \/ /\ state' \in {s, schedule_signal_reconnect(s)}
            /\ backend' = backend
               \/ (Linked(backend) /\ backend' = Push(backend, "error"))
  BY DEF SendAnswered, NoMore
<1>2. MoveFacts(cmds, cmds', h, Nothing)
  <2>1. "send" \in Callers /\ "signal_send" \in Ops
    BY DEF Callers, Ops
  <2> QED
    BY <1>1, <2>1, Pops, QueueFacts
<1>3. /\ s \in StateRecords /\ Alike(state, s) /\ s.connecting = state.connecting
      /\ s.signal_pump = state.signal_pump /\ ~s.signal_connected
  BY StateTyped DEF StateRecords, Alike
<1> HIDE DEF s
<1>4. /\ Alike(state, state') /\ state'.connecting = state.connecting
      /\ state'.signal_pump = state.signal_pump
      /\ state'.signal_connected => Linked(backend) /\ UNCHANGED <<state, backend>>
  BY <1>1, <1>3, ScheduleSame DEF Same, Alike
<1>5. /\ UNCHANGED <<backend.zt, backend.media, backend.signal>>
      /\ backend.signal = "none" => backend' = backend
  BY <1>1 DEF Linked, Push, Inv, RestTypes, BackendRecords
<1>6. /\ \A who, ops : h \in Calls(who, ops) => who = "send"
      /\ h \notin Closers
      /\ \A who \in Callers : \A ops : Nothing \notin Calls(who, ops)
      /\ Nothing \notin Closers /\ Nothing \notin Vouchers
  BY CallsMember, NothingIsNoCall
<1> HIDE DEF h
<1>7. ConnView' /\ DiscView' /\ PollView'
  BY <1>1, <1>2, <1>4, <1>6
     DEF BackendInv, ConnView, DiscView, PollView, MoveFacts, Callers, Alike
<1>8. ZtView' /\ ConnCloses'
  BY <1>1, <1>2, <1>4, <1>5, <1>6
     DEF BackendInv, ZtView, ConnCloses, Past, MoveFacts, Callers, Alike
<1>9. InvalView' /\ (Invalidating' <=> Invalidating)
  BY <1>1, <1>2, <1>4, <1>5, <1>6
     DEF BackendInv, InvalView, Past, Invalidating, MoveFacts, Callers, Alike
<1>10. DiscOrder' /\ PollOrder'
  BY <1>1, <1>2, <1>4, <1>5, <1>6
     DEF BackendInv, DiscOrder, PollOrder, Past, MoveFacts, Callers, Alike
<1>11. LinkOrder'
  BY <1>1, <1>2, <1>4, <1>6
     DEF BackendInv, ConnCloses, LinkOrder, LossUnread, Linked, MoveFacts, Callers
<1>12. Served' /\ Closed'
  BY <1>1, <1>4, <1>5, <1>9 DEF BackendInv, Served, Closed, Alike
<1> QED
  BY <1>7, <1>8, <1>9, <1>10, <1>11, <1>12 DEF BackendInv

-------------------------------------------------------------------------------
(* The environment, and all steps together                                     *)

(* The state of a signal transport changes while there is one.                 *)
LEMMA LinkStep ==
  ASSUME BackendInv, backend.signal # "none", backend'.signal # "none",
         UNCHANGED <<backend.zt, backend.media>>, LossUnread => LossUnread',
         UNCHANGED <<state, cmds, conn, disc, poll>>
  PROVE  BackendInv'
<1>1. ConnView' /\ DiscView' /\ PollView' /\ ZtView' /\ ConnCloses' /\ InvalView'
  BY DEF BackendInv, ConnView, DiscView, PollView, ZtView, ConnCloses, InvalView, Past, Invalidating
<1>2. DiscOrder' /\ PollOrder' /\ LinkOrder' /\ Served' /\ Closed'
  BY DEF BackendInv, DiscOrder, PollOrder, LinkOrder, Served, Closed, Past, Invalidating
<1> QED
  BY <1>1, <1>2 DEF BackendInv

LEMMA AppendedFields ==
  ASSUME NEW q \in Seq(Events), NEW event \in Events, NEW r, r = Append(q, event)
  PROVE  /\ \A i \in 1 .. Len(q) : i \in 1 .. Len(r) /\ r[i] = q[i]
         /\ \E i \in 1 .. Len(r) : r[i] = event
<1>1. /\ Len(r) = Len(q) + 1 /\ Len(q) \in Nat /\ r[Len(q) + 1] = event
      /\ \A i \in 1 .. Len(q) : r[i] = q[i]
  BY AppendProperties
<1>2. Len(q) + 1 \in 1 .. Len(r)
  BY <1>1
<1>3. \A i \in 1 .. Len(q) : i \in 1 .. Len(r)
  BY <1>1
<1> QED
  BY <1>1, <1>2, <1>3

LEMMA EnvironmentBackend == ASSUME Inv, BackendInv, Environment PROVE BackendInv'
<1>1. backend \in BackendRecords
  BY DEF Inv, RestTypes
<1>2. CASE ListenerReady \/ ListenerFails \/ PeerArrives \/ PeerLeaves
  <2>1. PICK link \in {"listen", "lost", "served"}, event \in Events :
           /\ Happens(Push([backend EXCEPT !.signal = link], event))
           /\ backend.signal # "none" /\ Len(backend.inbox) < MaxInbox
           /\ Linked(backend) => event = "disconnected"
    BY <1>2 DEF Linked, ListenerReady, ListenerFails, PeerArrives, PeerLeaves, Events, RoomInInbox
  <2>2. /\ backend' = Push([backend EXCEPT !.signal = link], event)
        /\ UNCHANGED <<state, cmds, conn, disc, poll>>
    BY <2>1 DEF Happens
  <2>3. /\ backend'.signal = link /\ UNCHANGED <<backend.zt, backend.media>>
        /\ \A i \in 1 .. Len(backend.inbox) :
             i \in 1 .. Len(backend'.inbox) /\ backend'.inbox[i] = backend.inbox[i]
        /\ \E i \in 1 .. Len(backend'.inbox) : backend'.inbox[i] = event
    <3>1. /\ backend'.signal = link /\ backend'.zt = backend.zt /\ backend'.media = backend.media
          /\ backend'.inbox = Append(backend.inbox, event)
      BY <1>1, <2>1, <2>2 DEF Push, BackendRecords
    <3>2. backend.inbox \in Seq(Events)
      BY <1>1 DEF BackendRecords
    <3> QED
      BY ONLY <3>1, <3>2, AppendedFields
  <2>4. LossUnread => LossUnread'
    BY <2>1, <2>2, <2>3 DEF LossUnread, Linked
  <2> QED
    BY <2>1, <2>2, <2>3, <2>4, LinkStep
<1>3. CASE IpAssigned \/ NodeGoesOffline \/ NodeComesOnline
  <2>1. /\ UNCHANGED <<backend.zt, backend.media, backend.signal, backend.inbox>>
        /\ UNCHANGED <<state, cmds, conn, disc, poll>>
    BY <1>1, <1>3 DEF IpAssigned, NodeGoesOffline, NodeComesOnline, Happens, BackendRecords
  <2> QED
    BY <2>1, Bystander DEF Alike
<1> QED
  BY <1>2, <1>3 DEF Environment

LEMMA InitBackend == Init => BackendInv
<1> SUFFICES ASSUME Init PROVE BackendInv
  OBVIOUS
<1>1. \A X : ~Holds(cmds, X)
  BY DEF Init, Holds
<1>2. \A X, Y : Single(cmds, X) /\ AllAhead(cmds, X, Y) /\ Followed(cmds, X, Y)
  BY DEF Init, Single, AllAhead, Followed
<1>3. ConnView /\ DiscView /\ PollView /\ ZtView
  BY <1>1, <1>2 DEF Init, NoConn, NoPoll, ConnView, DiscView, PollView, ZtView
<1>4. ConnCloses /\ InvalView /\ DiscOrder /\ PollOrder
  BY <1>1, <1>2 DEF Init, NoConn, NoPoll, ConnCloses, InvalView, DiscOrder, PollOrder, Past
<1>5. LinkOrder /\ Served /\ Closed
  BY DEF Init, LinkOrder, Served, Closed
<1> QED
  BY <1>3, <1>4, <1>5 DEF BackendInv

LEMMA NextBackend == ASSUME Inv, BackendInv, Next PROVE BackendInv'
<1>1. CASE poll.pc # "lines" /\ Clicks
  BY <1>1, ConnectClickedBackend, StartClickedBackend, DisconnectClickedBackend DEF Clicks
<1>2. CASE poll.pc # "lines" /\ Timers
  BY <1>2, ReconnectTimerBackend, RetryWakesBackend, WaitBackend DEF Timers
<1>3. CASE poll.pc # "lines" /\ Answers
  BY <1>3, SignalClosedBackend, ResetDoneBackend, ZtStartedBackend, IpReadBackend,
     SignalListensBackend, MediaListensBackend, SignalDialedBackend, MediaDialedBackend,
     RetryClosedBackend, FailClosedBackend, DiscClosedBackend, ZtStoppedBackend,
     InvalClosedBackend, PollAnsweredBackend, PeerSetBackend, FeedbackSentBackend,
     SendAnsweredBackend, StartGoesOnBackend DEF Answers
<1>4. CASE \/ SharePipelineStarted \/ PipelineStopped \/ EventsPolled
           \/ OfflineTimerFires \/ SoftOffline \/ PollTick
  BY <1>4, StartGoesOnBackend, PipelineStoppedBackend, EventsPolledBackend, OfflineBackend, PollTickBackend
<1> QED
  BY <1>1, <1>2, <1>3, <1>4, HandleLineBackend, EnvironmentBackend DEF Next

LEMMA BackendInvHolds == Spec => []BackendInv
<1>1. Inv /\ BackendInv /\ [Next]_vars => BackendInv'
  <2> SUFFICES ASSUME Inv, BackendInv, [Next]_vars PROVE BackendInv'
    OBVIOUS
  <2>1. CASE UNCHANGED vars
    BY <2>1, Bystander DEF vars, Alike
  <2> QED
    BY <2>1, NextBackend
<1> QED
  BY <1>1, InitBackend, InvariantHolds, PTL DEF Spec

-------------------------------------------------------------------------------
(* The theorems                                                                *)

LEMMA NotInvalidating == ASSUME Inv, ~Waits("inval") PROVE ~Invalidating
  BY NotWaiting DEF Invalidating

(* Transports that evaluate_libzt_soft_offline has given up are closed in the  *)
(* backend when it has run to its end, whatever ran between its two awaits.    *)
THEOREM GivenUpIsClosed == Spec => []InvalidatedIsClosed
<1>1. Inv /\ BackendInv => InvalidatedIsClosed
  BY NotInvalidating DEF BackendInv, ConnView, Closed, InvalidatedIsClosed
<1> QED
  BY <1>1, InvariantHolds, BackendInvHolds, PTL

(* A session shown as open, while no coroutine is changing it, has both pumps  *)
(* and a media socket: connect_channels, disconnect_all and the offline watch  *)
(* leave no half-open session.                                                 *)
THEOREM OpenSessionIsServed == Spec => []OpenIsServed
<1>1. Inv /\ BackendInv => OpenIsServed
  BY NotInvalidating DEF BackendInv, ConnView, Served, OpenIsServed
<1> QED
  BY <1>1, InvariantHolds, BackendInvHolds, PTL

LEMMA NoCommands == ASSUME cmds = <<>> PROVE \A X : ~Holds(cmds, X)
  BY DEF Holds

(* Nothing is in flight and no line is being handled.                          *)
LEMMA QuietLink ==
  ASSUME Inv, BackendInv, Quiet, state.signal_connected
  PROVE  \/ Linked(backend)
         \/ \E i \in DOMAIN backend.inbox : backend.inbox[i] = "disconnected"
<1>1. \A X : ~Holds(cmds, X)
  BY NoCommands DEF Quiet
<1>2. poll.lines = <<>>
  BY <1>1 DEF Quiet, BackendInv, PollView, Inv, RestTypes, PollOK, PollRecords
<1>3. LossUnread
  BY <1>1 DEF BackendInv, LinkOrder
<1>4. DOMAIN backend.inbox = 1 .. Len(backend.inbox)
  BY DEF Inv, RestTypes, BackendRecords
<1> QED
  BY <1>2, <1>3, <1>4 DEF LossUnread

(* When disconnect_all has run to its end the backend has given libzt back and *)
(* holds no transport, and the page shows no session and no link, also when    *)
(* the click came while connect_channels was starting libzt, opening the       *)
(* transports or publishing them, or while a poll or a probe was out.          *)
THEOREM DisconnectLeavesNothing == Spec => []DisconnectEndsSession
<1>1. Inv /\ BackendInv => DisconnectEndsSession
  <2> SUFFICES ASSUME Inv, BackendInv, Quiet, state.manual_disconnect
               PROVE  /\ ~backend.zt /\ ~backend.media /\ backend.signal = "none"
                      /\ ~state.media_open /\ ~state.signal_connected
    BY DEF DisconnectEndsSession
  <2>1. ~backend.zt /\ ~backend.media /\ backend.signal = "none" /\ backend.inbox = <<>>
    BY DEF BackendInv, ZtView, Quiet
  <2>2. ~state.media_open
    <3>1. ~Invalidating /\ conn.goal = "none"
      BY NoCommands DEF Invalidating, Quiet, BackendInv, ConnView
    <3> QED
      BY <2>1, <3>1 DEF BackendInv, Served, Quiet
  <2>3. ~state.signal_connected
    BY <2>1, QuietLink DEF Linked
  <2> QED
    BY <2>1, <2>2, <2>3
<1> QED
  BY <1>1, InvariantHolds, BackendInvHolds, PTL

(* The link that the page shows exists in the backend, or the event that says  *)
(* it is lost has yet to be read.                                              *)
THEOREM ShownLinkIsReal == Spec => []LinkIsReal
<1>1. Inv /\ BackendInv => LinkIsReal
  BY QuietLink DEF LinkIsReal
<1> QED
  BY <1>1, InvariantHolds, BackendInvHolds, PTL
===============================================================================

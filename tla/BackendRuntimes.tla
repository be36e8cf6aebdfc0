---------------------------- MODULE BackendRuntimes ----------------------------
(* Who closes the sockets of the Tauri backend (App/src-tauri/src/main.rs,     *)
(* module/signal.rs, module/media.rs, module/runtime.rs): the main thread,     *)
(* which runs the commands one at a time, a listener thread and a receive      *)
(* thread per runtime share each descriptor through an atomic that holds it    *)
(* or -1.  A command that replaces a runtime leaves its threads running.       *)
(*                                                                             *)
(* A descriptor is known by the socket it was created for, so the atomic of a  *)
(* runtime is a Boolean: it holds the runtime's own socket or nothing.  libzt  *)
(* may give a closed number to another socket; accept and recv may therefore   *)
(* return anything at any time.  Left out: the lines and packets that are      *)
(* received, the media peer, and the send worker (MediaSendQueue).             *)
EXTENDS Integers

CONSTANT MaxRuntimes   \* bound: runtimes started in a run

ASSUME RuntimesAssumption == MaxRuntimes \in Nat

Runtimes == 1 .. MaxRuntimes
Channels == {"signal", "media"}
Opening == {"signal_listen", "signal_connect", "media_open"}
Commands == Opening \cup {"signal_close", "media_close", "stop", "stop_media"}

VARIABLES
  made,      \* runtimes started so far
  slot,      \* SIGNAL_RUNTIME and MEDIA_RUNTIME: a runtime, or 0
  runtime,   \* its channel, its stop flag and its atomics; fd is conn_fd, too
  socket,    \* history: "open" from socket or accept to the first close;
             \* "over" when a connection was accepted while one was open
  listener,  \* listener thread: where it is and what its swaps returned
  receiver,  \* receive thread: where it is and what its swap returned
  main       \* main thread: its command, the runtime it closes and its swaps

vars == <<made, slot, runtime, socket, listener, receiver, main>>

Thread(pc) == [pc |-> pc, fd |-> FALSE, listen_fd |-> FALSE]
Idle == [pc |-> "idle", cmd |-> "signal_close", r |-> 0, fd |-> FALSE, listen_fd |-> FALSE]

ListenerPcs == {"none", "socket", "store", "test", "accept", "publish", "join",
                "swap_listen", "close", "close_listen", "done"}
ReceiverPcs(channel) ==
  {"none", "test", "recv", "close", "done"}
    \cup IF channel = "media" THEN {"load", "swap"} ELSE {"compare", "clear"}
AnyReceiverPc == ReceiverPcs("signal") \cup ReceiverPcs("media")
MainPcs == {"idle", "swap", "swap_listen", "close", "close_listen", "join", "open", "stopped"}
Life == {"none", "open", "closed", "again", "over"}

TypeOK ==
  /\ made \in 0 .. MaxRuntimes
  /\ slot \in [Channels -> 0 .. made]
  /\ runtime \in [Runtimes -> [channel : Channels, stop : BOOLEAN,
                               fd : BOOLEAN, listen_fd : BOOLEAN]]
  /\ socket \in [Runtimes -> [fd : Life, listen_fd : Life]]
  /\ listener \in [Runtimes -> [pc : ListenerPcs, fd : BOOLEAN, listen_fd : BOOLEAN]]
  /\ receiver \in [Runtimes -> [pc : AnyReceiverPc, fd : BOOLEAN, listen_fd : BOOLEAN]]
  /\ \A r \in Runtimes :
       /\ receiver[r].pc \in ReceiverPcs(runtime[r].channel)
       /\ runtime[r].channel = "media" => listener[r].pc = "none"
  /\ main \in [pc : MainPcs, cmd : Commands, r : 0 .. made, fd : BOOLEAN, listen_fd : BOOLEAN]

Init ==
  /\ made = 0
  /\ slot = [c \in Channels |-> 0]
  /\ runtime = [r \in Runtimes |-> [channel |-> "signal", stop |-> FALSE,
                                    fd |-> FALSE, listen_fd |-> FALSE]]
  /\ socket = [r \in Runtimes |-> [fd |-> "none", listen_fd |-> "none"]]
  /\ listener = [r \in Runtimes |-> Thread("none")]
  /\ receiver = [r \in Runtimes |-> Thread("none")]
  /\ main = Idle

(* zt_close_fd does nothing with -1.                                           *)
Closed(life, held) == IF ~held THEN life ELSE IF life = "open" THEN "closed" ELSE "again"

-------------------------------------------------------------------------------
(* The main thread: closing                                                    *)

Channel(cmd) == IF cmd \in {"media_open", "media_close", "stop_media"} THEN "media" ELSE "signal"

(* Where a command goes on when its close is done.                             *)
Then(cmd) == IF cmd \in Opening THEN "open" ELSE IF cmd = "stop" THEN "stopped" ELSE "idle"

(* Mutant: the flag is not set.                                                *)
NotStopped(r) == runtime
Stopped(r) == [runtime EXCEPT ![r].stop = TRUE]

(* zt_signal_close_internal and zt_media_close_internal, to the stop flag.     *)
Takes(cmd) ==
  LET r == slot[Channel(cmd)]
  IN /\ main' = [Idle EXCEPT !.pc = IF r = 0 THEN Then(cmd) ELSE "swap", !.cmd = cmd, !.r = r]
     /\ slot' = [slot EXCEPT ![Channel(cmd)] = 0]
     /\ runtime' = IF r = 0 THEN runtime ELSE Stopped(r)
     /\ UNCHANGED <<made, socket, listener, receiver>>

Command(cmd) == main.pc = "idle" /\ Takes(cmd)

(* zt_stop closes the media runtime after the signal runtime.                  *)
StopsMedia == main.pc = "stopped" /\ Takes("stop_media")

(* The atomic's value is taken and -1 left; mutant: it is only read.           *)
KeepsAtomic(r, f) == runtime
TakesAtomic(r, f) == [runtime EXCEPT ![r][f] = FALSE]

CloseSwaps ==
  /\ main.pc = "swap"
  /\ main' = [main EXCEPT !.pc = "swap_listen", !.fd = runtime[main.r].fd]
  /\ runtime' = TakesAtomic(main.r, "fd")
  /\ UNCHANGED <<made, slot, socket, listener, receiver>>

(* A media runtime has no listen_fd.                                           *)
CloseSwapsListen ==
  /\ main.pc = "swap_listen"
  /\ main' = [main EXCEPT !.pc = "close", !.listen_fd = runtime[main.r].listen_fd]
  /\ runtime' = TakesAtomic(main.r, "listen_fd")
  /\ UNCHANGED <<made, slot, socket, listener, receiver>>

Closes ==
  /\ main.pc = "close"
  /\ main' = [main EXCEPT !.pc = "close_listen", !.fd = FALSE]
  /\ socket' = [socket EXCEPT ![main.r].fd = Closed(@, main.fd)]
  /\ UNCHANGED <<made, slot, runtime, listener, receiver>>

(* Only zt_stop waits for the runtime's threads.                               *)
ClosesListen ==
  /\ main.pc = "close_listen"
  /\ main' = [main EXCEPT !.listen_fd = FALSE,
                !.pc = IF main.cmd \in {"stop", "stop_media"} THEN "join" ELSE Then(main.cmd)]
  /\ socket' = [socket EXCEPT ![main.r].listen_fd = Closed(@, main.listen_fd)]
  /\ UNCHANGED <<made, slot, runtime, listener, receiver>>

Ended(r) == listener[r].pc \in {"none", "done"} /\ receiver[r].pc \in {"none", "done"}

(* join_runtime_threads; that of the send worker is in MediaSendQueue.         *)
Joins ==
  /\ main.pc = "join" /\ Ended(main.r)
  /\ main' = [main EXCEPT !.pc = Then(main.cmd)]
  /\ UNCHANGED <<made, slot, runtime, socket, listener, receiver>>

-------------------------------------------------------------------------------
(* The main thread: opening                                                    *)

(* libzt is not started, or socket, bind or connect fails: a socket that was   *)
(* created is closed on the spot.                                              *)
OpenFails ==
  /\ main.pc = "open"
  /\ main' = Idle
  /\ UNCHANGED <<made, slot, runtime, socket, listener, receiver>>

Starts(channel, fd) ==
  /\ main.pc = "open" /\ made < MaxRuntimes
  /\ made' = made + 1 /\ main' = Idle
  /\ runtime' = [runtime EXCEPT ![made + 1] = [channel |-> channel, stop |-> FALSE,
                                               fd |-> fd, listen_fd |-> FALSE]]
  /\ socket' = IF fd THEN [socket EXCEPT ![made + 1].fd = "open"] ELSE socket

OpensListener ==
  /\ main.cmd = "signal_listen" /\ Starts("signal", FALSE)
  /\ slot' = [slot EXCEPT !["signal"] = made + 1]
  /\ listener' = [listener EXCEPT ![made + 1] = Thread("socket")]
  /\ UNCHANGED receiver

Opens(channel) ==
  /\ Starts(channel, TRUE)
  /\ slot' = [slot EXCEPT ![channel] = made + 1]
  /\ receiver' = [receiver EXCEPT ![made + 1] = Thread("test")]
  /\ UNCHANGED listener

OpensConnection == main.cmd = "signal_connect" /\ Opens("signal")
OpensMedia == main.cmd = "media_open" /\ Opens("media")

(* set_media_peer fails (its connect, in a libzt without sendto): the error    *)
(* leaves start_media_runtime with the socket open and no thread to close it.  *)
MediaPeerFails ==
  /\ main.cmd = "media_open" /\ Starts("media", TRUE)
  /\ UNCHANGED <<slot, listener, receiver>>

-------------------------------------------------------------------------------
(* The listener thread of zt_signal_listen                                     *)

ListenerAt(r, pc) == listener[r].pc = pc /\ UNCHANGED <<made, slot, main>>
ListenerGoes(r, pc) == listener' = [listener EXCEPT ![r].pc = pc]

(* socket, bind or listen fails, and what was created is closed.               *)
ListenerFails(r) ==
  /\ ListenerAt(r, "socket") /\ ListenerGoes(r, "done")
  /\ UNCHANGED <<runtime, socket, receiver>>

ListenerCreates(r) ==
  /\ ListenerAt(r, "socket") /\ ListenerGoes(r, "store")
  /\ socket' = [socket EXCEPT ![r].listen_fd = "open"]
  /\ UNCHANGED <<runtime, receiver>>

(* Stored even if a close has looked for it already.                           *)
Stores(r) == ListenerGoes(r, "test") /\ runtime' = [runtime EXCEPT ![r].listen_fd = TRUE]

ListenerStores(r) ==
  /\ ListenerAt(r, "store") /\ Stores(r)
  /\ UNCHANGED <<socket, receiver>>

(* At the end conn_fd is swapped first.                                        *)
ListenerTests(r) ==
  /\ ListenerAt(r, "test")
  /\ \/ ~runtime[r].stop /\ ListenerGoes(r, "accept") /\ UNCHANGED runtime
     \/ /\ runtime[r].stop
        /\ listener' = [listener EXCEPT ![r].pc = "swap_listen", ![r].fd = runtime[r].fd]
        /\ runtime' = TakesAtomic(r, "fd")
  /\ UNCHANGED <<socket, receiver>>

AcceptFails(r) ==
  /\ ListenerAt(r, "accept") /\ ListenerGoes(r, "test")
  /\ UNCHANGED <<runtime, socket, receiver>>

Accepts(r) ==
  /\ ListenerAt(r, "accept") /\ ListenerGoes(r, "publish")
  /\ socket' = [socket EXCEPT ![r].fd = IF @ = "open" THEN "over" ELSE "open"]
  /\ UNCHANGED <<runtime, receiver>>

(* conn_fd is swapped and the receive thread spawned.  The swap returns -1:    *)
(* the receive thread that held an earlier connection has been joined.         *)
ListenerPublishes(r) ==
  /\ ListenerAt(r, "publish") /\ ListenerGoes(r, "join")
  /\ runtime' = [runtime EXCEPT ![r].fd = TRUE]
  /\ receiver' = [receiver EXCEPT ![r] = Thread("test")]
  /\ UNCHANGED socket

(* Mutant: the next connection is accepted at once.                            *)
NotAwaited(r) == TRUE
Awaited(r) == receiver[r].pc = "done"

ListenerJoins(r) ==
  /\ ListenerAt(r, "join") /\ Awaited(r)
  /\ ListenerGoes(r, "test")
  /\ UNCHANGED <<runtime, socket, receiver>>

ListenerSwaps(r) ==
  /\ ListenerAt(r, "swap_listen")
  /\ listener' = [listener EXCEPT ![r].pc = "close", ![r].listen_fd = runtime[r].listen_fd]
  /\ runtime' = TakesAtomic(r, "listen_fd")
  /\ UNCHANGED <<socket, receiver>>

ListenerCloses(r) ==
  /\ ListenerAt(r, "close") /\ ListenerGoes(r, "close_listen")
  /\ socket' = [socket EXCEPT ![r].fd = Closed(@, listener[r].fd)]
  /\ UNCHANGED <<runtime, receiver>>

ListenerEnds(r) ==
  /\ ListenerAt(r, "close_listen")
  /\ listener' = [listener EXCEPT ![r] = Thread("done")]
  /\ socket' = [socket EXCEPT ![r].listen_fd = Closed(@, listener[r].listen_fd)]
  /\ UNCHANGED <<runtime, receiver>>

ListenerStep(r) ==
  \/ ListenerFails(r) \/ ListenerCreates(r) \/ ListenerStores(r) \/ ListenerTests(r)
  \/ ListenerPublishes(r) \/ ListenerJoins(r) \/ ListenerSwaps(r)
  \/ ListenerCloses(r) \/ ListenerEnds(r)

-------------------------------------------------------------------------------
(* The receive threads: spawn_recv_thread and that of start_media_runtime      *)

ReceiverAt(r, pc) == receiver[r].pc = pc /\ UNCHANGED <<made, slot, main, listener>>
ReceiverGoes(r, pc) == receiver' = [receiver EXCEPT ![r].pc = pc]

IsMedia(r) == runtime[r].channel = "media"

(* Where a thread goes that has to end; mutant: both end in the same way.      *)
ExitAlike(r) == "compare"
Exit(r) == IF IsMedia(r) THEN "swap" ELSE "compare"

ReceiverTests(r) ==
  /\ ReceiverAt(r, "test")
  /\ ReceiverGoes(r, IF runtime[r].stop THEN Exit(r) ELSE IF IsMedia(r) THEN "load" ELSE "recv")
  /\ UNCHANGED <<runtime, socket>>

(* The media thread loads its descriptor before every call.                    *)
MediaLoads(r) ==
  /\ ReceiverAt(r, "load")
  /\ ReceiverGoes(r, IF runtime[r].fd THEN "recv" ELSE Exit(r))
  /\ UNCHANGED <<runtime, socket>>

Receives(r) ==
  /\ ReceiverAt(r, "recv") /\ ReceiverGoes(r, "test")
  /\ UNCHANGED <<runtime, socket>>

(* The peer has closed, or recv fails; the media thread tries again.           *)
ReceiveFails(r) ==
  /\ ReceiverAt(r, "recv")
  /\ ReceiverGoes(r, IF IsMedia(r) THEN "test" ELSE Exit(r))
  /\ UNCHANGED <<runtime, socket>>

(* conn_fd is loaded, compared, and reset by a store of its own.               *)
Compares(r) ==
  /\ ReceiverAt(r, "compare")
  /\ ReceiverGoes(r, IF runtime[r].fd THEN "clear" ELSE "close")
  /\ UNCHANGED <<runtime, socket>>

Clears(r) ==
  /\ ReceiverAt(r, "clear") /\ ReceiverGoes(r, "close")
  /\ runtime' = [runtime EXCEPT ![r].fd = FALSE]
  /\ UNCHANGED socket

MediaSwaps(r) ==
  /\ ReceiverAt(r, "swap")
  /\ receiver' = [receiver EXCEPT ![r].pc = "close", ![r].fd = runtime[r].fd]
  /\ runtime' = TakesAtomic(r, "fd")
  /\ UNCHANGED socket

(* The signal thread closes the descriptor it was given, whoever has it now.   *)
MayClose(r) == ~IsMedia(r) \/ receiver[r].fd

ReceiverEnds(r) ==
  /\ ReceiverAt(r, "close")
  /\ receiver' = [receiver EXCEPT ![r] = Thread("done")]
  /\ socket' = [socket EXCEPT ![r].fd = Closed(@, MayClose(r))]
  /\ UNCHANGED runtime

ReceiverStep(r) ==
  \/ ReceiverTests(r) \/ Compares(r) \/ Clears(r)
  \/ MediaLoads(r) \/ MediaSwaps(r) \/ ReceiverEnds(r)

-------------------------------------------------------------------------------
MainStep ==
  \/ StopsMedia \/ CloseSwaps \/ CloseSwapsListen \/ Closes \/ ClosesListen \/ Joins
  \/ OpenFails \/ OpensListener \/ OpensConnection \/ OpensMedia \/ MediaPeerFails

Next ==
  \/ \E cmd \in Commands \ {"stop_media"} : Command(cmd)
  \/ MainStep
  \/ \E r \in Runtimes :
       \/ ListenerStep(r) \/ AcceptFails(r) \/ Accepts(r)
       \/ ReceiverStep(r) \/ Receives(r) \/ ReceiveFails(r)

Spec == Init /\ [][Next]_vars

(* Threads are scheduled, and a call that blocks on a socket returns when the  *)
(* socket has been closed.                                                     *)
AcceptWakes(r) == socket[r].listen_fd # "open" /\ AcceptFails(r)
ReceiveWakes(r) == socket[r].fd # "open" /\ ReceiveFails(r)

FairSpec ==
  /\ Spec /\ WF_vars(MainStep)
  /\ \A r \in Runtimes :
       /\ WF_vars(ListenerStep(r)) /\ WF_vars(AcceptWakes(r))
       /\ WF_vars(ReceiverStep(r)) /\ WF_vars(ReceiveWakes(r))

-------------------------------------------------------------------------------
(* Properties                                                                  *)

(* The listening socket and the media socket are closed at most once, whoever  *)
(* comes first, the closing command or the thread that ends: a second close    *)
(* would hit the socket that has got the number meanwhile.                     *)
ClosedOnce ==
  \A r \in Runtimes :
    /\ socket[r].listen_fd # "again"
    /\ IsMedia(r) => socket[r].fd # "again"

(* When the threads of a runtime have ended, and the main thread is not about  *)
(* to close what it took from it, none of its sockets is open: neither one     *)
(* created behind the back of a close nor one whose close each side left to    *)
(* the other.  (A runtime whose start failed at its peer never had a thread.)  *)
HandedOver(r) == main.r = r /\ main.pc \in {"swap_listen", "close", "close_listen"}
NothingLeaks ==
  \A r \in Runtimes :
    Ended(r) /\ <<listener[r].pc, receiver[r].pc>> # <<"none", "none">> /\ ~HandedOver(r)
    => socket[r].fd # "open" /\ socket[r].listen_fd # "open"

(* A descriptor that is handed over by a swap is closed once and not forgotten. *)
ClosedExactlyOnce == ClosedOnce /\ NothingLeaks

(* A listener never holds two connections: it never accepts one while the one  *)
(* before is open, and conn_fd is free when it stores the new one there, so    *)
(* that none is overwritten and forgotten.                                     *)
OneConnection ==
  \A r \in Runtimes :
    /\ socket[r].fd # "over"
    /\ listener[r].pc = "publish" => ~runtime[r].fd

(* zt_stop, which runs on the main thread with the runtime's lock held, gets   *)
(* its listener and receive threads joined.                                    *)
StopReturns == main.pc = "join" ~> main.pc # "join"
===============================================================================

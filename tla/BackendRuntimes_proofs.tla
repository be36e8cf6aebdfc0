------------------------- MODULE BackendRuntimes_proofs -------------------------
(* Safety of the backend's descriptors for every number of runtimes.           *)
(*                                                                             *)
(* A descriptor that an atomic swap hands over is, at every moment, in one     *)
(* place: in the atomic, with the main thread or with the thread that ends.    *)
(* RuntimeInv says so of each runtime, and that the socket is open exactly     *)
(* while the descriptor is somewhere.                                          *)
EXTENDS BackendRuntimes, TLAPS

-------------------------------------------------------------------------------
(* The inductive invariant                                                     *)

(* Numbers above `made' have not been used.                                    *)
Fresh(r) ==
  r > made => /\ ~runtime[r].fd /\ ~runtime[r].listen_fd
              /\ socket[r].fd = "none" /\ socket[r].listen_fd = "none"
              /\ listener[r].pc = "none" /\ receiver[r].pc = "none"

(* Who holds the listening descriptor besides the atomic.                      *)
MainHasListen(r) == main.r = r /\ main.pc \in {"close", "close_listen"} /\ main.listen_fd
ThreadHasListen(r) ==
  \/ listener[r].pc = "store"
  \/ listener[r].pc \in {"close", "close_listen"} /\ listener[r].listen_fd

ListenOwned(r) ==
  /\ socket[r].listen_fd # "again"
  /\ listener[r].pc \in {"none", "socket"} => socket[r].listen_fd = "none"
  /\ socket[r].listen_fd = "open" <=>
       runtime[r].listen_fd \/ MainHasListen(r) \/ ThreadHasListen(r)
  /\ runtime[r].listen_fd => ~MainHasListen(r)
  /\ ThreadHasListen(r) => ~MainHasListen(r)
  /\ runtime[r].listen_fd =>
       listener[r].pc \in {"test", "accept", "publish", "join", "swap_listen"}

(* Who holds the media descriptor besides the atomic.                          *)
MainHasFd(r) == main.r = r /\ main.pc \in {"swap_listen", "close"} /\ main.fd
ThreadHasFd(r) == receiver[r].pc = "close" /\ receiver[r].fd

MediaOwned(r) ==
  IsMedia(r) =>
    /\ socket[r].fd \notin {"again", "over"}
    /\ socket[r].fd = "open" <=> runtime[r].fd \/ MainHasFd(r) \/ ThreadHasFd(r)
    /\ runtime[r].fd => ~MainHasFd(r) /\ ~ThreadHasFd(r)
    /\ ThreadHasFd(r) => ~MainHasFd(r)
    /\ receiver[r].pc \in {"close", "done"} => ~runtime[r].fd

(* A signal connection is open only until its receive thread has ended, and    *)
(* conn_fd holds it no longer than that.                                       *)
Connected(r) ==
  ~IsMedia(r) =>
    /\ socket[r].fd # "over"
    /\ socket[r].fd = "open" =>
         listener[r].pc = "publish" \/ receiver[r].pc \notin {"none", "done"}
    /\ receiver[r].pc \in {"none", "close", "done"} => ~runtime[r].fd
    /\ listener[r].pc \notin {"none", "join"} => receiver[r].pc \in {"none", "done"}

RuntimeInv(r) == Fresh(r) /\ ListenOwned(r) /\ MediaOwned(r) /\ Connected(r)

MainOK ==
  main.pc \in {"swap", "swap_listen", "close", "close_listen", "join"} => main.r \in 1 .. made

Inv == TypeOK /\ MainOK /\ \A r \in Runtimes : RuntimeInv(r)

LEMMA InitInv == Init => Inv
<1> SUFFICES ASSUME Init PROVE Inv
  OBVIOUS
<1>1. /\ made \in 0 .. MaxRuntimes /\ slot \in [Channels -> 0 .. made] /\ MainOK
      /\ main \in [pc : MainPcs, cmd : Commands, r : 0 .. made, fd : BOOLEAN, listen_fd : BOOLEAN]
  BY RuntimesAssumption DEF Init, MainOK, Idle, Commands, Opening, Channels, MainPcs
<1>3. /\ runtime \in [Runtimes -> [channel : Channels, stop : BOOLEAN,
                                   fd : BOOLEAN, listen_fd : BOOLEAN]]
      /\ socket \in [Runtimes -> [fd : Life, listen_fd : Life]]
  BY DEF Init, Channels, Life
<1>4. /\ listener \in [Runtimes -> [pc : ListenerPcs, fd : BOOLEAN, listen_fd : BOOLEAN]]
      /\ receiver \in [Runtimes -> [pc : AnyReceiverPc, fd : BOOLEAN, listen_fd : BOOLEAN]]
  BY DEF Init, Thread, ListenerPcs, AnyReceiverPc, ReceiverPcs
<1>5. \A r \in Runtimes : /\ receiver[r].pc \in ReceiverPcs(runtime[r].channel)
                          /\ runtime[r].channel = "media" => listener[r].pc = "none"
  BY DEF Init, Thread, ReceiverPcs
<1>2. ASSUME NEW r \in Runtimes PROVE RuntimeInv(r)
  BY DEF Init, RuntimeInv, Fresh, ListenOwned, MediaOwned, Connected, MainHasListen,
     MainHasFd, ThreadHasListen, ThreadHasFd, Idle, Thread, IsMedia
<1>6. TypeOK
  BY <1>1, <1>3, <1>4, <1>5 DEF TypeOK
<1> QED
  BY <1>1, <1>2, <1>6 DEF Inv

-------------------------------------------------------------------------------
(* The threads                                                                 *)

(* A thread's step concerns its own runtime.                                   *)
Untouched(q) ==
  /\ runtime'[q] = runtime[q] /\ socket'[q] = socket[q]
  /\ listener'[q] = listener[q] /\ receiver'[q] = receiver[q]

RuntimeTypes(r) ==
  /\ runtime[r] \in [channel : Channels, stop : BOOLEAN, fd : BOOLEAN, listen_fd : BOOLEAN]
  /\ socket[r] \in [fd : Life, listen_fd : Life]
  /\ listener[r] \in [pc : ListenerPcs, fd : BOOLEAN, listen_fd : BOOLEAN]
  /\ receiver[r] \in [pc : AnyReceiverPc, fd : BOOLEAN, listen_fd : BOOLEAN]
  /\ receiver[r].pc \in ReceiverPcs(runtime[r].channel)
  /\ runtime[r].channel = "media" => listener[r].pc = "none"

LEMMA TypesOf == TypeOK => \A r \in Runtimes : RuntimeTypes(r)
  BY DEF TypeOK, RuntimeTypes

LEMMA OthersKeep ==
  ASSUME Inv, NEW q \in Runtimes, UNCHANGED <<made, main>>, Untouched(q)
  PROVE  RuntimeInv(q)' /\ RuntimeTypes(q)'
<1>1. RuntimeInv(q) /\ RuntimeTypes(q)
  BY TypesOf DEF Inv
<1> QED
  BY <1>1 DEF Untouched, RuntimeInv, RuntimeTypes, Fresh, ListenOwned, MediaOwned,
     Connected, MainHasListen, MainHasFd, ThreadHasListen, ThreadHasFd, IsMedia

Functions ==
  /\ DOMAIN runtime = Runtimes /\ runtime = [r \in Runtimes |-> runtime[r]]
  /\ DOMAIN socket = Runtimes /\ socket = [r \in Runtimes |-> socket[r]]
  /\ DOMAIN listener = Runtimes /\ listener = [r \in Runtimes |-> listener[r]]
  /\ DOMAIN receiver = Runtimes /\ receiver = [r \in Runtimes |-> receiver[r]]

LEMMA FunctionsOf == TypeOK => Functions
  BY DEF TypeOK, Functions

LEMMA ThreadStep ==
  ASSUME Inv, NEW r \in Runtimes, UNCHANGED <<made, slot, main>>,
         \A q \in Runtimes \ {r} : Untouched(q),
         Functions', RuntimeTypes(r)', RuntimeInv(r)'
  PROVE  Inv'
<1>1. \A q \in Runtimes : RuntimeInv(q)' /\ RuntimeTypes(q)'
  BY OthersKeep
<1>2. TypeOK'
  BY <1>1 DEF Inv, TypeOK, RuntimeTypes, Functions
<1>3. MainOK'
  BY DEF Inv, MainOK
<1> QED
  BY <1>1, <1>2, <1>3 DEF Inv

(* What every step below is made of, and the invariant for one runtime.        *)
USE DEF ListenerAt, ListenerGoes, ReceiverAt, ReceiverGoes, Stores, TakesAtomic, Thread, Closed,
    Functions

LEMMA ListenerFailsKeeps == ASSUME Inv, NEW r \in Runtimes, ListenerFails(r) PROVE Inv'
<1>1. RuntimeTypes(r) /\ RuntimeInv(r) /\ Functions
  BY TypesOf, FunctionsOf DEF Inv
<1>2. /\ UNCHANGED <<made, slot, main>> /\ Functions'
      /\ \A q \in Runtimes \ {r} : Untouched(q)
  BY <1>1 DEF ListenerFails, Untouched
<1>3. RuntimeTypes(r)'
  BY <1>1, <1>2 DEF ListenerFails, IsMedia, RuntimeTypes, Channels, Life, ListenerPcs,
     ReceiverPcs, AnyReceiverPc
<1>4. RuntimeInv(r)'
  BY <1>1, <1>2, <1>3 DEF ListenerFails, IsMedia, RuntimeTypes, Channels, Life, ListenerPcs,
     ReceiverPcs, AnyReceiverPc, RuntimeInv, Fresh, ListenOwned, MediaOwned, Connected,
     MainHasListen, MainHasFd, ThreadHasListen, ThreadHasFd
<1> QED
  BY <1>2, <1>3, <1>4, ThreadStep

LEMMA ListenerCreatesKeeps == ASSUME Inv, NEW r \in Runtimes, ListenerCreates(r) PROVE Inv'
<1>1. RuntimeTypes(r) /\ RuntimeInv(r) /\ Functions
  BY TypesOf, FunctionsOf DEF Inv
<1>2. /\ UNCHANGED <<made, slot, main>> /\ Functions'
      /\ \A q \in Runtimes \ {r} : Untouched(q)
  BY <1>1 DEF ListenerCreates, Untouched
<1>3. RuntimeTypes(r)'
  BY <1>1, <1>2 DEF ListenerCreates, IsMedia, RuntimeTypes, Channels, Life, ListenerPcs,
     ReceiverPcs, AnyReceiverPc
<1>4. RuntimeInv(r)'
  <2>0. /\ listener'[r].pc = "store"
        /\ socket'[r].listen_fd = "open"
        /\ socket'[r].fd = socket[r].fd
    BY <1>1 DEF ListenerCreates, RuntimeTypes
  <2>1. Fresh(r)'
    BY <1>1, <1>2, <1>3, <2>0 DEF ListenerCreates, IsMedia, RuntimeInv, Fresh, RuntimeTypes,
       Life, ReceiverPcs, Channels
  <2>2. ListenOwned(r)'
    BY <1>1, <1>2, <1>3, <2>0 DEF ListenerCreates, IsMedia, RuntimeInv, ListenOwned,
       MainHasListen, ThreadHasListen, RuntimeTypes, Life, ReceiverPcs, Channels
  <2>3. MediaOwned(r)'
    BY <1>1, <1>2, <1>3, <2>0 DEF ListenerCreates, IsMedia, RuntimeInv, MediaOwned,
       MainHasFd, ThreadHasFd, RuntimeTypes, Life, ReceiverPcs, Channels
  <2>4. Connected(r)'
    BY <1>1, <1>2, <1>3, <2>0 DEF ListenerCreates, IsMedia, RuntimeInv, Connected,
       RuntimeTypes, Life, ReceiverPcs, Channels
  <2> QED
    BY <2>1, <2>2, <2>3, <2>4 DEF RuntimeInv
<1> QED
  BY <1>2, <1>3, <1>4, ThreadStep

LEMMA ListenerStoresKeeps == ASSUME Inv, NEW r \in Runtimes, ListenerStores(r) PROVE Inv'
<1>1. RuntimeTypes(r) /\ RuntimeInv(r) /\ Functions
  BY TypesOf, FunctionsOf DEF Inv
<1>2. /\ UNCHANGED <<made, slot, main>> /\ Functions'
      /\ \A q \in Runtimes \ {r} : Untouched(q)
  BY <1>1 DEF ListenerStores, Untouched
<1>3. RuntimeTypes(r)'
  BY <1>1, <1>2 DEF ListenerStores, IsMedia, RuntimeTypes, Channels, Life, ListenerPcs,
     ReceiverPcs, AnyReceiverPc
<1>4. RuntimeInv(r)'
  BY <1>1, <1>2, <1>3 DEF ListenerStores, IsMedia, RuntimeTypes, Channels, Life,
     ListenerPcs, ReceiverPcs, AnyReceiverPc, RuntimeInv, Fresh, ListenOwned, MediaOwned,
     Connected, MainHasListen, MainHasFd, ThreadHasListen, ThreadHasFd
<1> QED
  BY <1>2, <1>3, <1>4, ThreadStep

LEMMA ListenerTestsKeeps == ASSUME Inv, NEW r \in Runtimes, ListenerTests(r) PROVE Inv'
<1>1. RuntimeTypes(r) /\ RuntimeInv(r) /\ Functions
  BY TypesOf, FunctionsOf DEF Inv
<1>2. /\ UNCHANGED <<made, slot, main>> /\ Functions'
      /\ \A q \in Runtimes \ {r} : Untouched(q)
  BY <1>1 DEF ListenerTests, Untouched
<1>3. RuntimeTypes(r)'
  <2>1. /\ runtime'[r] \in [channel : Channels, stop : BOOLEAN, fd : BOOLEAN, listen_fd : BOOLEAN]
        /\ runtime'[r].channel = runtime[r].channel
    <3>1. runtime' = runtime \/ runtime' = [runtime EXCEPT ![r].fd = FALSE]
      BY DEF ListenerTests
    <3>2. CASE runtime' = runtime
      BY <1>1, <3>2 DEF RuntimeTypes
    <3>3. CASE runtime' = [runtime EXCEPT ![r].fd = FALSE]
      BY <1>1, <3>3 DEF RuntimeTypes
    <3> QED
      BY <3>1, <3>2, <3>3
  <2>2. /\ listener'[r] \in [pc : ListenerPcs, fd : BOOLEAN, listen_fd : BOOLEAN]
        /\ runtime[r].channel = "media" => listener'[r].pc = "none"
    BY <1>1 DEF ListenerTests, RuntimeTypes, ListenerPcs
  <2>3. /\ receiver'[r] \in [pc : AnyReceiverPc, fd : BOOLEAN, listen_fd : BOOLEAN]
        /\ receiver'[r].pc \in ReceiverPcs(runtime[r].channel)
    BY <1>1 DEF ListenerTests, RuntimeTypes, ReceiverPcs, AnyReceiverPc
  <2>4. socket'[r] \in [fd : Life, listen_fd : Life]
    BY <1>1 DEF ListenerTests, RuntimeTypes, Life
  <2> QED
    BY <2>1, <2>2, <2>3, <2>4 DEF RuntimeTypes
<1>4. RuntimeInv(r)'
  BY <1>1, <1>2, <1>3 DEF ListenerTests, IsMedia, RuntimeTypes, Channels, Life, ListenerPcs,
     ReceiverPcs, AnyReceiverPc, RuntimeInv, Fresh, ListenOwned, MediaOwned, Connected,
     MainHasListen, MainHasFd, ThreadHasListen, ThreadHasFd
<1> QED
  BY <1>2, <1>3, <1>4, ThreadStep

LEMMA AcceptFailsKeeps == ASSUME Inv, NEW r \in Runtimes, AcceptFails(r) PROVE Inv'
<1>1. RuntimeTypes(r) /\ RuntimeInv(r) /\ Functions
  BY TypesOf, FunctionsOf DEF Inv
<1>2. /\ UNCHANGED <<made, slot, main>> /\ Functions'
      /\ \A q \in Runtimes \ {r} : Untouched(q)
  BY <1>1 DEF AcceptFails, Untouched
<1>3. RuntimeTypes(r)'
  BY <1>1, <1>2 DEF AcceptFails, IsMedia, RuntimeTypes, Channels, Life, ListenerPcs,
     ReceiverPcs, AnyReceiverPc
<1>4. RuntimeInv(r)'
  BY <1>1, <1>2, <1>3 DEF AcceptFails, IsMedia, RuntimeTypes, Channels, Life, ListenerPcs,
     ReceiverPcs, AnyReceiverPc, RuntimeInv, Fresh, ListenOwned, MediaOwned, Connected,
     MainHasListen, MainHasFd, ThreadHasListen, ThreadHasFd
<1> QED
  BY <1>2, <1>3, <1>4, ThreadStep

LEMMA AcceptsKeeps == ASSUME Inv, NEW r \in Runtimes, Accepts(r) PROVE Inv'
<1>1. RuntimeTypes(r) /\ RuntimeInv(r) /\ Functions
  BY TypesOf, FunctionsOf DEF Inv
<1>2. /\ UNCHANGED <<made, slot, main>> /\ Functions'
      /\ \A q \in Runtimes \ {r} : Untouched(q)
  BY <1>1 DEF Accepts, Untouched
<1>3. RuntimeTypes(r)'
  BY <1>1, <1>2 DEF Accepts, IsMedia, RuntimeTypes, Channels, Life, ListenerPcs,
     ReceiverPcs, AnyReceiverPc
<1>4. RuntimeInv(r)'
  BY <1>1, <1>2, <1>3 DEF Accepts, IsMedia, RuntimeTypes, Channels, Life, ListenerPcs,
     ReceiverPcs, AnyReceiverPc, RuntimeInv, Fresh, ListenOwned, MediaOwned, Connected,
     MainHasListen, MainHasFd, ThreadHasListen, ThreadHasFd
<1> QED
  BY <1>2, <1>3, <1>4, ThreadStep

LEMMA ListenerPublishesKeeps == ASSUME Inv, NEW r \in Runtimes, ListenerPublishes(r) PROVE Inv'
<1>1. RuntimeTypes(r) /\ RuntimeInv(r) /\ Functions
  BY TypesOf, FunctionsOf DEF Inv
<1>2. /\ UNCHANGED <<made, slot, main>> /\ Functions'
      /\ \A q \in Runtimes \ {r} : Untouched(q)
  BY <1>1 DEF ListenerPublishes, Untouched
<1>3. RuntimeTypes(r)'
  BY <1>1, <1>2 DEF ListenerPublishes, IsMedia, RuntimeTypes, Channels, Life, ListenerPcs,
     ReceiverPcs, AnyReceiverPc
<1>4. RuntimeInv(r)'
  <2>1. Fresh(r)'
    BY <1>1, <1>2, <1>3 DEF ListenerPublishes, IsMedia, RuntimeInv, Fresh, RuntimeTypes,
       Life, ReceiverPcs, Channels
  <2>2. ListenOwned(r)'
    BY <1>1, <1>2, <1>3 DEF ListenerPublishes, IsMedia, RuntimeInv, ListenOwned,
       MainHasListen, ThreadHasListen, RuntimeTypes, Life, ReceiverPcs, Channels
  <2>3. MediaOwned(r)'
    BY <1>1, <1>2, <1>3 DEF ListenerPublishes, IsMedia, RuntimeInv, MediaOwned, MainHasFd,
       ThreadHasFd, RuntimeTypes, Life, ReceiverPcs, Channels
  <2>4. Connected(r)'
    BY <1>1, <1>2, <1>3 DEF ListenerPublishes, IsMedia, RuntimeInv, Connected, RuntimeTypes,
       Life, ReceiverPcs, Channels
  <2> QED
    BY <2>1, <2>2, <2>3, <2>4 DEF RuntimeInv
<1> QED
  BY <1>2, <1>3, <1>4, ThreadStep

LEMMA ListenerJoinsKeeps == ASSUME Inv, NEW r \in Runtimes, ListenerJoins(r) PROVE Inv'
<1>1. RuntimeTypes(r) /\ RuntimeInv(r) /\ Functions
  BY TypesOf, FunctionsOf DEF Inv
<1>2. /\ UNCHANGED <<made, slot, main>> /\ Functions'
      /\ \A q \in Runtimes \ {r} : Untouched(q)
  BY <1>1 DEF ListenerJoins, Untouched
<1>3. RuntimeTypes(r)'
  BY <1>1, <1>2 DEF ListenerJoins, Awaited, IsMedia, RuntimeTypes, Channels, Life,
     ListenerPcs, ReceiverPcs, AnyReceiverPc
<1>4. RuntimeInv(r)'
  <2>1. Fresh(r)'
    BY <1>1, <1>2, <1>3 DEF ListenerJoins, Awaited, IsMedia, RuntimeInv, Fresh,
       RuntimeTypes, Life, ReceiverPcs, Channels
  <2>2. ListenOwned(r)'
    BY <1>1, <1>2, <1>3 DEF ListenerJoins, Awaited, IsMedia, RuntimeInv, ListenOwned,
       MainHasListen, ThreadHasListen, RuntimeTypes, Life, ReceiverPcs, Channels
  <2>3. MediaOwned(r)'
    BY <1>1, <1>2, <1>3 DEF ListenerJoins, Awaited, IsMedia, RuntimeInv, MediaOwned,
       MainHasFd, ThreadHasFd, RuntimeTypes, Life, ReceiverPcs, Channels
  <2>4. Connected(r)'
    BY <1>1, <1>2, <1>3 DEF ListenerJoins, Awaited, IsMedia, RuntimeInv, Connected,
       RuntimeTypes, Life, ReceiverPcs, Channels
  <2> QED
    BY <2>1, <2>2, <2>3, <2>4 DEF RuntimeInv
<1> QED
  BY <1>2, <1>3, <1>4, ThreadStep

LEMMA ListenerSwapsKeeps == ASSUME Inv, NEW r \in Runtimes, ListenerSwaps(r) PROVE Inv'
<1>1. RuntimeTypes(r) /\ RuntimeInv(r) /\ Functions
  BY TypesOf, FunctionsOf DEF Inv
<1>2. /\ UNCHANGED <<made, slot, main>> /\ Functions'
      /\ \A q \in Runtimes \ {r} : Untouched(q)
  BY <1>1 DEF ListenerSwaps, Untouched
<1>3. RuntimeTypes(r)'
  BY <1>1, <1>2 DEF ListenerSwaps, IsMedia, RuntimeTypes, Channels, Life, ListenerPcs,
     ReceiverPcs, AnyReceiverPc
<1>4. RuntimeInv(r)'
  <2>0. /\ runtime'[r].channel = runtime[r].channel /\ runtime'[r].fd = runtime[r].fd
        /\ runtime'[r].listen_fd = FALSE
        /\ listener'[r].pc = "close" /\ listener'[r].listen_fd = runtime[r].listen_fd
    BY <1>1 DEF ListenerSwaps, RuntimeTypes
  <2>1. Fresh(r)'
    BY <1>1, <1>2, <1>3, <2>0 DEF ListenerSwaps, IsMedia, RuntimeInv, Fresh, RuntimeTypes,
       Life, ReceiverPcs, Channels
  <2>2. ListenOwned(r)'
    BY <1>1, <1>2, <1>3, <2>0 DEF ListenerSwaps, IsMedia, RuntimeInv, ListenOwned,
       MainHasListen, ThreadHasListen, RuntimeTypes, Life, ReceiverPcs, Channels
  <2>3. MediaOwned(r)'
    BY <1>1, <1>2, <1>3, <2>0 DEF ListenerSwaps, IsMedia, RuntimeInv, MediaOwned, MainHasFd,
       ThreadHasFd, RuntimeTypes, Life, ReceiverPcs, Channels
  <2>4. Connected(r)'
    BY <1>1, <1>2, <1>3, <2>0 DEF ListenerSwaps, IsMedia, RuntimeInv, Connected,
       RuntimeTypes, Life, ReceiverPcs, Channels
  <2> QED
    BY <2>1, <2>2, <2>3, <2>4 DEF RuntimeInv
<1> QED
  BY <1>2, <1>3, <1>4, ThreadStep

LEMMA ListenerClosesKeeps == ASSUME Inv, NEW r \in Runtimes, ListenerCloses(r) PROVE Inv'
<1>1. RuntimeTypes(r) /\ RuntimeInv(r) /\ Functions
  BY TypesOf, FunctionsOf DEF Inv
<1>2. /\ UNCHANGED <<made, slot, main>> /\ Functions'
      /\ \A q \in Runtimes \ {r} : Untouched(q)
  BY <1>1 DEF ListenerCloses, Untouched
<1>3. RuntimeTypes(r)'
  BY <1>1, <1>2 DEF ListenerCloses, IsMedia, RuntimeTypes, Channels, Life, ListenerPcs,
     ReceiverPcs, AnyReceiverPc
<1>4. RuntimeInv(r)'
  <2>1. Fresh(r)'
    BY <1>1, <1>2, <1>3 DEF ListenerCloses, IsMedia, RuntimeInv, Fresh,
       RuntimeTypes, Life, ListenerPcs, ReceiverPcs, AnyReceiverPc, Channels
  <2>2. ListenOwned(r)'
    BY <1>1, <1>2, <1>3 DEF ListenerCloses, IsMedia, RuntimeInv, ListenOwned, MainHasListen, ThreadHasListen,
       RuntimeTypes, Life, ListenerPcs, ReceiverPcs, AnyReceiverPc, Channels
  <2>3. MediaOwned(r)'
    BY <1>1, <1>2, <1>3 DEF ListenerCloses, IsMedia, RuntimeInv, MediaOwned, MainHasFd, ThreadHasFd,
       RuntimeTypes, Life, ListenerPcs, ReceiverPcs, AnyReceiverPc, Channels
  <2>4. Connected(r)'
    BY <1>1, <1>2, <1>3 DEF ListenerCloses, IsMedia, RuntimeInv, Connected,
       RuntimeTypes, Life, ListenerPcs, ReceiverPcs, AnyReceiverPc, Channels
  <2> QED
    BY <2>1, <2>2, <2>3, <2>4 DEF RuntimeInv
<1> QED
  BY <1>2, <1>3, <1>4, ThreadStep

LEMMA ListenerEndsKeeps == ASSUME Inv, NEW r \in Runtimes, ListenerEnds(r) PROVE Inv'
<1>1. RuntimeTypes(r) /\ RuntimeInv(r) /\ Functions
  BY TypesOf, FunctionsOf DEF Inv
<1>2. /\ UNCHANGED <<made, slot, main>> /\ Functions'
      /\ \A q \in Runtimes \ {r} : Untouched(q)
  BY <1>1 DEF ListenerEnds, Untouched
<1>3. RuntimeTypes(r)'
  BY <1>1, <1>2 DEF ListenerEnds, IsMedia, RuntimeTypes, Channels, Life, ListenerPcs,
     ReceiverPcs, AnyReceiverPc
<1>4. RuntimeInv(r)'
  BY <1>1, <1>2, <1>3 DEF ListenerEnds, IsMedia, RuntimeTypes, Channels, Life, ListenerPcs,
     ReceiverPcs, AnyReceiverPc, RuntimeInv, Fresh, ListenOwned, MediaOwned, Connected,
     MainHasListen, MainHasFd, ThreadHasListen, ThreadHasFd
<1> QED
  BY <1>2, <1>3, <1>4, ThreadStep

LEMMA ReceiverTestsKeeps == ASSUME Inv, NEW r \in Runtimes, ReceiverTests(r) PROVE Inv'
<1>1. RuntimeTypes(r) /\ RuntimeInv(r) /\ Functions
  BY TypesOf, FunctionsOf DEF Inv
<1>2. /\ UNCHANGED <<made, slot, main>> /\ Functions'
      /\ \A q \in Runtimes \ {r} : Untouched(q)
  BY <1>1 DEF ReceiverTests, Untouched
<1>3. RuntimeTypes(r)'
  BY <1>1, <1>2 DEF ReceiverTests, Exit, IsMedia, RuntimeTypes, Channels, Life, ListenerPcs,
     ReceiverPcs, AnyReceiverPc
<1>4. RuntimeInv(r)'
  BY <1>1, <1>2, <1>3 DEF ReceiverTests, Exit, IsMedia, RuntimeTypes, Channels, Life,
     ListenerPcs, ReceiverPcs, AnyReceiverPc, RuntimeInv, Fresh, ListenOwned, MediaOwned,
     Connected, MainHasListen, MainHasFd, ThreadHasListen, ThreadHasFd
<1> QED
  BY <1>2, <1>3, <1>4, ThreadStep

LEMMA MediaLoadsKeeps == ASSUME Inv, NEW r \in Runtimes, MediaLoads(r) PROVE Inv'
<1>1. RuntimeTypes(r) /\ RuntimeInv(r) /\ Functions
  BY TypesOf, FunctionsOf DEF Inv
<1>2. /\ UNCHANGED <<made, slot, main>> /\ Functions'
      /\ \A q \in Runtimes \ {r} : Untouched(q)
  BY <1>1 DEF MediaLoads, Untouched
<1>3. RuntimeTypes(r)'
  BY <1>1, <1>2 DEF MediaLoads, Exit, IsMedia, RuntimeTypes, Channels, Life, ListenerPcs,
     ReceiverPcs, AnyReceiverPc
<1>4. RuntimeInv(r)'
  BY <1>1, <1>2, <1>3 DEF MediaLoads, Exit, IsMedia, RuntimeTypes, Channels, Life,
     ListenerPcs, ReceiverPcs, AnyReceiverPc, RuntimeInv, Fresh, ListenOwned, MediaOwned,
     Connected, MainHasListen, MainHasFd, ThreadHasListen, ThreadHasFd
<1> QED
  BY <1>2, <1>3, <1>4, ThreadStep

LEMMA ReceivesKeeps == ASSUME Inv, NEW r \in Runtimes, Receives(r) PROVE Inv'
<1>1. RuntimeTypes(r) /\ RuntimeInv(r) /\ Functions
  BY TypesOf, FunctionsOf DEF Inv
<1>2. /\ UNCHANGED <<made, slot, main>> /\ Functions'
      /\ \A q \in Runtimes \ {r} : Untouched(q)
  BY <1>1 DEF Receives, Untouched
<1>3. RuntimeTypes(r)'
  BY <1>1, <1>2 DEF Receives, IsMedia, RuntimeTypes, Channels, Life, ListenerPcs,
     ReceiverPcs, AnyReceiverPc
<1>4. RuntimeInv(r)'
  BY <1>1, <1>2, <1>3 DEF Receives, IsMedia, RuntimeTypes, Channels, Life, ListenerPcs,
     ReceiverPcs, AnyReceiverPc, RuntimeInv, Fresh, ListenOwned, MediaOwned, Connected,
     MainHasListen, MainHasFd, ThreadHasListen, ThreadHasFd
<1> QED
  BY <1>2, <1>3, <1>4, ThreadStep

LEMMA ReceiveFailsKeeps == ASSUME Inv, NEW r \in Runtimes, ReceiveFails(r) PROVE Inv'
<1>1. RuntimeTypes(r) /\ RuntimeInv(r) /\ Functions
  BY TypesOf, FunctionsOf DEF Inv
<1>2. /\ UNCHANGED <<made, slot, main>> /\ Functions'
      /\ \A q \in Runtimes \ {r} : Untouched(q)
  BY <1>1 DEF ReceiveFails, Untouched
<1>3. RuntimeTypes(r)'
  BY <1>1, <1>2 DEF ReceiveFails, Exit, IsMedia, RuntimeTypes, Channels, Life, ListenerPcs,
     ReceiverPcs, AnyReceiverPc
<1>4. RuntimeInv(r)'
  BY <1>1, <1>2, <1>3 DEF ReceiveFails, Exit, IsMedia, RuntimeTypes, Channels, Life,
     ListenerPcs, ReceiverPcs, AnyReceiverPc, RuntimeInv, Fresh, ListenOwned, MediaOwned,
     Connected, MainHasListen, MainHasFd, ThreadHasListen, ThreadHasFd
<1> QED
  BY <1>2, <1>3, <1>4, ThreadStep

LEMMA ComparesKeeps == ASSUME Inv, NEW r \in Runtimes, Compares(r) PROVE Inv'
<1>1. RuntimeTypes(r) /\ RuntimeInv(r) /\ Functions
  BY TypesOf, FunctionsOf DEF Inv
<1>2. /\ UNCHANGED <<made, slot, main>> /\ Functions'
      /\ \A q \in Runtimes \ {r} : Untouched(q)
  BY <1>1 DEF Compares, Untouched
<1>3. RuntimeTypes(r)'
  BY <1>1, <1>2 DEF Compares, IsMedia, RuntimeTypes, Channels, Life, ListenerPcs,
     ReceiverPcs, AnyReceiverPc
<1>4. RuntimeInv(r)'
  BY <1>1, <1>2, <1>3 DEF Compares, IsMedia, RuntimeTypes, Channels, Life, ListenerPcs,
     ReceiverPcs, AnyReceiverPc, RuntimeInv, Fresh, ListenOwned, MediaOwned, Connected,
     MainHasListen, MainHasFd, ThreadHasListen, ThreadHasFd
<1> QED
  BY <1>2, <1>3, <1>4, ThreadStep

LEMMA ClearsKeeps == ASSUME Inv, NEW r \in Runtimes, Clears(r) PROVE Inv'
<1>1. RuntimeTypes(r) /\ RuntimeInv(r) /\ Functions
  BY TypesOf, FunctionsOf DEF Inv
<1>2. /\ UNCHANGED <<made, slot, main>> /\ Functions'
      /\ \A q \in Runtimes \ {r} : Untouched(q)
  BY <1>1 DEF Clears, Untouched
<1>3. RuntimeTypes(r)'
  <2>1. /\ runtime'[r] \in [channel : Channels, stop : BOOLEAN, fd : BOOLEAN, listen_fd : BOOLEAN]
        /\ runtime'[r].channel = runtime[r].channel
    BY <1>1 DEF Clears, RuntimeTypes
  <2>2. /\ listener'[r] \in [pc : ListenerPcs, fd : BOOLEAN, listen_fd : BOOLEAN]
        /\ runtime[r].channel = "media" => listener'[r].pc = "none"
    BY <1>1 DEF Clears, RuntimeTypes, ListenerPcs
  <2>3. /\ receiver'[r] \in [pc : AnyReceiverPc, fd : BOOLEAN, listen_fd : BOOLEAN]
        /\ receiver'[r].pc \in ReceiverPcs(runtime[r].channel)
    BY <1>1 DEF Clears, RuntimeTypes, ReceiverPcs, AnyReceiverPc
  <2>4. socket'[r] \in [fd : Life, listen_fd : Life]
    BY <1>1 DEF Clears, RuntimeTypes, Life
  <2> QED
    BY <2>1, <2>2, <2>3, <2>4 DEF RuntimeTypes
<1>4. RuntimeInv(r)'
  BY <1>1, <1>2, <1>3 DEF Clears, IsMedia, RuntimeTypes, Channels, Life, ListenerPcs,
     ReceiverPcs, AnyReceiverPc, RuntimeInv, Fresh, ListenOwned, MediaOwned, Connected,
     MainHasListen, MainHasFd, ThreadHasListen, ThreadHasFd
<1> QED
  BY <1>2, <1>3, <1>4, ThreadStep

LEMMA MediaSwapsKeeps == ASSUME Inv, NEW r \in Runtimes, MediaSwaps(r) PROVE Inv'
<1>1. RuntimeTypes(r) /\ RuntimeInv(r) /\ Functions
  BY TypesOf, FunctionsOf DEF Inv
<1>2. /\ UNCHANGED <<made, slot, main>> /\ Functions'
      /\ \A q \in Runtimes \ {r} : Untouched(q)
  BY <1>1 DEF MediaSwaps, Untouched
<1>3. RuntimeTypes(r)'
  BY <1>1, <1>2 DEF MediaSwaps, IsMedia, RuntimeTypes, Channels, Life, ListenerPcs,
     ReceiverPcs, AnyReceiverPc
<1>4. RuntimeInv(r)'
  <2>0. /\ runtime'[r].channel = runtime[r].channel /\ runtime'[r].listen_fd = runtime[r].listen_fd
        /\ runtime'[r].fd = FALSE
        /\ receiver'[r].pc = "close" /\ receiver'[r].fd = runtime[r].fd
    BY <1>1 DEF MediaSwaps, RuntimeTypes
  <2>1. Fresh(r)'
    BY <1>1, <1>2, <1>3, <2>0 DEF MediaSwaps, IsMedia, RuntimeInv, Fresh, RuntimeTypes,
       Life, ReceiverPcs, Channels
  <2>2. ListenOwned(r)'
    BY <1>1, <1>2, <1>3, <2>0 DEF MediaSwaps, IsMedia, RuntimeInv, ListenOwned,
       MainHasListen, ThreadHasListen, RuntimeTypes, Life, ReceiverPcs, Channels
  <2>3. MediaOwned(r)'
    BY <1>1, <1>2, <1>3, <2>0 DEF MediaSwaps, IsMedia, RuntimeInv, MediaOwned, MainHasFd,
       ThreadHasFd, RuntimeTypes, Life, ReceiverPcs, Channels
  <2>4. Connected(r)'
    BY <1>1, <1>2, <1>3, <2>0 DEF MediaSwaps, IsMedia, RuntimeInv, Connected, RuntimeTypes,
       Life, ReceiverPcs, Channels
  <2> QED
    BY <2>1, <2>2, <2>3, <2>4 DEF RuntimeInv
<1> QED
  BY <1>2, <1>3, <1>4, ThreadStep

LEMMA ReceiverEndsKeeps == ASSUME Inv, NEW r \in Runtimes, ReceiverEnds(r) PROVE Inv'
<1>1. RuntimeTypes(r) /\ RuntimeInv(r) /\ Functions
  BY TypesOf, FunctionsOf DEF Inv
<1>2. /\ UNCHANGED <<made, slot, main>> /\ Functions'
      /\ \A q \in Runtimes \ {r} : Untouched(q)
  BY <1>1 DEF ReceiverEnds, Untouched
<1>3. RuntimeTypes(r)'
  BY <1>1, <1>2 DEF ReceiverEnds, MayClose, IsMedia, RuntimeTypes, Channels, Life,
     ListenerPcs, ReceiverPcs, AnyReceiverPc
<1>4. RuntimeInv(r)'
  <2>0. /\ receiver'[r].pc = "done" /\ receiver'[r].fd = FALSE
        /\ socket'[r].fd = Closed(socket[r].fd, MayClose(r))
        /\ socket'[r].listen_fd = socket[r].listen_fd
    BY <1>1 DEF ReceiverEnds, RuntimeTypes
  <2>1. Fresh(r)'
    BY <1>1, <1>2, <1>3, <2>0 DEF ReceiverEnds, MayClose, IsMedia, RuntimeInv, Fresh,
       RuntimeTypes, Life, ReceiverPcs, Channels
  <2>2. ListenOwned(r)'
    BY <1>1, <1>2, <1>3, <2>0 DEF ReceiverEnds, MayClose, IsMedia, RuntimeInv, ListenOwned,
       MainHasListen, ThreadHasListen, RuntimeTypes, Life, ReceiverPcs, Channels
  <2>3. MediaOwned(r)'
    BY <1>1, <1>2, <1>3, <2>0 DEF ReceiverEnds, MayClose, IsMedia, RuntimeInv, MediaOwned,
       MainHasFd, ThreadHasFd, RuntimeTypes, Life, ReceiverPcs, Channels
  <2>4. Connected(r)'
    BY <1>1, <1>2, <1>3, <2>0 DEF ReceiverEnds, MayClose, IsMedia, RuntimeInv, Connected,
       RuntimeTypes, Life, ReceiverPcs, Channels
  <2> QED
    BY <2>1, <2>2, <2>3, <2>4 DEF RuntimeInv
<1> QED
  BY <1>2, <1>3, <1>4, ThreadStep

-------------------------------------------------------------------------------
(* The main thread                                                             *)

MainType(m, n) ==
  m \in [pc : MainPcs, cmd : Commands, r : 0 .. n, fd : BOOLEAN, listen_fd : BOOLEAN]

LEMMA MainStepKeeps ==
  ASSUME Inv, Functions', MainType(main', made'), MainOK',
         made' \in 0 .. MaxRuntimes, slot' \in [Channels -> 0 .. made'],
         \A q \in Runtimes : RuntimeTypes(q)' /\ RuntimeInv(q)'
  PROVE  Inv'
<1>1. TypeOK'
  BY DEF TypeOK, RuntimeTypes, Functions, MainType
<1> QED
  BY <1>1 DEF Inv

(* A runtime the main thread holds nothing of, before and after, keeps its     *)
(* invariant; setting its stop flag does not matter.                           *)
Alike(q) ==
  /\ runtime'[q].channel = runtime[q].channel
  /\ runtime'[q].fd = runtime[q].fd /\ runtime'[q].listen_fd = runtime[q].listen_fd
  /\ socket'[q] = socket[q] /\ listener'[q] = listener[q] /\ receiver'[q] = receiver[q]

LEMMA NotHeldKeeps ==
  ASSUME Inv, NEW q \in Runtimes, Alike(q), made' \in {made, made + 1},
         MainHasListen(q)' <=> MainHasListen(q), MainHasFd(q)' <=> MainHasFd(q)
  PROVE  RuntimeInv(q)'
<1>1. RuntimeInv(q) /\ made \in Nat /\ q \in Nat
  BY DEF Inv, TypeOK, Runtimes
<1>2. Fresh(q)'
  BY <1>1 DEF Alike, RuntimeInv, Fresh
<1>3. ListenOwned(q)'
  BY <1>1 DEF Alike, RuntimeInv, ListenOwned, ThreadHasListen
<1>4. MediaOwned(q)'
  BY <1>1 DEF Alike, RuntimeInv, MediaOwned, ThreadHasFd, IsMedia
<1>5. Connected(q)'
  BY <1>1 DEF Alike, RuntimeInv, Connected, IsMedia
<1> QED
  BY <1>2, <1>3, <1>4, <1>5 DEF RuntimeInv

(* Taking a runtime out of its slot, at the start of a close.                  *)
LEMMA TakesKeeps ==
  ASSUME Inv, NEW cmd \in Commands, main.pc \in {"idle", "stopped"}, Takes(cmd)
  PROVE  Inv'
<1> DEFINE r == slot[Channel(cmd)]
<1>1. /\ made \in Nat /\ made \in 0 .. MaxRuntimes /\ slot \in [Channels -> 0 .. made]
      /\ r \in 0 .. made /\ Functions /\ \A q \in Runtimes : RuntimeTypes(q)
  BY TypesOf, FunctionsOf DEF Inv, TypeOK, Channel, Channels
<1>2. /\ main'.pc \in {"idle", "open", "stopped"} \/ (main'.pc = "swap" /\ r # 0)
      /\ main'.r = r /\ MainType(main', made)
  <2>1. main' = [pc |-> IF r = 0 THEN Then(cmd) ELSE "swap", cmd |-> cmd, r |-> r,
                 fd |-> FALSE, listen_fd |-> FALSE]
    BY DEF Takes, Idle
  <2>2. Then(cmd) \in {"idle", "open", "stopped"}
    BY DEF Then
  <2> QED
    BY <1>1, <2>1, <2>2 DEF MainType, MainPcs
<1>8. UNCHANGED <<made, socket, listener, receiver>>
  BY DEF Takes
<1>9. runtime' = runtime \/ (r # 0 /\ runtime' = Stopped(r))
  BY DEF Takes
<1>4. slot' \in [Channels -> 0 .. made'] /\ made' = made /\ Functions'
  <2>1. slot' \in [Channels -> 0 .. made]
    <3>1. slot' = [slot EXCEPT ![Channel(cmd)] = 0]
      BY DEF Takes
    <3>2. 0 \in 0 .. made /\ \A d \in Channels : slot'[d] = 0 \/ slot'[d] = slot[d]
      BY <1>1, <3>1
    <3>3. \A d \in Channels : slot'[d] \in 0 .. made
      BY <1>1, <3>2
    <3> QED
      BY <1>1, <3>1, <3>3
  <2>2. Functions'
    BY <1>1, <1>8, <1>9 DEF Stopped
  <2> QED
    BY <2>1, <2>2, <1>8
<1>3. MainType(main', made')
  BY <1>2, <1>4
<1>5. MainOK'
  BY <1>1, <1>2, <1>4 DEF MainOK
<1>6. ASSUME NEW q \in Runtimes PROVE RuntimeTypes(q)' /\ Alike(q)
  <2>1. RuntimeTypes(q)
    BY <1>1
  <2>2. CASE runtime' = runtime
    BY <1>8, <2>1, <2>2 DEF Alike, RuntimeTypes
  <2>3. CASE runtime' = Stopped(r)
    <3>1. q # r \/ runtime'[q] = [runtime[q] EXCEPT !.stop = TRUE]
      BY <1>1, <2>3 DEF Stopped
    <3>2. q # r => runtime'[q] = runtime[q]
      BY <1>1, <2>3 DEF Stopped
    <3> QED
      BY <1>8, <2>1, <3>1, <3>2 DEF Alike, RuntimeTypes
  <2> QED
    BY <1>9, <2>2, <2>3
<1>7. ASSUME NEW q \in Runtimes PROVE RuntimeInv(q)'
  <2>1. ~MainHasListen(q) /\ ~MainHasFd(q) /\ ~MainHasListen(q)' /\ ~MainHasFd(q)'
    BY <1>2 DEF MainHasListen, MainHasFd
  <2> QED
    BY <1>4, <1>6, <2>1, NotHeldKeeps
<1> QED
  BY <1>1, <1>3, <1>4, <1>5, <1>6, <1>7, MainStepKeeps

(* What the steps of a close have in common.                                   *)
LEMMA ClosingKeeps ==
  ASSUME Inv, UNCHANGED <<made, slot>>, Functions', MainType(main', made), main'.r = main.r,
         main.pc \in {"swap", "swap_listen", "close", "close_listen", "join"},
         \A q \in Runtimes \ {main.r} : Untouched(q),
         RuntimeTypes(main.r)', RuntimeInv(main.r)'
  PROVE  Inv'
<1>1. ASSUME NEW q \in Runtimes PROVE RuntimeTypes(q)' /\ RuntimeInv(q)'
  <2>1. CASE q = main.r
    BY <2>1
  <2>2. CASE q # main.r
    <3>1. Untouched(q) /\ RuntimeTypes(q)
      BY <2>2, TypesOf DEF Inv
    <3>2. RuntimeTypes(q)' /\ Alike(q)
      BY <3>1 DEF Untouched, RuntimeTypes, Alike
    <3>3. ~MainHasListen(q) /\ ~MainHasFd(q) /\ ~MainHasListen(q)' /\ ~MainHasFd(q)'
      BY <2>2 DEF MainHasListen, MainHasFd
    <3> QED
      BY <3>2, <3>3, NotHeldKeeps
  <2> QED
    BY <2>1, <2>2
<1>2. main.r \in 1 .. made
  BY DEF Inv, MainOK
<1>3. MainOK' /\ made' \in 0 .. MaxRuntimes /\ slot' \in [Channels -> 0 .. made']
  BY <1>2 DEF Inv, TypeOK, MainOK
<1>4. MainType(main', made')
  OBVIOUS
<1> QED
  BY <1>1, <1>3, <1>4, MainStepKeeps

LEMMA CloseRuntime ==
  ASSUME Inv, main.pc \in {"swap", "swap_listen", "close", "close_listen", "join"}
  PROVE  /\ main.r \in Runtimes /\ main.r \in 1 .. made /\ made \in Nat /\ MainType(main, made)
         /\ RuntimeTypes(main.r) /\ RuntimeInv(main.r) /\ Functions
<1>1. main.r \in 1 .. made /\ made \in 0 .. MaxRuntimes
  BY DEF Inv, TypeOK, MainOK
<1>2. main.r \in Runtimes
  BY <1>1, RuntimesAssumption DEF Runtimes
<1> QED
  BY <1>1, <1>2, TypesOf, FunctionsOf DEF Inv, TypeOK, MainType

LEMMA CloseSwapsKeeps == ASSUME Inv, CloseSwaps PROVE Inv'
<1> DEFINE r == main.r
<1>1. /\ r \in Runtimes /\ r \in 1 .. made /\ made \in Nat /\ MainType(main, made)
      /\ RuntimeTypes(r) /\ RuntimeInv(r) /\ Functions
  BY CloseRuntime DEF CloseSwaps
<1>2. /\ UNCHANGED <<made, slot>> /\ main'.r = r /\ Functions'
      /\ \A q \in Runtimes \ {r} : Untouched(q)
      /\ main.pc \in {"swap", "swap_listen", "close", "close_listen", "join"}
  BY <1>1 DEF CloseSwaps, MainType, Untouched
<1>3. MainType(main', made)
  BY <1>1 DEF CloseSwaps, MainType, RuntimeTypes, MainPcs, Commands, Opening
<1>4. RuntimeTypes(r)'
  BY <1>1, <1>2 DEF CloseSwaps, MainType, RuntimeTypes, Life
<1>5. RuntimeInv(r)'
  <2>1. Fresh(r)'
    BY <1>1, <1>2 DEF CloseSwaps, Fresh
  <2>2. ListenOwned(r)'
    BY <1>1, <1>2 DEF CloseSwaps, RuntimeInv, ListenOwned, MainHasListen, ThreadHasListen,
       MainType, RuntimeTypes, Life
  <2>3. MediaOwned(r)'
    BY <1>1, <1>2 DEF CloseSwaps, RuntimeInv, MediaOwned, MainHasFd, ThreadHasFd, IsMedia,
       MainType, RuntimeTypes, Life
  <2>4. Connected(r)'
    BY <1>1, <1>2 DEF CloseSwaps, RuntimeInv, Connected, IsMedia, RuntimeTypes, Life
  <2> QED
    BY <2>1, <2>2, <2>3, <2>4 DEF RuntimeInv
<1> QED
  BY <1>1, <1>2, <1>3, <1>4, <1>5, ClosingKeeps

LEMMA CloseSwapsListenKeeps == ASSUME Inv, CloseSwapsListen PROVE Inv'
<1> DEFINE r == main.r
<1>1. /\ r \in Runtimes /\ r \in 1 .. made /\ made \in Nat /\ MainType(main, made)
      /\ RuntimeTypes(r) /\ RuntimeInv(r) /\ Functions
  BY CloseRuntime DEF CloseSwapsListen
<1>2. /\ UNCHANGED <<made, slot>> /\ main'.r = r /\ Functions'
      /\ \A q \in Runtimes \ {r} : Untouched(q)
      /\ main.pc \in {"swap", "swap_listen", "close", "close_listen", "join"}
  BY <1>1 DEF CloseSwapsListen, MainType, Untouched
<1>3. MainType(main', made)
  BY <1>1 DEF CloseSwapsListen, MainType, RuntimeTypes, MainPcs, Commands, Opening
<1>4. RuntimeTypes(r)'
  BY <1>1, <1>2 DEF CloseSwapsListen, MainType, RuntimeTypes, Life
<1>5. RuntimeInv(r)'
  <2>1. Fresh(r)'
    BY <1>1, <1>2 DEF CloseSwapsListen, Fresh
  <2>2. ListenOwned(r)'
    BY <1>1, <1>2 DEF CloseSwapsListen, RuntimeInv, ListenOwned, MainHasListen,
       ThreadHasListen, MainType, RuntimeTypes, Life
  <2>3. MediaOwned(r)'
    BY <1>1, <1>2 DEF CloseSwapsListen, RuntimeInv, MediaOwned, MainHasFd, ThreadHasFd,
       IsMedia, MainType, RuntimeTypes, Life
  <2>4. Connected(r)'
    BY <1>1, <1>2 DEF CloseSwapsListen, RuntimeInv, Connected, IsMedia, RuntimeTypes, Life
  <2> QED
    BY <2>1, <2>2, <2>3, <2>4 DEF RuntimeInv
<1> QED
  BY <1>1, <1>2, <1>3, <1>4, <1>5, ClosingKeeps

LEMMA ClosesKeeps == ASSUME Inv, Closes PROVE Inv'
<1> DEFINE r == main.r
<1>1. /\ r \in Runtimes /\ r \in 1 .. made /\ made \in Nat /\ MainType(main, made)
      /\ RuntimeTypes(r) /\ RuntimeInv(r) /\ Functions
  BY CloseRuntime DEF Closes
<1>2. /\ UNCHANGED <<made, slot>> /\ main'.r = r /\ Functions'
      /\ \A q \in Runtimes \ {r} : Untouched(q)
      /\ main.pc \in {"swap", "swap_listen", "close", "close_listen", "join"}
  BY <1>1 DEF Closes, MainType, Untouched
<1>3. MainType(main', made)
  BY <1>1 DEF Closes, MainType, RuntimeTypes, MainPcs, Commands, Opening
<1>4. RuntimeTypes(r)'
  BY <1>1, <1>2 DEF Closes, MainType, RuntimeTypes, Life
<1>5. RuntimeInv(r)'
  <2>1. Fresh(r)'
    BY <1>1, <1>2 DEF Closes, Fresh
  <2>2. ListenOwned(r)'
    BY <1>1, <1>2 DEF Closes, RuntimeInv, ListenOwned, MainHasListen, ThreadHasListen,
       MainType, RuntimeTypes, Life
  <2>3. MediaOwned(r)'
    BY <1>1, <1>2 DEF Closes, RuntimeInv, MediaOwned, MainHasFd, ThreadHasFd, IsMedia,
       MainType, RuntimeTypes, Life
  <2>4. Connected(r)'
    BY <1>1, <1>2 DEF Closes, RuntimeInv, Connected, IsMedia, RuntimeTypes, Life
  <2> QED
    BY <2>1, <2>2, <2>3, <2>4 DEF RuntimeInv
<1> QED
  BY <1>1, <1>2, <1>3, <1>4, <1>5, ClosingKeeps

LEMMA ClosesListenKeeps == ASSUME Inv, ClosesListen PROVE Inv'
<1> DEFINE r == main.r
<1>1. /\ r \in Runtimes /\ r \in 1 .. made /\ made \in Nat /\ MainType(main, made)
      /\ RuntimeTypes(r) /\ RuntimeInv(r) /\ Functions
  BY CloseRuntime DEF ClosesListen
<1>2. /\ UNCHANGED <<made, slot>> /\ main'.r = r /\ Functions'
      /\ \A q \in Runtimes \ {r} : Untouched(q)
      /\ main.pc \in {"swap", "swap_listen", "close", "close_listen", "join"}
  BY <1>1 DEF ClosesListen, MainType, Untouched
<1>3. MainType(main', made)
  BY <1>1 DEF ClosesListen, Then, MainType, RuntimeTypes, MainPcs, Commands, Opening
<1>4. RuntimeTypes(r)'
  BY <1>1, <1>2 DEF ClosesListen, MainType, RuntimeTypes, Life
<1>5. RuntimeInv(r)'
  <2>1. Fresh(r)'
    BY <1>1, <1>2 DEF ClosesListen, Fresh
  <2>2. ListenOwned(r)'
    BY <1>1, <1>2 DEF ClosesListen, Then, RuntimeInv, ListenOwned, MainHasListen,
       ThreadHasListen, MainType, RuntimeTypes, Life
  <2>3. MediaOwned(r)'
    BY <1>1, <1>2 DEF ClosesListen, Then, RuntimeInv, MediaOwned, MainHasFd, ThreadHasFd,
       IsMedia, MainType, RuntimeTypes, Life
  <2>4. Connected(r)'
    BY <1>1, <1>2 DEF ClosesListen, Then, RuntimeInv, Connected, IsMedia, RuntimeTypes, Life
  <2> QED
    BY <2>1, <2>2, <2>3, <2>4 DEF RuntimeInv
<1> QED
  BY <1>1, <1>2, <1>3, <1>4, <1>5, ClosingKeeps

LEMMA JoinsKeeps == ASSUME Inv, Joins PROVE Inv'
<1> DEFINE r == main.r
<1>1. /\ r \in Runtimes /\ r \in 1 .. made /\ made \in Nat /\ MainType(main, made)
      /\ RuntimeTypes(r) /\ RuntimeInv(r) /\ Functions
  BY CloseRuntime DEF Joins
<1>2. /\ UNCHANGED <<made, slot>> /\ main'.r = r /\ Functions'
      /\ \A q \in Runtimes \ {r} : Untouched(q)
      /\ main.pc \in {"swap", "swap_listen", "close", "close_listen", "join"}
  BY <1>1 DEF Joins, MainType, Untouched
<1>3. MainType(main', made)
  BY <1>1 DEF Joins, Then, MainType, RuntimeTypes, MainPcs, Commands, Opening
<1>4. RuntimeTypes(r)'
  BY <1>1, <1>2 DEF Joins, MainType, RuntimeTypes, Life
<1>5. RuntimeInv(r)'
  <2>1. Fresh(r)'
    BY <1>1, <1>2 DEF Joins, Fresh
  <2>2. ListenOwned(r)'
    BY <1>1, <1>2 DEF Joins, Then, RuntimeInv, ListenOwned, MainHasListen, ThreadHasListen,
       MainType, RuntimeTypes, Life
  <2>3. MediaOwned(r)'
    BY <1>1, <1>2 DEF Joins, Then, RuntimeInv, MediaOwned, MainHasFd, ThreadHasFd, IsMedia,
       MainType, RuntimeTypes, Life
  <2>4. Connected(r)'
    BY <1>1, <1>2 DEF Joins, Then, RuntimeInv, Connected, IsMedia, RuntimeTypes, Life
  <2> QED
    BY <2>1, <2>2, <2>3, <2>4 DEF RuntimeInv
<1> QED
  BY <1>1, <1>2, <1>3, <1>4, <1>5, ClosingKeeps

(* Opening: the numbers in use grow by one, and the new runtime was fresh.     *)
LEMMA OpenFailsKeeps == ASSUME Inv, OpenFails PROVE Inv'
<1>1. /\ \A q \in Runtimes : RuntimeTypes(q)
      /\ Functions /\ made \in 0 .. MaxRuntimes /\ slot \in [Channels -> 0 .. made]
  BY TypesOf, FunctionsOf DEF Inv, TypeOK
<1>2. UNCHANGED <<made, slot, runtime, socket, listener, receiver>> /\ main' = Idle
      /\ main.pc = "open"
  BY DEF OpenFails
<1>3. MainType(main', made') /\ MainOK' /\ Functions'
  BY <1>1, <1>2 DEF MainType, Idle, MainPcs, Commands, MainOK
<1>4. ASSUME NEW q \in Runtimes PROVE RuntimeTypes(q)' /\ RuntimeInv(q)'
  <2>1. RuntimeTypes(q)' /\ Alike(q)
    BY <1>1, <1>2 DEF RuntimeTypes, Alike
  <2>2. ~MainHasListen(q) /\ ~MainHasFd(q) /\ ~MainHasListen(q)' /\ ~MainHasFd(q)'
    BY <1>2 DEF MainHasListen, MainHasFd, Idle
  <2> QED
    BY <1>2, <2>1, <2>2, NotHeldKeeps
<1> QED
  BY <1>1, <1>2, <1>3, <1>4, MainStepKeeps

LEMMA StartsKeeps ==
  ASSUME Inv, NEW c \in Channels, NEW fd \in BOOLEAN, Starts(c, fd), Functions',
         NEW r, r = made + 1,
         slot' = slot \/ slot' = [slot EXCEPT ![c] = made + 1],
         \A q \in Runtimes \ {r} : UNCHANGED <<listener[q], receiver[q]>>,
         RuntimeTypes(r)', RuntimeInv(r)'
  PROVE  Inv'
<1>1. /\ \A q \in Runtimes : RuntimeTypes(q)
      /\ Functions /\ made \in 0 .. MaxRuntimes /\ slot \in [Channels -> 0 .. made]
      /\ made \in Nat
  BY TypesOf, FunctionsOf DEF Inv, TypeOK
<1>2. made' = made + 1 /\ main' = Idle /\ main.pc = "open" /\ made' \in 0 .. MaxRuntimes
  BY <1>1, RuntimesAssumption DEF Starts
<1>3. slot' \in [Channels -> 0 .. made']
  <2>1. \A d \in Channels : slot'[d] \in 0 .. made'
    BY <1>1, <1>2
  <2> QED
    BY <1>1, <2>1
<1>4. MainType(main', made') /\ MainOK'
  BY <1>1, <1>2 DEF MainType, Idle, MainPcs, Commands, MainOK
<1>5. ASSUME NEW q \in Runtimes, q # r PROVE RuntimeTypes(q)' /\ RuntimeInv(q)'
  <2>1. runtime'[q] = runtime[q] /\ socket'[q] = socket[q]
    BY <1>1, <1>5 DEF Starts, Functions
  <2>2. listener'[q] = listener[q] /\ receiver'[q] = receiver[q]
    BY <1>5
  <2>3. RuntimeTypes(q)' /\ Alike(q)
    BY <1>1, <2>1, <2>2 DEF RuntimeTypes, Alike
  <2>4. ~MainHasListen(q) /\ ~MainHasFd(q) /\ ~MainHasListen(q)' /\ ~MainHasFd(q)'
    BY <1>2 DEF MainHasListen, MainHasFd, Idle
  <2> QED
    BY <1>2, <2>3, <2>4, NotHeldKeeps
<1>6. \A q \in Runtimes : RuntimeTypes(q)' /\ RuntimeInv(q)'
  BY <1>5
<1> QED
  BY <1>2, <1>3, <1>4, <1>6, MainStepKeeps

LEMMA FreshRuntime ==
  ASSUME Inv, main.pc = "open", made < MaxRuntimes
  PROVE  /\ made \in Nat /\ made + 1 \in Runtimes /\ Functions
         /\ RuntimeTypes(made + 1) /\ RuntimeInv(made + 1)
         /\ ~runtime[made + 1].listen_fd
         /\ socket[made + 1].fd = "none" /\ socket[made + 1].listen_fd = "none"
         /\ listener[made + 1].pc = "none" /\ receiver[made + 1].pc = "none"
<1>1. made \in 0 .. MaxRuntimes
  BY DEF Inv, TypeOK
<1>2. made \in Nat /\ made + 1 \in Runtimes /\ made + 1 > made
  BY <1>1, RuntimesAssumption DEF Runtimes
<1>3. RuntimeInv(made + 1) /\ RuntimeTypes(made + 1) /\ Functions
  BY <1>2, TypesOf, FunctionsOf DEF Inv
<1> QED
  BY <1>2, <1>3 DEF RuntimeInv, Fresh

LEMMA OpensListenerKeeps == 
  ASSUME Inv, OpensListener, NEW r, r = made + 1
  PROVE  Inv'
<1>1. Starts("signal", FALSE) /\ "signal" \in Channels
  BY DEF OpensListener, Channels
<1>2. /\ made \in Nat /\ r \in Runtimes /\ Functions
      /\ RuntimeTypes(r) /\ RuntimeInv(r)
      /\ ~runtime[r].listen_fd /\ socket[r].fd = "none" /\ socket[r].listen_fd = "none"
      /\ listener[r].pc = "none" /\ receiver[r].pc = "none"
  BY <1>1, FreshRuntime DEF Starts
<1>3. /\ made' = r /\ main' = Idle
      /\ runtime'[r] = [channel |-> "signal", stop |-> FALSE, fd |-> FALSE, listen_fd |-> FALSE]
      /\ socket'[r] \in [fd : Life, listen_fd : Life]
      /\ socket'[r].fd = "none" /\ socket'[r].listen_fd = "none"
  BY <1>1, <1>2 DEF Starts, RuntimeTypes, Life
<1>4. /\ listener'[r].pc = "socket" /\ receiver'[r].pc = "none"
      /\ listener'[r] \in [pc : ListenerPcs, fd : BOOLEAN, listen_fd : BOOLEAN]
      /\ receiver'[r] \in [pc : AnyReceiverPc, fd : BOOLEAN, listen_fd : BOOLEAN]
  BY <1>2 DEF OpensListener, RuntimeTypes, ListenerPcs, AnyReceiverPc, ReceiverPcs
<1>5. \A q \in Runtimes \ {r} : UNCHANGED <<listener[q], receiver[q]>>
  BY <1>2 DEF OpensListener, Functions
<1>6. Functions'
  BY <1>1, <1>2 DEF OpensListener, Starts
<1>7. RuntimeTypes(r)'
  BY <1>1, <1>3, <1>4 DEF RuntimeTypes, Channels, ReceiverPcs
<1>8. RuntimeInv(r)'
  BY <1>2, <1>3, <1>4 DEF RuntimeInv, Fresh, ListenOwned, MediaOwned, Connected, IsMedia,
     Idle, MainHasListen, MainHasFd, ThreadHasListen, ThreadHasFd
<1>9. slot' = slot \/ slot' = [slot EXCEPT !["signal"] = made + 1]
  BY DEF OpensListener
<1> QED
  BY <1>1, <1>5, <1>6, <1>7, <1>8, <1>9, StartsKeeps

LEMMA OpensConnectionKeeps == 
  ASSUME Inv, OpensConnection, NEW r, r = made + 1
  PROVE  Inv'
<1>1. Starts("signal", TRUE) /\ "signal" \in Channels
  BY DEF OpensConnection, Opens, Channels
<1>2. /\ made \in Nat /\ r \in Runtimes /\ Functions
      /\ RuntimeTypes(r) /\ RuntimeInv(r)
      /\ ~runtime[r].listen_fd /\ socket[r].fd = "none" /\ socket[r].listen_fd = "none"
      /\ listener[r].pc = "none" /\ receiver[r].pc = "none"
  BY <1>1, FreshRuntime DEF Starts
<1>3. /\ made' = r /\ main' = Idle
      /\ runtime'[r] = [channel |-> "signal", stop |-> FALSE, fd |-> TRUE, listen_fd |-> FALSE]
      /\ socket'[r] \in [fd : Life, listen_fd : Life]
      /\ socket'[r].fd = "open" /\ socket'[r].listen_fd = "none"
  BY <1>1, <1>2 DEF Starts, RuntimeTypes, Life
<1>4. /\ listener'[r].pc = "none" /\ receiver'[r].pc = "test"
      /\ ~receiver'[r].fd
      /\ listener'[r] \in [pc : ListenerPcs, fd : BOOLEAN, listen_fd : BOOLEAN]
      /\ receiver'[r] \in [pc : AnyReceiverPc, fd : BOOLEAN, listen_fd : BOOLEAN]
  BY <1>2 DEF OpensConnection, Opens, RuntimeTypes, ListenerPcs, AnyReceiverPc, ReceiverPcs
<1>5. \A q \in Runtimes \ {r} : UNCHANGED <<listener[q], receiver[q]>>
  BY <1>2 DEF OpensConnection, Opens, Functions
<1>6. Functions'
  BY <1>1, <1>2 DEF OpensConnection, Opens, Starts
<1>7. RuntimeTypes(r)'
  BY <1>1, <1>3, <1>4 DEF RuntimeTypes, Channels, ReceiverPcs
<1>8. RuntimeInv(r)'
  BY <1>2, <1>3, <1>4 DEF RuntimeInv, Fresh, ListenOwned, MediaOwned, Connected, IsMedia,
     Idle, MainHasListen, MainHasFd, ThreadHasListen, ThreadHasFd
<1>9. slot' = slot \/ slot' = [slot EXCEPT !["signal"] = made + 1]
  BY DEF OpensConnection, Opens
<1> QED
  BY <1>1, <1>5, <1>6, <1>7, <1>8, <1>9, StartsKeeps

LEMMA OpensMediaKeeps == 
  ASSUME Inv, OpensMedia, NEW r, r = made + 1
  PROVE  Inv'
<1>1. Starts("media", TRUE) /\ "media" \in Channels
  BY DEF OpensMedia, Opens, Channels
<1>2. /\ made \in Nat /\ r \in Runtimes /\ Functions
      /\ RuntimeTypes(r) /\ RuntimeInv(r)
      /\ ~runtime[r].listen_fd /\ socket[r].fd = "none" /\ socket[r].listen_fd = "none"
      /\ listener[r].pc = "none" /\ receiver[r].pc = "none"
  BY <1>1, FreshRuntime DEF Starts
<1>3. /\ made' = r /\ main' = Idle
      /\ runtime'[r] = [channel |-> "media", stop |-> FALSE, fd |-> TRUE, listen_fd |-> FALSE]
      /\ socket'[r] \in [fd : Life, listen_fd : Life]
      /\ socket'[r].fd = "open" /\ socket'[r].listen_fd = "none"
  BY <1>1, <1>2 DEF Starts, RuntimeTypes, Life
<1>4. /\ listener'[r].pc = "none" /\ receiver'[r].pc = "test"
      /\ ~receiver'[r].fd
      /\ listener'[r] \in [pc : ListenerPcs, fd : BOOLEAN, listen_fd : BOOLEAN]
      /\ receiver'[r] \in [pc : AnyReceiverPc, fd : BOOLEAN, listen_fd : BOOLEAN]
  BY <1>2 DEF OpensMedia, Opens, RuntimeTypes, ListenerPcs, AnyReceiverPc, ReceiverPcs
<1>5. \A q \in Runtimes \ {r} : UNCHANGED <<listener[q], receiver[q]>>
  BY <1>2 DEF OpensMedia, Opens, Functions
<1>6. Functions'
  BY <1>1, <1>2 DEF OpensMedia, Opens, Starts
<1>7. RuntimeTypes(r)'
  BY <1>1, <1>3, <1>4 DEF RuntimeTypes, Channels, ReceiverPcs
<1>8. RuntimeInv(r)'
  BY <1>2, <1>3, <1>4 DEF RuntimeInv, Fresh, ListenOwned, MediaOwned, Connected, IsMedia,
     Idle, MainHasListen, MainHasFd, ThreadHasListen, ThreadHasFd
<1>9. slot' = slot \/ slot' = [slot EXCEPT !["media"] = made + 1]
  BY DEF OpensMedia, Opens
<1> QED
  BY <1>1, <1>5, <1>6, <1>7, <1>8, <1>9, StartsKeeps

LEMMA MediaPeerFailsKeeps == 
  ASSUME Inv, MediaPeerFails, NEW r, r = made + 1
  PROVE  Inv'
<1>1. Starts("media", TRUE) /\ "media" \in Channels
  BY DEF MediaPeerFails, Channels
<1>2. /\ made \in Nat /\ r \in Runtimes /\ Functions
      /\ RuntimeTypes(r) /\ RuntimeInv(r)
      /\ ~runtime[r].listen_fd /\ socket[r].fd = "none" /\ socket[r].listen_fd = "none"
      /\ listener[r].pc = "none" /\ receiver[r].pc = "none"
  BY <1>1, FreshRuntime DEF Starts
<1>3. /\ made' = r /\ main' = Idle
      /\ runtime'[r] = [channel |-> "media", stop |-> FALSE, fd |-> TRUE, listen_fd |-> FALSE]
      /\ socket'[r] \in [fd : Life, listen_fd : Life]
      /\ socket'[r].fd = "open" /\ socket'[r].listen_fd = "none"
  BY <1>1, <1>2 DEF Starts, RuntimeTypes, Life
<1>4. /\ listener'[r].pc = "none" /\ receiver'[r].pc = "none"
      /\ listener'[r] \in [pc : ListenerPcs, fd : BOOLEAN, listen_fd : BOOLEAN]
      /\ receiver'[r] \in [pc : AnyReceiverPc, fd : BOOLEAN, listen_fd : BOOLEAN]
  BY <1>2 DEF MediaPeerFails, RuntimeTypes, ListenerPcs, AnyReceiverPc, ReceiverPcs
<1>5. \A q \in Runtimes \ {r} : UNCHANGED <<listener[q], receiver[q]>>
  BY <1>2 DEF MediaPeerFails, Functions
<1>6. Functions'
  BY <1>1, <1>2 DEF MediaPeerFails, Starts
<1>7. RuntimeTypes(r)'
  BY <1>1, <1>3, <1>4 DEF RuntimeTypes, Channels, ReceiverPcs
<1>8. RuntimeInv(r)'
  BY <1>2, <1>3, <1>4 DEF RuntimeInv, Fresh, ListenOwned, MediaOwned, Connected, IsMedia,
     Idle, MainHasListen, MainHasFd, ThreadHasListen, ThreadHasFd
<1>9. slot' = slot \/ slot' = [slot EXCEPT !["media"] = made + 1]
  BY DEF MediaPeerFails
<1> QED
  BY <1>1, <1>5, <1>6, <1>7, <1>8, <1>9, StartsKeeps

-------------------------------------------------------------------------------
(* The theorems                                                                *)

LEMMA NextInv == Inv /\ [Next]_vars => Inv'
<1> SUFFICES ASSUME Inv, [Next]_vars PROVE Inv'
  OBVIOUS
<1>1. ASSUME NEW cmd \in Commands \ {"stop_media"}, Command(cmd) PROVE Inv'
  BY <1>1, TakesKeeps DEF Command
<1>2. CASE MainStep
  <2>1. CASE StopsMedia
    BY <2>1, TakesKeeps DEF StopsMedia, Commands
  <2> QED
    BY <1>2, <2>1, CloseSwapsKeeps, CloseSwapsListenKeeps, ClosesKeeps, ClosesListenKeeps,
       JoinsKeeps, OpenFailsKeeps, OpensListenerKeeps, OpensConnectionKeeps,
       OpensMediaKeeps, MediaPeerFailsKeeps DEF MainStep
<1>3. ASSUME NEW r \in Runtimes, ListenerStep(r) \/ AcceptFails(r) \/ Accepts(r) PROVE Inv'
  BY <1>3, ListenerFailsKeeps, ListenerCreatesKeeps, ListenerStoresKeeps,
     ListenerTestsKeeps, AcceptFailsKeeps, AcceptsKeeps, ListenerPublishesKeeps,
     ListenerJoinsKeeps, ListenerSwapsKeeps, ListenerClosesKeeps, ListenerEndsKeeps DEF
     ListenerStep
<1>4. ASSUME NEW r \in Runtimes, ReceiverStep(r) \/ Receives(r) \/ ReceiveFails(r) PROVE Inv'
  BY <1>4, ReceiverTestsKeeps, MediaLoadsKeeps, ReceivesKeeps, ReceiveFailsKeeps,
     ComparesKeeps, ClearsKeeps, MediaSwapsKeeps, ReceiverEndsKeeps DEF ReceiverStep
<1>5. CASE UNCHANGED vars
  <2>1. \A q \in Runtimes : RuntimeTypes(q)' /\ RuntimeInv(q)'
    <3> SUFFICES ASSUME NEW q \in Runtimes PROVE RuntimeTypes(q)' /\ RuntimeInv(q)'
      OBVIOUS
    <3>1. UNCHANGED <<made, main>> /\ Untouched(q)
      BY <1>5 DEF vars, Untouched
    <3> QED
      BY <3>1, OthersKeep
  <2>2. TypeOK' /\ MainOK'
    BY <1>5 DEF vars, Inv, TypeOK, MainOK
  <2> QED
    BY <2>1, <2>2 DEF Inv
<1> QED
  BY <1>1, <1>2, <1>3, <1>4, <1>5 DEF Next

LEMMA InvHolds == Spec => []Inv
  BY InitInv, NextInv, PTL DEF Spec

(* The types of what the three kinds of threads share.                         *)
THEOREM TypeCorrect == Spec => []TypeOK
<1>1. Inv => TypeOK
  BY DEF Inv
<1> QED
  BY <1>1, InvHolds, PTL

(* The listening socket and the media socket are closed at most once, whatever *)
(* the order of the closing command and the thread that ends: the swap gives   *)
(* the descriptor to one of them.                                              *)
THEOREM ClosedAtMostOnce == Spec => []ClosedOnce
<1>1. Inv => ClosedOnce
  BY DEF Inv, ClosedOnce, RuntimeInv, ListenOwned, MediaOwned
<1> QED
  BY <1>1, InvHolds, PTL

(* No socket of a runtime is left open by its threads and the command that     *)
(* closed it, each leaving it to the other.                                    *)
THEOREM NothingStaysOpen == Spec => []NothingLeaks
<1>1. Inv => NothingLeaks
  <2> SUFFICES ASSUME Inv, NEW r \in Runtimes, Ended(r), ~HandedOver(r),
                      <<listener[r].pc, receiver[r].pc>> # <<"none", "none">>
               PROVE  socket[r].fd # "open" /\ socket[r].listen_fd # "open"
    BY DEF NothingLeaks
  <2>1. RuntimeInv(r) /\ RuntimeTypes(r)
    BY TypesOf DEF Inv
  <2>2. listener[r].pc \in {"none", "done"} /\ receiver[r].pc \in {"none", "done"}
    BY DEF Ended
  <2>3. ~MainHasListen(r) /\ ~MainHasFd(r)
    BY DEF HandedOver, MainHasListen, MainHasFd
  <2>4. socket[r].listen_fd # "open"
    BY <2>1, <2>2, <2>3 DEF RuntimeInv, ListenOwned, ThreadHasListen
  <2>5. socket[r].fd # "open"
    <3>1. CASE IsMedia(r)
      <4>1. receiver[r].pc = "done"
        BY <2>1, <2>2, <3>1 DEF RuntimeTypes, IsMedia
      <4> QED
        BY <2>1, <2>3, <3>1, <4>1 DEF RuntimeInv, MediaOwned, ThreadHasFd
    <3>2. CASE ~IsMedia(r)
      BY <2>1, <2>2, <3>2 DEF RuntimeInv, Connected
    <3> QED
      BY <3>1, <3>2
  <2> QED
    BY <2>4, <2>5
<1> QED
  BY <1>1, InvHolds, PTL

(* Both: what a swap hands over is closed once and not forgotten.              *)
THEOREM HandedOverIsClosed == Spec => []ClosedExactlyOnce
  BY ClosedAtMostOnce, NothingStaysOpen, PTL DEF ClosedExactlyOnce

(* A listener accepts a connection only when the last one is closed and its    *)
(* receive thread has ended, and conn_fd is free when the new one is stored,   *)
(* so no connection is lost by being overwritten.                              *)
THEOREM OneAtATime == Spec => []OneConnection
<1>1. Inv => OneConnection
  <2> SUFFICES ASSUME Inv, NEW r \in Runtimes
               PROVE  /\ socket[r].fd # "over"
                      /\ listener[r].pc = "publish" => ~runtime[r].fd
    BY DEF OneConnection
  <2>1. RuntimeInv(r) /\ RuntimeTypes(r)
    BY TypesOf DEF Inv
  <2>2. CASE IsMedia(r)
    BY <2>1, <2>2 DEF RuntimeInv, RuntimeTypes, MediaOwned, IsMedia
  <2>3. CASE ~IsMedia(r)
    BY <2>1, <2>3 DEF RuntimeInv, Connected
  <2> QED
    BY <2>2, <2>3
<1> QED
  BY <1>1, InvHolds, PTL

===============================================================================

----------------------------- MODULE MediaSendQueue -----------------------------
(* The send side of one media runtime of the Tauri backend                     *)
(* (App/src-tauri/src/main.rs and module/media.rs): zt_media_send_batch puts   *)
(* batches of packets in a bounded queue, a worker thread takes them out and   *)
(* sends their packets one by one, and zt_media_close_internal stops the       *)
(* worker.  Commands run one at a time on the main thread.                     *)
(*                                                                             *)
(* The worker tests the queue and the stop flag while it holds the queue's     *)
(* mutex, and its Condvar wait gives the mutex back; enqueueing needs the      *)
(* mutex too, setting the flag and notifying do not.  A batch is its priority, *)
(* its number of packets and an identity; pacing and contents are left out.    *)
EXTENDS Integers, Sequences

CONSTANTS
  Shapes,      \* the [tag, count, spread] of batches the frontend sends
  SmallCount,  \* 4 packets: a delta batch up to this size ...
  ShortSpread, \* ... and 10 ms: with this spread is not bulk
  Limit,       \* MEDIA_SEND_BATCH_QUEUE_LIMIT
  MaxBatches   \* batches sent in a run (bound)

Tags == {"control", "keyframe", "retransmit", "nack", "delta"}

ASSUME ShapesAssumption ==
  Shapes \subseteq [tag : Tags, count : Nat \ {0}, spread : Nat]
ASSUME LimitAssumption ==
  /\ Limit \in Nat \ {0} /\ MaxBatches \in Nat
  /\ SmallCount \in Nat /\ ShortSpread \in Nat

Ids == 1 .. MaxBatches
Batch == [id : Ids, priority : 0 .. 3, count : Nat \ {0}]
NoBatch == [id |-> 0, priority |-> 0, count |-> 0]

VARIABLES
  queue,    \* the batches in MediaSendQueue.queue
  stop,     \* MediaRuntime.stop
  fd_open,  \* MediaRuntime.fd holds a descriptor
  closer,   \* the main thread in zt_media_close_internal:
            \* "running", "stored", "notified", "closed", "joined"
  worker,   \* the send thread: "test", "deciding" (to wait, with the mutex held),
            \* "waiting", "send", "exited"
  current,  \* the batch the worker is sending
  left,     \* packets of it still to send
  enqueued, \* history: batches accepted by zt_media_send_batch, rejected included
  last_bulk \* history: identity of the last batch below priority 2 taken out

vars == <<queue, stop, fd_open, closer, worker, current, left, enqueued, last_bulk>>

TypeOK ==
  /\ queue \in Seq(Batch) /\ Len(queue) <= Limit
  /\ stop \in BOOLEAN
  /\ fd_open \in BOOLEAN
  /\ closer \in {"running", "stored", "notified", "closed", "joined"}
  /\ worker \in {"test", "deciding", "waiting", "send", "exited"}
  /\ current \in Batch \cup {NoBatch}
  /\ left \in Nat
  /\ enqueued \in 0 .. MaxBatches
  /\ last_bulk \in 0 .. MaxBatches

(* start_media_runtime: a fresh queue and flag, an open socket, a new worker. *)
Init ==
  /\ queue = << >>
  /\ stop = FALSE
  /\ fd_open = TRUE
  /\ closer = "running"
  /\ worker = "test"
  /\ current = NoBatch
  /\ left = 0
  /\ enqueued = 0
  /\ last_bulk = 0

-------------------------------------------------------------------------------
(* Queueing a batch. *)

(* classify_media_batch_priority *)
Priority(shape) ==
  CASE shape.tag = "control" -> 3
    [] shape.tag \in {"keyframe", "retransmit"} -> 2
    [] shape.tag = "nack" -> 1
    [] OTHER -> IF shape.count <= SmallCount /\ shape.spread <= ShortSpread THEN 1 ELSE 0

(* VecDeque::remove *)
Without(q, i) == [j \in 1 .. Len(q) - 1 |-> IF j < i THEN q[j] ELSE q[j + 1]]

(* The batch a full queue gives up for a new one: the first of the lowest      *)
(* priority, if that is below the new one's; mutant: any one below it.         *)
VictimAnyLower(q, priority) == {i \in DOMAIN q : q[i].priority < priority}
Victim(q, priority) ==
  {i \in DOMAIN q :
     /\ q[i].priority < priority
     /\ \A j \in DOMAIN q :
          q[i].priority < q[j].priority \/ (q[i].priority = q[j].priority /\ i <= j)}

(* The test for a full queue; mutant: one batch too many gets in. *)
FullLate(q) == Len(q) > Limit
Full(q) == Len(q) >= Limit

(* push_front for priority 2 and above, push_back below; mutants: only control *)
(* batches go to the front; all batches do.                                    *)
InsertedInFront(q, b) == <<b>> \o q
InsertedControlFirst(q, b) == IF b.priority >= 3 THEN <<b>> \o q ELSE Append(q, b)
Inserted(q, b) == IF b.priority >= 2 THEN <<b>> \o q ELSE Append(q, b)

(* Condvar::notify_one: a waiting worker tests again; mutant: no notification. *)
NoNotify == UNCHANGED worker
Notify == worker' = IF worker = "waiting" THEN "test" ELSE worker

(* zt_media_send_batch, with enqueue_media_send_batch under the queue's mutex, *)
(* which a worker that is about to wait holds.  A full queue gives up a batch  *)
(* of lower priority, or the new batch.                                        *)
Enqueue(shape) ==
  /\ closer = "running"
  /\ worker # "deciding"
  /\ enqueued < MaxBatches
  /\ enqueued' = enqueued + 1
  /\ LET b == [id |-> enqueued + 1, priority |-> Priority(shape), count |-> shape.count]
     IN \/ /\ ~Full(queue)
           /\ queue' = Inserted(queue, b)
           /\ Notify
        \/ /\ Full(queue)
           /\ \E i \in Victim(queue, b.priority) : queue' = Inserted(Without(queue, i), b)
           /\ Notify
        \/ /\ Full(queue) /\ Victim(queue, b.priority) = {}
           /\ UNCHANGED <<queue, worker>>
  /\ UNCHANGED <<stop, fd_open, closer, current, left, last_bulk>>

-------------------------------------------------------------------------------
(* The worker thread. *)

(* The worker's exit test. *)
DrainedAndStopped == stop /\ queue = << >>

(* The queue is empty and the flag is not set: the worker will wait. *)
WorkerDecides ==
  /\ worker = "test"
  /\ queue = << >> /\ ~stop
  /\ worker' = "deciding"
  /\ UNCHANGED <<queue, stop, fd_open, closer, current, left, enqueued, last_bulk>>

(* Condvar::wait puts the worker to sleep and releases the mutex. *)
WorkerSleeps ==
  /\ worker = "deciding"
  /\ worker' = "waiting"
  /\ UNCHANGED <<queue, stop, fd_open, closer, current, left, enqueued, last_bulk>>

(* A wait may end without a notification. *)
SpuriousWakeup ==
  /\ worker = "waiting"
  /\ worker' = "test"
  /\ UNCHANGED <<queue, stop, fd_open, closer, current, left, enqueued, last_bulk>>

WorkerExits ==
  /\ worker = "test"
  /\ DrainedAndStopped
  /\ worker' = "exited"
  /\ UNCHANGED <<queue, stop, fd_open, closer, current, left, enqueued, last_bulk>>

(* A queued batch is taken even when the flag is set. *)
WorkerPops ==
  /\ worker = "test"
  /\ queue # << >>
  /\ queue' = Tail(queue)
  /\ current' = Head(queue)
  /\ left' = Head(queue).count
  /\ worker' = "send"
  /\ last_bulk' = IF Head(queue).priority < 2 THEN Head(queue).id ELSE last_bulk
  /\ UNCHANGED <<stop, fd_open, closer, enqueued>>

(* One packet is sent (media_send_packet_by_parts needs an open descriptor). *)
WorkerSends ==
  /\ worker = "send"
  /\ left > 0 /\ ~stop /\ fd_open
  /\ left' = left - 1
  /\ UNCHANGED <<queue, stop, fd_open, closer, worker, current, enqueued, last_bulk>>

(* The batch is finished, the flag is set, or sending a packet failed. *)
WorkerEndsBatch ==
  /\ worker = "send"
  /\ worker' = "test"
  /\ current' = NoBatch
  /\ left' = 0
  /\ UNCHANGED <<queue, stop, fd_open, closer, enqueued, last_bulk>>

-------------------------------------------------------------------------------
(* The main thread closes the runtime, and a later command opens a new one. *)

CloseStores ==
  /\ closer = "running"
  /\ closer' = "stored"
  /\ stop' = TRUE
  /\ UNCHANGED <<queue, fd_open, worker, current, left, enqueued, last_bulk>>

CloseNotifies ==
  /\ closer = "stored"
  /\ closer' = "notified"
  /\ Notify
  /\ UNCHANGED <<queue, stop, fd_open, current, left, enqueued, last_bulk>>

CloseFd ==
  /\ closer = "notified"
  /\ closer' = "closed"
  /\ fd_open' = FALSE
  /\ UNCHANGED <<queue, stop, worker, current, left, enqueued, last_bulk>>

Joined ==
  /\ closer = "closed" /\ worker = "exited"
  /\ closer' = "joined"
  /\ UNCHANGED <<queue, stop, fd_open, worker, current, left, enqueued, last_bulk>>

Reopen ==
  /\ closer = "joined"
  /\ queue' = << >>
  /\ stop' = FALSE
  /\ fd_open' = TRUE
  /\ closer' = "running"
  /\ worker' = "test"
  /\ current' = NoBatch
  /\ left' = 0
  /\ enqueued' = 0
  /\ last_bulk' = 0

WorkerStep ==
  \/ WorkerDecides \/ WorkerSleeps \/ WorkerExits \/ WorkerPops
  \/ WorkerSends \/ WorkerEndsBatch
CloserStep == CloseNotifies \/ CloseFd \/ Joined

Next ==
  \/ \E shape \in Shapes : Enqueue(shape)
  \/ WorkerStep \/ SpuriousWakeup
  \/ CloseStores \/ CloserStep \/ Reopen

Spec == Init /\ [][Next]_vars

(* Both threads are scheduled; nobody has to close the runtime and the wait    *)
(* need not end by itself.                                                     *)
FairSpec == Spec /\ WF_vars(WorkerStep) /\ WF_vars(CloserStep)

-------------------------------------------------------------------------------
(* Properties. *)

QueuedIds == {queue[i].id : i \in DOMAIN queue}

(* Control, keyframe and retransmission batches are in front of all others,    *)
(* whatever was evicted or taken out in between.                               *)
UrgentFirst ==
  \A i, j \in DOMAIN queue :
    i < j /\ queue[j].priority >= 2 => queue[i].priority >= 2

(* Batches below priority 2 leave the queue in the order they entered it, so   *)
(* delta frames are not reordered by the sender.                               *)
BulkInOrder == [][last_bulk' \in {0, last_bulk} \/ last_bulk' > last_bulk]_vars

(* A batch that leaves the queue without being sent has the lowest priority in *)
(* the queue: eviction never costs a batch that matters more than one it keeps. *)
EvictsLowest ==
  [][\A i \in DOMAIN queue :
       queue[i].id \in QueuedIds' \/ queue[i] = current'
         \/ \A j \in DOMAIN queue : queue[i].priority <= queue[j].priority]_vars

(* A worker that sleeps, or has made up its mind to, has nothing to send: no   *)
(* wakeup of zt_media_send_batch is lost.                                      *)
NoSleepOnWork == worker \in {"deciding", "waiting"} => queue = << >>

(* A worker that has exited leaves no batch behind. *)
DrainedOnExit == worker = "exited" => queue = << >>

(* A worker that sleeps, is about to or has ended leaves nothing in the queue. *)
NoStrandedWork == NoSleepOnWork /\ DrainedOnExit

(* A stop that finds the worker anywhere but between its test and its wait     *)
(* makes it exit.                                                              *)
StopReachesWorker == (closer = "stored" /\ worker # "deciding") ~> worker = "exited"

(* The comment at signal.rs:304 says that closing the media runtime stops its  *)
(* threads: a close ends with the worker joined.                               *)
CloseStopsThreads == closer = "closed" ~> closer = "joined"
=============================================================================

------------------------- MODULE MediaSendQueue_proofs -------------------------
(* Safety of the send queue for every set of batch shapes, queue limit and     *)
(* number of batches.                                                          *)
EXTENDS MediaSendQueue, TLAPS

(* The flag is set exactly from the start of a close to the next runtime. *)
StopWhileClosing == stop <=> closer # "running"

(* A worker exits only once its runtime is being closed. *)
ExitsOnStop == worker = "exited" => stop

Inv ==
  /\ TypeOK
  /\ StopWhileClosing
  /\ ExitsOnStop
  /\ UrgentFirst
  /\ NoSleepOnWork
  /\ DrainedOnExit

-------------------------------------------------------------------------------
(* The queue operations. *)

LEMMA FunctionIsSeq ==
  ASSUME NEW S, NEW n \in Nat, NEW f \in [1 .. n -> S]
  PROVE  f \in Seq(S) /\ Len(f) = n
  OBVIOUS

LEMMA PriorityType ==
  ASSUME NEW shape \in Shapes
  PROVE  Priority(shape) \in 0 .. 3
  BY DEF Priority

LEMMA WithoutType ==
  ASSUME NEW q \in Seq(Batch), NEW i \in DOMAIN q
  PROVE  Without(q, i) \in Seq(Batch) /\ Len(Without(q, i)) = Len(q) - 1
<1>1. Len(q) - 1 \in Nat
  OBVIOUS
<1>2. Without(q, i) \in [1 .. Len(q) - 1 -> Batch]
  BY DEF Without
<1> QED
  BY <1>1, <1>2, FunctionIsSeq

LEMMA InsertedType ==
  ASSUME NEW q \in Seq(Batch), NEW b \in Batch
  PROVE  Inserted(q, b) \in Seq(Batch) /\ Len(Inserted(q, b)) = Len(q) + 1
  BY DEF Inserted

(* Urgent batches in front: the order every queue operation keeps. *)
Sorted(q) == \A i, j \in DOMAIN q : i < j /\ q[j].priority >= 2 => q[i].priority >= 2

LEMMA WithoutSorted ==
  ASSUME NEW q \in Seq(Batch), Sorted(q), NEW i \in DOMAIN q
  PROVE  Sorted(Without(q, i))
  BY DEF Sorted, Without

LEMMA InsertedSorted ==
  ASSUME NEW q \in Seq(Batch), Sorted(q), NEW b \in Batch
  PROVE  Sorted(Inserted(q, b))
<1>1. CASE b.priority >= 2
  <2>1. Inserted(q, b) = <<b>> \o q
    BY <1>1 DEF Inserted
  <2>2. \A j \in 1 .. Len(q) + 1 : (<<b>> \o q)[j] = IF j = 1 THEN b ELSE q[j - 1]
    OBVIOUS
  <2> QED
    BY <1>1, <2>1, <2>2 DEF Sorted
<1>2. CASE ~(b.priority >= 2)
  BY <1>2 DEF Sorted, Inserted
<1> QED
  BY <1>1, <1>2

LEMMA TailSorted ==
  ASSUME NEW q \in Seq(Batch), q # << >>, Sorted(q)
  PROVE  Sorted(Tail(q))
  BY DEF Sorted

-------------------------------------------------------------------------------
LEMMA EmptyQueue == << >> \in Seq(Batch) /\ Len(<< >>) <= Limit /\ DOMAIN << >> = {}
  BY LimitAssumption

LEMMA InitInv == Init => Inv
<1>1. Init => TypeOK
  <2>1. 0 \in Nat /\ 0 \in 0 .. MaxBatches
    BY LimitAssumption
  <2> QED
    BY <2>1, EmptyQueue, Zenon DEF Init, TypeOK
<1>2. Init => StopWhileClosing /\ ExitsOnStop /\ NoSleepOnWork /\ DrainedOnExit
  BY DEF Init, StopWhileClosing, ExitsOnStop, NoSleepOnWork, DrainedOnExit
<1>3. Init => UrgentFirst
  BY EmptyQueue DEF Init, UrgentFirst
<1> QED
  BY <1>1, <1>2, <1>3 DEF Inv

(* Queueing keeps the type, the bound and the order, and wakes a sleeper. *)
LEMMA EnqueueInv ==
  ASSUME Inv, NEW shape \in Shapes, Enqueue(shape)
  PROVE  Inv'
<1> DEFINE b == [id |-> enqueued + 1, priority |-> Priority(shape), count |-> shape.count]
<1>1. b \in Batch
  BY PriorityType, ShapesAssumption, LimitAssumption DEF Enqueue, Inv, TypeOK, Batch, Ids
<1>2. queue \in Seq(Batch) /\ Len(queue) <= Limit /\ Sorted(queue)
  BY DEF Inv, TypeOK, UrgentFirst, Sorted
<1>3. queue' \in Seq(Batch) /\ Len(queue') <= Limit /\ Sorted(queue')
  <2>1. CASE ~Full(queue) /\ queue' = Inserted(queue, b)
    BY <1>1, <1>2, <2>1, InsertedType, InsertedSorted, LimitAssumption DEF Full
  <2>2. CASE \E i \in Victim(queue, b.priority) : queue' = Inserted(Without(queue, i), b)
    <3>1. PICK i \in DOMAIN queue : queue' = Inserted(Without(queue, i), b)
      BY <2>2 DEF Victim
    <3>2. Without(queue, i) \in Seq(Batch) /\ Len(Without(queue, i)) = Len(queue) - 1
      BY <1>2, WithoutType
    <3>3. Sorted(Without(queue, i))
      BY <1>2, WithoutSorted
    <3> QED
      BY <1>1, <1>2, <3>1, <3>2, <3>3, InsertedType, InsertedSorted, LimitAssumption
  <2>3. CASE queue' = queue
    BY <1>2, <2>3
  <2> QED
    BY <2>1, <2>2, <2>3 DEF Enqueue
<1>4. worker' = worker \/ worker' = IF worker = "waiting" THEN "test" ELSE worker
  BY DEF Enqueue, Notify
<1>5. UrgentFirst'
  BY <1>3 DEF UrgentFirst, Sorted
<1>6. NoSleepOnWork'
  <2>1. CASE worker = "waiting" /\ worker' = worker
    <3>1. Full(queue)
      BY <2>1 DEF Enqueue, Notify
    <3>2. queue = << >>
      BY <2>1 DEF Inv, NoSleepOnWork
    <3> QED
      BY <3>1, <3>2, LimitAssumption DEF Full
  <2> QED
    BY <1>4, <2>1 DEF NoSleepOnWork, Enqueue
<1>7. DrainedOnExit' /\ ExitsOnStop' /\ StopWhileClosing'
  BY <1>4 DEF Inv, DrainedOnExit, ExitsOnStop, StopWhileClosing, Enqueue
<1>8. TypeOK'
  BY <1>3, <1>4, LimitAssumption DEF Inv, TypeOK, Enqueue
<1> QED
  BY <1>5, <1>6, <1>7, <1>8 DEF Inv

(* The worker: only its pop touches the queue. *)
LEMMA WorkerInv ==
  ASSUME Inv, WorkerStep \/ SpuriousWakeup
  PROVE  Inv'
<1>1. CASE WorkerPops
  <2>1. queue \in Seq(Batch) /\ queue # << >> /\ Len(queue) <= Limit /\ Sorted(queue)
    BY <1>1 DEF Inv, TypeOK, UrgentFirst, Sorted, WorkerPops
  <2>2. Head(queue) \in Batch /\ Tail(queue) \in Seq(Batch) /\ Len(Tail(queue)) <= Limit
    BY <2>1, LimitAssumption
  <2>3. UrgentFirst'
    BY <1>1, <2>1, TailSorted DEF WorkerPops, UrgentFirst, Sorted
  <2>4. TypeOK'
    <3>1. Head(queue).count \in Nat /\ Head(queue).id \in 0 .. MaxBatches
      BY <2>2 DEF Batch, Ids
    <3> QED
      BY <1>1, <2>2, <3>1 DEF WorkerPops, Inv, TypeOK
  <2> QED
    BY <1>1, <2>3, <2>4
    DEF Inv, WorkerPops, StopWhileClosing, ExitsOnStop, NoSleepOnWork, DrainedOnExit
<1>2. CASE WorkerSends
  BY <1>2 DEF WorkerSends, Inv, TypeOK, UrgentFirst, StopWhileClosing, ExitsOnStop,
              NoSleepOnWork, DrainedOnExit
<1>3. CASE WorkerDecides \/ WorkerSleeps \/ SpuriousWakeup \/ WorkerExits \/ WorkerEndsBatch
  BY <1>3 DEF WorkerDecides, WorkerSleeps, SpuriousWakeup, WorkerExits, WorkerEndsBatch,
              DrainedAndStopped, Inv, TypeOK, UrgentFirst, StopWhileClosing, ExitsOnStop,
              NoSleepOnWork, DrainedOnExit
<1> QED
  BY <1>1, <1>2, <1>3 DEF WorkerStep

(* Closing never touches the queue; opening starts with an empty one. *)
LEMMA CloserInv ==
  ASSUME Inv, CloseStores \/ CloserStep \/ Reopen
  PROVE  Inv'
<1>1. CASE CloseStores \/ CloserStep
  BY <1>1 DEF CloseStores, CloserStep, CloseNotifies, CloseFd, Joined, Notify, Inv, TypeOK,
              UrgentFirst, StopWhileClosing, ExitsOnStop, NoSleepOnWork, DrainedOnExit
<1>2. CASE Reopen
  <2>1. TypeOK'
    <3>1. 0 \in Nat /\ 0 \in 0 .. MaxBatches
      BY LimitAssumption
    <3> QED
      BY <1>2, <3>1, EmptyQueue, Zenon DEF Reopen, TypeOK
  <2>2. StopWhileClosing' /\ ExitsOnStop' /\ NoSleepOnWork' /\ DrainedOnExit'
    BY <1>2 DEF Reopen, StopWhileClosing, ExitsOnStop, NoSleepOnWork, DrainedOnExit
  <2>3. UrgentFirst'
    BY <1>2, EmptyQueue DEF Reopen, UrgentFirst
  <2> QED
    BY <2>1, <2>2, <2>3 DEF Inv
<1> QED
  BY <1>1, <1>2

LEMMA StutterInv == Inv /\ UNCHANGED vars => Inv'
  BY DEF vars, Inv, TypeOK, UrgentFirst, StopWhileClosing, ExitsOnStop, NoSleepOnWork,
         DrainedOnExit

-------------------------------------------------------------------------------
(* The order of the batches                                                    *)

(* Bulk batches are queued in the order of their numbers, all after the last   *)
(* one taken out; q is the queue, n the batches enqueued, last the one taken.  *)
Numbered(q, n, last) ==
  \A i \in 1 .. Len(q) : q[i].id <= n /\ (q[i].priority < 2 => last < q[i].id)
Rising(q) ==
  \A i, j \in 1 .. Len(q) :
    i < j /\ q[i].priority < 2 /\ q[j].priority < 2 => q[i].id < q[j].id

(* A joined worker has exited: the next runtime starts behind an empty queue.  *)
JoinedExited == closer = "joined" => worker = "exited"

OrderInv ==
  /\ Numbered(queue, enqueued, last_bulk) /\ Rising(queue)
  /\ last_bulk <= enqueued
  /\ JoinedExited

LEMMA BatchFields ==
  ASSUME NEW q \in Seq(Batch)
  PROVE  /\ Len(q) \in Nat
         /\ \A i \in 1 .. Len(q) : q[i] \in Batch /\ q[i].id \in Nat /\ q[i].priority \in 0 .. 3
<1>1. Len(q) \in Nat /\ \A i \in 1 .. Len(q) : q[i] \in Batch
  OBVIOUS
<1>2. \A b \in Batch : b.id \in Nat /\ b.priority \in 0 .. 3
  BY DEF Batch, Ids
<1> QED
  BY <1>1, <1>2

LEMMA WithoutOrdered ==
  ASSUME NEW q \in Seq(Batch), NEW n, NEW last, Numbered(q, n, last), Rising(q), NEW i \in DOMAIN q
  PROVE  Numbered(Without(q, i), n, last) /\ Rising(Without(q, i))
<1> DEFINE r == Without(q, i)
<1>1. Len(r) = Len(q) - 1 /\ Len(q) \in Nat /\ DOMAIN q = 1 .. Len(q)
  BY WithoutType
<1>2. \A j \in 1 .. Len(r) : \E k \in 1 .. Len(q) : k = (IF j < i THEN j ELSE j + 1) /\ r[j] = q[k]
  BY <1>1 DEF Without
<1> HIDE DEF r
<1>3. Numbered(r, n, last)
  BY <1>2 DEF Numbered
<1>4. Rising(r)
  <2> SUFFICES ASSUME NEW j \in 1 .. Len(r), NEW k \in 1 .. Len(r), j < k,
                      r[j].priority < 2, r[k].priority < 2
               PROVE  r[j].id < r[k].id
    BY DEF Rising
  <2>1. PICK f \in 1 .. Len(q) : f = (IF j < i THEN j ELSE j + 1) /\ r[j] = q[f]
    BY <1>2
  <2>2. PICK g \in 1 .. Len(q) : g = (IF k < i THEN k ELSE k + 1) /\ r[k] = q[g]
    BY <1>2
  <2>3. f < g
    BY <1>1, <2>1, <2>2
  <2> QED
    BY <2>1, <2>2, <2>3 DEF Rising
<1> QED
  BY <1>3, <1>4 DEF r

LEMMA InsertedOrdered ==
  ASSUME NEW q \in Seq(Batch), NEW n \in Nat, NEW last \in Nat, Numbered(q, n, last), Rising(q),
         last <= n, NEW b \in Batch, b.id = n + 1
  PROVE  Numbered(Inserted(q, b), n + 1, last) /\ Rising(Inserted(q, b))
<1> DEFINE r == Inserted(q, b)
<1>1. Len(q) \in Nat /\ \A i \in 1 .. Len(q) : q[i].id \in Nat
  BY BatchFields
<1>2. CASE b.priority >= 2
  <2>1. Len(r) = Len(q) + 1 /\ \A j \in 1 .. Len(r) : r[j] = IF j = 1 THEN b ELSE q[j - 1]
    BY <1>2 DEF Inserted
  <2>2. \A j \in 1 .. Len(r) : r[j] = b \/ (j > 1 /\ j - 1 \in 1 .. Len(q) /\ r[j] = q[j - 1])
    BY <1>1, <2>1
  <2>3. ~(b.priority < 2)
    BY <1>2, BatchFields DEF Batch
  <2> HIDE DEF r
  <2>4. Numbered(r, n + 1, last)
    <3> SUFFICES ASSUME NEW j \in 1 .. Len(r)
                 PROVE  r[j].id <= n + 1 /\ (r[j].priority < 2 => last < r[j].id)
      BY DEF Numbered
    <3>1. CASE r[j] = b
      BY <2>3, <3>1
    <3>2. CASE j - 1 \in 1 .. Len(q) /\ r[j] = q[j - 1]
      BY <1>1, <3>2 DEF Numbered
    <3> QED
      BY <2>2, <3>1, <3>2
  <2>5. Rising(r)
    <3> SUFFICES ASSUME NEW j \in 1 .. Len(r), NEW k \in 1 .. Len(r), j < k,
                        r[j].priority < 2, r[k].priority < 2
                 PROVE  r[j].id < r[k].id
      BY DEF Rising
    <3>1. j - 1 \in 1 .. Len(q) /\ r[j] = q[j - 1] /\ k - 1 \in 1 .. Len(q) /\ r[k] = q[k - 1]
      BY <2>2, <2>3
    <3>2. j - 1 < k - 1
      OBVIOUS
    <3> QED
      BY <3>1, <3>2 DEF Rising
  <2> QED
    BY <2>4, <2>5 DEF r
<1>3. CASE ~(b.priority >= 2)
  <2>1. Len(r) = Len(q) + 1 /\ \A j \in 1 .. Len(r) : r[j] = IF j = Len(q) + 1 THEN b ELSE q[j]
    BY <1>3 DEF Inserted
  <2>2. \A j \in 1 .. Len(r) : (j = Len(q) + 1 /\ r[j] = b) \/ (j \in 1 .. Len(q) /\ r[j] = q[j])
    BY <1>1, <2>1
  <2> HIDE DEF r
  <2>3. Numbered(r, n + 1, last)
    <3> SUFFICES ASSUME NEW j \in 1 .. Len(r)
                 PROVE  r[j].id <= n + 1 /\ (r[j].priority < 2 => last < r[j].id)
      BY DEF Numbered
    <3>1. CASE r[j] = b
      BY <3>1
    <3>2. CASE j \in 1 .. Len(q) /\ r[j] = q[j]
      BY <1>1, <3>2 DEF Numbered
    <3> QED
      BY <2>2, <3>1, <3>2
  <2>4. Rising(r)
    <3> SUFFICES ASSUME NEW j \in 1 .. Len(r), NEW k \in 1 .. Len(r), j < k,
                        r[j].priority < 2, r[k].priority < 2
                 PROVE  r[j].id < r[k].id
      BY DEF Rising
    <3>1. j \in 1 .. Len(q) /\ r[j] = q[j]
      BY <1>1, <2>1, <2>2
    <3>2. CASE k = Len(q) + 1 /\ r[k] = b
      BY <1>1, <3>1, <3>2 DEF Numbered
    <3>3. CASE k \in 1 .. Len(q) /\ r[k] = q[k]
      BY <3>1, <3>3 DEF Rising
    <3> QED
      BY <2>2, <3>2, <3>3
  <2> QED
    BY <2>3, <2>4 DEF r
<1> QED
  BY <1>2, <1>3

LEMMA TailOrdered ==
  ASSUME NEW q \in Seq(Batch), q # << >>, NEW n, NEW last, Numbered(q, n, last), Rising(q)
  PROVE  /\ Numbered(Tail(q), n, last) /\ Rising(Tail(q)) /\ Head(q).id <= n
         /\ Head(q).priority < 2 => Numbered(Tail(q), n, Head(q).id) /\ last < Head(q).id
<1> DEFINE r == Tail(q)
<1>1. Len(q) \in Nat \ {0} /\ Len(r) = Len(q) - 1 /\ Head(q) = q[1] /\ 1 \in 1 .. Len(q)
  OBVIOUS
<1>2. \A i \in 1 .. Len(r) : i + 1 \in 1 .. Len(q) /\ 1 < i + 1 /\ r[i] = q[i + 1]
  BY <1>1
<1> HIDE DEF r
<1>3. Numbered(r, n, last) /\ Head(q).id <= n /\ (Head(q).priority < 2 => last < Head(q).id)
  BY <1>1, <1>2 DEF Numbered
<1>4. Head(q).priority < 2 => Numbered(r, n, Head(q).id)
  BY <1>1, <1>2 DEF Numbered, Rising
<1>5. Rising(r)
  <2> SUFFICES ASSUME NEW j \in 1 .. Len(r), NEW k \in 1 .. Len(r), j < k,
                      r[j].priority < 2, r[k].priority < 2
               PROVE  r[j].id < r[k].id
    BY DEF Rising
  <2>1. j + 1 < k + 1
    BY <1>1
  <2> QED
    BY <1>2, <2>1 DEF Rising
<1> QED
  BY <1>3, <1>4, <1>5 DEF r

(* What a step may do to the queue, for the two action properties.             *)
BulkStep == last_bulk' \in {0, last_bulk} \/ last_bulk' > last_bulk
EvictStep ==
  \A i \in DOMAIN queue :
    queue[i].id \in QueuedIds' \/ queue[i] = current'
      \/ \A j \in DOMAIN queue : queue[i].priority <= queue[j].priority

LEMMA OrderInit == Init => OrderInv
  BY EmptyQueue, LimitAssumption DEF Init, OrderInv, Numbered, Rising, JoinedExited

(* Insertion keeps every batch, removal every other one.                       *)
LEMMA InsertedKeeps ==
  ASSUME NEW q \in Seq(Batch), NEW b \in Batch, NEW i \in 1 .. Len(q)
  PROVE  \E k \in 1 .. Len(Inserted(q, b)) : Inserted(q, b)[k] = q[i]
<1>1. CASE b.priority >= 2
  <2>1. i + 1 \in 1 .. Len(<<b>> \o q) /\ (<<b>> \o q)[i + 1] = q[i]
    OBVIOUS
  <2> QED
    BY <1>1, <2>1 DEF Inserted
<1>2. CASE ~(b.priority >= 2)
  <2>1. i \in 1 .. Len(Append(q, b)) /\ Append(q, b)[i] = q[i]
    OBVIOUS
  <2> QED
    BY <1>2, <2>1 DEF Inserted
<1> QED
  BY <1>1, <1>2

LEMMA WithoutKeeps ==
  ASSUME NEW q \in Seq(Batch), NEW i \in 1 .. Len(q), NEW j \in 1 .. Len(q), j # i
  PROVE  \E k \in 1 .. Len(Without(q, i)) : Without(q, i)[k] = q[j]
<1> DEFINE k == IF j < i THEN j ELSE j - 1
<1>1. Len(Without(q, i)) = Len(q) - 1
  BY WithoutType
<1>2. k \in 1 .. Len(q) - 1
  OBVIOUS
<1>3. Without(q, i)[k] = q[j]
  BY <1>2 DEF Without
<1> QED
  BY <1>1, <1>2, <1>3

(* A batch is queued: it is the newest, and costs at most the least one.       *)
LEMMA EnqueueOrder ==
  ASSUME Inv, OrderInv, NEW shape \in Shapes, Enqueue(shape)
  PROVE  OrderInv' /\ BulkStep /\ EvictStep
<1> DEFINE b == [id |-> enqueued + 1, priority |-> Priority(shape), count |-> shape.count]
<1>1. b \in Batch /\ b.id = enqueued + 1 /\ b.priority \in 0 .. 3
  BY PriorityType, ShapesAssumption, LimitAssumption DEF Enqueue, Inv, TypeOK, Batch, Ids
<1>2. /\ queue \in Seq(Batch) /\ enqueued \in Nat /\ last_bulk \in Nat /\ last_bulk <= enqueued
      /\ Numbered(queue, enqueued, last_bulk) /\ Rising(queue)
  BY DEF Inv, TypeOK, OrderInv
<1>3. enqueued' = enqueued + 1 /\ UNCHANGED <<closer, last_bulk>>
      /\ (worker' = worker \/ worker = "waiting")
  BY DEF Enqueue, Notify
<1>4. \/ queue' = Inserted(queue, b)
      \/ \E i \in Victim(queue, b.priority) : queue' = Inserted(Without(queue, i), b)
      \/ queue' = queue
  BY DEF Enqueue
<1> HIDE DEF b
<1>5. CASE queue' = Inserted(queue, b)
  <2>1. Numbered(queue', enqueued', last_bulk') /\ Rising(queue')
    BY <1>1, <1>2, <1>3, <1>5, InsertedOrdered
  <2>2. \A i \in 1 .. Len(queue) : queue[i].id \in QueuedIds'
    <3> SUFFICES ASSUME NEW i \in 1 .. Len(queue) PROVE queue[i].id \in QueuedIds'
      OBVIOUS
    <3>1. PICK k \in 1 .. Len(Inserted(queue, b)) : Inserted(queue, b)[k] = queue[i]
      BY <1>1, <1>2, InsertedKeeps
    <3>2. Inserted(queue, b) \in Seq(Batch)
      BY <1>1, <1>2, InsertedType
    <3> QED
      BY <1>5, <3>1, <3>2 DEF QueuedIds
  <2> QED
    BY <1>2, <1>3, <2>1, <2>2 DEF OrderInv, JoinedExited, BulkStep, EvictStep
<1>6. CASE \E i \in Victim(queue, b.priority) : queue' = Inserted(Without(queue, i), b)
  <2>1. PICK i \in 1 .. Len(queue) :
           /\ queue' = Inserted(Without(queue, i), b)
           /\ \A j \in 1 .. Len(queue) :
                queue[i].priority < queue[j].priority \/ queue[i].priority = queue[j].priority
    BY <1>2, <1>6 DEF Victim
  <2> DEFINE q == Without(queue, i)
  <2>2. q \in Seq(Batch) /\ Numbered(q, enqueued, last_bulk) /\ Rising(q)
    BY <1>2, WithoutType, WithoutOrdered
  <2>3. \A j \in 1 .. Len(queue) : j # i => \E k \in 1 .. Len(q) : q[k] = queue[j]
    BY <1>2, WithoutKeeps
  <2> HIDE DEF q
  <2>4. queue' = Inserted(q, b)
    BY <2>1 DEF q
  <2>5. Numbered(queue', enqueued', last_bulk') /\ Rising(queue')
    BY <1>1, <1>2, <1>3, <2>2, <2>4, InsertedOrdered
  <2>6. \A j \in 1 .. Len(queue) : j # i => queue[j].id \in QueuedIds'
    <3> SUFFICES ASSUME NEW j \in 1 .. Len(queue), j # i PROVE queue[j].id \in QueuedIds'
      OBVIOUS
    <3>1. PICK k \in 1 .. Len(q) : q[k] = queue[j]
      BY <2>3
    <3>2. PICK m \in 1 .. Len(Inserted(q, b)) : Inserted(q, b)[m] = q[k]
      BY <1>1, <2>2, InsertedKeeps
    <3>3. Inserted(q, b) \in Seq(Batch)
      BY <1>1, <2>2, InsertedType
    <3> QED
      BY <2>4, <3>1, <3>2, <3>3 DEF QueuedIds
  <2>7. \A j \in 1 .. Len(queue) : queue[i].priority <= queue[j].priority
    BY <1>2, <2>1, BatchFields
  <2>8. EvictStep
    BY <1>2, <2>6, <2>7 DEF EvictStep
  <2> QED
    BY <1>2, <1>3, <2>5, <2>8 DEF OrderInv, JoinedExited, BulkStep
<1>7. CASE queue' = queue
  <2>1. Numbered(queue', enqueued', last_bulk')
    BY <1>2, <1>3, <1>7, BatchFields DEF Numbered
  <2>2. EvictStep
    BY <1>7 DEF EvictStep, QueuedIds
  <2> QED
    BY <1>2, <1>3, <1>7, <2>1, <2>2 DEF OrderInv, JoinedExited, BulkStep
<1> QED
  BY <1>4, <1>5, <1>6, <1>7

LEMMA WorkerOrder ==
  ASSUME Inv, OrderInv, WorkerStep \/ SpuriousWakeup
  PROVE  OrderInv' /\ BulkStep /\ EvictStep
<1>1. CASE WorkerPops
  <2>1. /\ queue \in Seq(Batch) /\ queue # << >> /\ Numbered(queue, enqueued, last_bulk)
        /\ Rising(queue) /\ queue' = Tail(queue) /\ current' = Head(queue)
        /\ last_bulk' = (IF Head(queue).priority < 2 THEN Head(queue).id ELSE last_bulk)
        /\ enqueued' = enqueued /\ closer' = closer /\ closer # "joined"
    BY <1>1 DEF Inv, TypeOK, OrderInv, JoinedExited, WorkerPops
  <2>2. /\ Numbered(queue', enqueued', last_bulk') /\ Rising(queue') /\ last_bulk' <= enqueued'
        /\ last_bulk' = last_bulk \/ last_bulk < last_bulk'
    BY <2>1, TailOrdered DEF OrderInv
  <2>3. EvictStep
    <3>1. \A i \in 1 .. Len(queue) : queue[i].id \in QueuedIds' \/ queue[i] = current'
      <4> SUFFICES ASSUME NEW i \in 1 .. Len(queue), i # 1 PROVE queue[i].id \in QueuedIds'
        BY <2>1
      <4>1. i - 1 \in 1 .. Len(Tail(queue)) /\ Tail(queue)[i - 1] = queue[i]
        BY <2>1
      <4>2. DOMAIN queue' = 1 .. Len(Tail(queue))
        BY <2>1
      <4>3. queue'[i - 1].id \in QueuedIds'
        BY <2>1, <4>1, <4>2 DEF QueuedIds
      <4> QED
        BY <2>1, <4>1, <4>3
    <3> QED
      BY <2>1, <3>1 DEF EvictStep
  <2>4. BulkStep
    <3>1. last_bulk \in Nat /\ last_bulk' \in Nat
      <4>1. last_bulk \in Nat /\ Head(queue) \in Batch
        BY <2>1 DEF Inv, TypeOK
      <4> QED
        BY <2>1, <4>1 DEF Batch, Ids
    <3> QED
      BY <2>2, <3>1 DEF BulkStep
  <2> QED
    BY <2>1, <2>2, <2>3, <2>4 DEF OrderInv, JoinedExited
<1>2. CASE ~WorkerPops
  <2>1. UNCHANGED <<queue, enqueued, last_bulk, closer>> /\ (closer = "joined" => UNCHANGED worker)
    BY <1>2 DEF WorkerStep, WorkerDecides, WorkerSleeps, SpuriousWakeup, WorkerExits, WorkerSends,
       WorkerEndsBatch, OrderInv, JoinedExited
  <2> QED
    BY <2>1 DEF OrderInv, JoinedExited, BulkStep, EvictStep, QueuedIds
<1> QED
  BY <1>1, <1>2

(* A close never touches the queue; the next runtime starts behind an empty one. *)
LEMMA CloserOrder ==
  ASSUME Inv, OrderInv, CloseStores \/ CloserStep \/ Reopen
  PROVE  OrderInv' /\ BulkStep /\ EvictStep
<1>1. CASE CloseStores \/ CloserStep
  <2>1. UNCHANGED <<queue, enqueued, last_bulk>> /\ (closer' = "joined" => worker' = "exited")
    BY <1>1 DEF CloseStores, CloserStep, CloseNotifies, CloseFd, Joined
  <2> QED
    BY <2>1 DEF OrderInv, JoinedExited, BulkStep, EvictStep, QueuedIds
<1>2. CASE Reopen
  <2>1. queue = << >>
    BY <1>2 DEF Reopen, OrderInv, JoinedExited, Inv, DrainedOnExit
  <2>2. EvictStep
    BY <2>1, EmptyQueue DEF EvictStep
  <2>3. OrderInv'
    BY <1>2, EmptyQueue DEF Reopen, OrderInv, Numbered, Rising, JoinedExited
  <2> QED
    BY <1>2, <2>2, <2>3 DEF Reopen, BulkStep
<1> QED
  BY <1>1, <1>2

LEMMA StepOrder == Inv /\ OrderInv /\ [Next]_vars => OrderInv' /\ BulkStep /\ EvictStep
<1>1. OrderInv /\ UNCHANGED vars => OrderInv' /\ BulkStep /\ EvictStep
  BY DEF vars, OrderInv, JoinedExited, BulkStep, EvictStep, QueuedIds
<1> QED
  BY <1>1, EnqueueOrder, WorkerOrder, CloserOrder DEF Next

(* The invariant of the send side. *)
THEOREM Invariance == Spec => []Inv
<1>1. Inv /\ [Next]_vars => Inv'
  BY EnqueueInv, WorkerInv, CloserInv, StutterInv DEF Next
<1> QED
  BY InitInv, <1>1, PTL DEF Spec

(* Type correctness and the bound on the queue: media.rs and main.rs never     *)
(* queue more than MEDIA_SEND_BATCH_QUEUE_LIMIT batches.                       *)
THEOREM TypeCorrect == Spec => []TypeOK
  BY Invariance, PTL DEF Inv

(* No wakeup is lost between zt_media_send_batch and the worker: a worker that *)
(* waits, or is about to, has an empty queue.                                  *)
THEOREM NoLostWork == Spec => []NoSleepOnWork
  BY Invariance, PTL DEF Inv

(* Urgent batches stay in front of all others.                                 *)
THEOREM UrgentBatchesFirst == Spec => []UrgentFirst
  BY Invariance, PTL DEF Inv

(* A worker that has exited leaves no batch in the queue.                      *)
THEOREM NothingLeftOnExit == Spec => []DrainedOnExit
  BY Invariance, PTL DEF Inv

(* No batch is stranded: it is in a queue whose worker is awake, or was taken.  *)
THEOREM NothingIsStranded == Spec => []NoStrandedWork
  BY NoLostWork, NothingLeftOnExit, PTL DEF NoStrandedWork

(* Batches below priority 2, the delta frames among them, are sent in the      *)
(* order in which zt_media_send_batch accepted them, through every eviction.   *)
THEOREM BulkLeavesInOrder == Spec => BulkInOrder
<1>1. Inv /\ OrderInv /\ [Next]_vars => OrderInv'
  BY StepOrder
<1>2. Spec => []OrderInv
  BY OrderInit, <1>1, Invariance, PTL DEF Spec
<1>3. Inv /\ OrderInv /\ [Next]_vars
        => [last_bulk' \in {0, last_bulk} \/ last_bulk' > last_bulk]_vars
  BY StepOrder DEF BulkStep
<1> QED
  BY <1>2, <1>3, Invariance, PTL DEF Spec, BulkInOrder

(* enqueue_media_send_batch gives up a queued batch only when no other batch   *)
(* in the queue has a lower priority.                                          *)
THEOREM EvictionCostsLeast == Spec => EvictsLowest
<1>1. Inv /\ OrderInv /\ [Next]_vars => OrderInv'
  BY StepOrder
<1>2. Spec => []OrderInv
  BY OrderInit, <1>1, Invariance, PTL DEF Spec
<1>3. Inv /\ OrderInv /\ [Next]_vars
        => [\A i \in DOMAIN queue :
              queue[i].id \in QueuedIds' \/ queue[i] = current'
                \/ \A j \in DOMAIN queue : queue[i].priority <= queue[j].priority]_vars
  BY StepOrder DEF EvictStep
<1> QED
  BY <1>2, <1>3, Invariance, PTL DEF Spec, EvictsLowest
=============================================================================

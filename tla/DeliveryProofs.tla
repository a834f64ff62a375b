--------------------------- MODULE DeliveryProofs ---------------------------
(***************************************************************************)
(* In which order the items of Pipeline travel, and that each of them      *)
(* travels as Delivery says.                                               *)
(***************************************************************************)
EXTENDS PipelineProofs

-----------------------------------------------------------------------------
(* The order of the items, with one thread per stage.                       *)

\* A step that brings no item to a new place keeps the order.
LEMMA OrderStays ==
  ASSUME OrderInv,
         \A q \in Queues, x \in Items : IsIn(x, q)' => IsIn(x, q),
         \A w \in Workers : item'[w] # NULL => item'[w] = item[w],
         sink_item' # NULL => sink_item' = sink_item,
         OneThread => \A q \in Queues : QueueOrdered(q)'
  PROVE  OrderInv'
BY DEF OrderInv, OneThread, QueuesAscend, HandsBetweenQueues, HandsAscend, SinkOldest

LEMMA OrderUnchanged ==
  ASSUME OrderInv, UNCHANGED <<queue, item, sink_item>>
  PROVE  OrderInv'
BY DEF OrderInv, OneThread, QueuesAscend, HandsBetweenQueues, HandsAscend, SinkOldest,
       QueueOrdered, IsIn

\* An item behind all others in a queue keeps it in order.
LEMMA EnqueueOrdered ==
  ASSUME TypeOK, NEW q \in Queues, NEW x \in Items, Enqueue(q, x),
         \A r \in Queues : QueueOrdered(r),
         \A y \in Items : IsIn(y, q) => y < x
  PROVE  \A r \in Queues : QueueOrdered(r)'
<1>. DEFINE n == Len(queue[q])
<1>1. /\ n \in Nat /\ DOMAIN queue[q] = 1 .. n /\ DOMAIN queue'[q] = 1 .. n + 1
      /\ \A k \in 1 .. n : queue[q][k] \in Entry
      /\ \A k \in 1 .. n : queue'[q][k] = queue[q][k]
      /\ queue'[q][n + 1] = x
      /\ \A r \in Queues : r # q => queue'[r] = queue[r]
  BY QueueIsSeq, EnqueueEntries DEF Entry
<1>2. ASSUME NEW r \in Queues, r # q
      PROVE  QueueOrdered(r)'
  BY <1>1, <1>2 DEF QueueOrdered
<1>3. ASSUME NEW k \in 1 .. n + 1, NEW l \in 1 .. n + 1, k < l,
             queue'[q][k] # NULL, queue'[q][l] # NULL
      PROVE  queue'[q][k] < queue'[q][l]
  <2>1. k \in 1 .. n
    BY <1>1, <1>3
  <2>2. CASE l = n + 1
    <3>1. queue[q][k] \in Items /\ IsIn(queue[q][k], q)
      BY <1>1, <1>3, <2>1 DEF Entry, IsIn
    <3>. QED
      BY <1>1, <2>1, <2>2, <3>1
  <2>3. CASE l # n + 1
    <3>1. l \in 1 .. n
      BY <1>1, <2>3
    <3>. QED
      BY <1>1, <1>3, <2>1, <3>1 DEF QueueOrdered
  <2>. QED
    BY <2>2, <2>3
<1>. QED
  BY <1>1, <1>2, <1>3 DEF QueueOrdered

\* What dequeue takes is before everything it leaves.
LEMMA DequeueOrdered ==
  ASSUME TypeOK, NEW q \in Queues, Dequeue(q),
         \A r \in Queues : QueueOrdered(r)
  PROVE  /\ \A r \in Queues : QueueOrdered(r)'
         /\ Front(q) # NULL => \A y \in Items : IsIn(y, q)' => Front(q) < y
<1>. DEFINE n == Len(queue[q])
<1>1. CASE queue[q] = <<>>
  BY <1>1, DequeueEntries DEF QueueOrdered
<1>2. CASE queue[q] # <<>>
  <2>1. /\ n \in Nat /\ DOMAIN queue[q] = 1 .. n
        /\ 1 \in DOMAIN queue[q] /\ Front(q) = queue[q][1]
        /\ DOMAIN queue'[q] = 1 .. n - 1
        /\ \A k \in 1 .. n - 1 : queue'[q][k] = queue[q][k + 1]
        /\ \A r \in Queues : r # q => queue'[r] = queue[r]
    BY <1>2, QueueIsSeq, DequeueEntries
  <2>2. \A k, l \in 1 .. n - 1 : k < l => k + 1 \in 1 .. n /\ l + 1 \in 1 .. n /\ k + 1 < l + 1
    BY <2>1
  <2>3. ASSUME NEW r \in Queues
        PROVE  QueueOrdered(r)'
    <3>1. CASE r # q
      BY <2>1, <3>1 DEF QueueOrdered
    <3>2. CASE r = q
      <4>1. ASSUME NEW k \in 1 .. n - 1, NEW l \in 1 .. n - 1, k < l,
                   queue'[q][k] # NULL, queue'[q][l] # NULL
            PROVE  queue'[q][k] < queue'[q][l]
        <5>1. queue'[q][k] = queue[q][k + 1] /\ queue'[q][l] = queue[q][l + 1]
          BY <2>1
        <5>2. k + 1 \in DOMAIN queue[q] /\ l + 1 \in DOMAIN queue[q] /\ k + 1 < l + 1
          BY <2>1, <2>2, <4>1
        <5>. QED
          BY <4>1, <5>1, <5>2 DEF QueueOrdered
      <4>. QED
        BY <2>1, <3>2, <4>1 DEF QueueOrdered
    <3>. QED
      BY <3>1, <3>2
  <2>4. ASSUME NEW y \in Items, IsIn(y, q)', Front(q) # NULL
        PROVE  Front(q) < y
    <3>1. PICK k \in 1 .. n - 1 : queue'[q][k] = y
      BY <2>1, <2>4 DEF IsIn
    <3>2. k + 1 \in DOMAIN queue[q] /\ 1 < k + 1 /\ queue[q][k + 1] = y
      BY <2>1, <3>1
    <3>. QED
      BY <2>1, <2>4, <3>2, ItemsNotNull DEF QueueOrdered
  <2>. QED
    BY <2>3, <2>4
<1>. QED
  BY <1>1, <1>2

\* What is held was generated earlier than the next item.
LEMMA HeldIsOlder ==
  ASSUME ControlInv, ItemInv
  PROVE  /\ \A q \in Queues, y \in Items : IsIn(y, q) => y < tx
         /\ \A v \in Workers : item[v] # NULL => item[v] \in Items /\ item[v] < tx
         /\ sink_item # NULL => sink_item \in Items /\ sink_item < tx
BY DEF ItemInv, HeapIsHeld, Held, ControlInv, TypeOK

LEMMA OrderGenerate ==
  ASSUME ControlInv, ItemInv, OrderInv, GenerateItem
  PROVE  OrderInv'
<1>1. tx \in Items
  BY PipelineAssumption DEF GenerateItem, MoreInBatch, ControlInv, TypeOK, BatchFits, Items
<1>2. UNCHANGED <<item, sink_item>>
  BY DEF GenerateItem
<1>3. CASE ~HasRoom(0)
  BY <1>2, <1>3, OrderUnchanged DEF GenerateItem
<1>4. CASE HasRoom(0)
  <2>1. 0 \in Queues /\ Enqueue(0, tx)
    BY <1>4, PipelineAssumption DEF GenerateItem, Queues
  <2>2. \A q \in Queues, y \in Items : IsIn(y, q)' <=> IsIn(y, q) \/ (q = 0 /\ y = tx)
    BY <1>1, <2>1, EnqueueIsIn DEF ControlInv
  <2>3. /\ \A q \in Queues, y \in Items : IsIn(y, q) => y < tx
        /\ \A v \in Workers : item[v] # NULL => item[v] < tx /\ ~(v[1] <= 0)
        /\ sink_item # NULL => sink_item < tx
    BY HeldIsOlder DEF Workers, Stages
  <2>4. \A r \in Queues : ~(r < 0)
    BY DEF Queues
  <2>. SUFFICES ASSUME OneThread
                PROVE  OrderInv'
    BY DEF OrderInv, OneThread
  <2>5. QueuesAscend'
    BY <2>2, <2>3, <2>4 DEF OrderInv, QueuesAscend
  <2>6. HandsBetweenQueues'
    BY <1>2, <2>2, <2>3 DEF OrderInv, HandsBetweenQueues
  <2>7. HandsAscend' /\ SinkOldest'
    BY <1>2, <2>2, <2>3 DEF OrderInv, HandsAscend, SinkOldest
  <2>8. \A r \in Queues : QueueOrdered(r)'
    BY <1>1, <2>1, <2>3, EnqueueOrdered DEF ControlInv, OrderInv
  <2>. QED
    BY <2>5, <2>6, <2>7, <2>8 DEF OrderInv
<1>. QED
  BY <1>3, <1>4

\* A worker takes the oldest item of the queue before its stage.
LEMMA OrderPoll ==
  ASSUME ControlInv, ItemInv, OrderInv, NEW w \in Workers, WorkerPoll(w)
  PROVE  OrderInv'
<1>. DEFINE q == w[1] - 1
            x == Front(q)
<1>1. /\ worker[w] = "poll" /\ Dequeue(q) /\ item' = [item EXCEPT ![w] = x]
      /\ sink_item' = sink_item
  BY DEF WorkerPoll, WorkerAt, input_queue
<1>2. q \in Queues
  BY PipelineAssumption DEF Workers, Stages, Queues
<1>3. /\ x # NULL => x \in Items /\ IsIn(x, q)
      /\ \A r \in Queues, y \in Items : IsIn(y, r)' <=> IsIn(y, r) /\ ~(r = q /\ y = x)
  BY <1>1, <1>2, DequeueIsIn DEF ControlInv, ItemInv
<1>4. \A v \in Workers :
        /\ v # w => item'[v] = item[v]
        /\ v = w => item'[v] = x
  BY <1>1 DEF ControlInv, TypeOK
<1>. SUFFICES ASSUME OneThread
              PROVE  OrderInv'
  BY DEF OrderInv, OneThread
<1>5. /\ \A r \in Queues : QueueOrdered(r)'
      /\ x # NULL => \A y \in Items : IsIn(y, q)' => x < y
  BY <1>1, <1>2, DequeueOrdered DEF ControlInv, OrderInv
<1>6. CASE x = NULL
  BY <1>1, <1>3, <1>4, <1>5, <1>6, OrderStays
<1>7. CASE x # NULL
  <2>1. QueuesAscend'
    BY <1>3 DEF OrderInv, QueuesAscend
  <2>2. \A r \in Queues : r < w[1] => r = q \/ r < q
    BY DEF Queues, Workers, Stages
  <2>3. \A r \in Queues : w[1] <= r => q < r
    BY DEF Queues, Workers, Stages
  <2>4. \A r \in Queues, y \in Items : IsIn(y, r)' =>
          /\ w[1] <= r => y < x
          /\ r < w[1] => x < y
    BY <1>2, <1>3, <1>5, <1>7, <2>2, <2>3 DEF OrderInv, QueuesAscend
  <2>5. HandsBetweenQueues'
    BY <1>3, <1>4, <2>4 DEF OrderInv, HandsBetweenQueues
  <2>6. \A v \in Workers : item[v] # NULL =>
          /\ w[1] < v[1] => item[v] < x
          /\ v[1] < w[1] => x < item[v]
    <3>1. \A v \in Workers : (w[1] < v[1] => q < v[1]) /\ (v[1] < w[1] => v[1] <= q)
      BY DEF Workers, Stages
    <3>. QED
      BY <1>2, <1>3, <1>7, <3>1 DEF OrderInv, HandsBetweenQueues
  <2>7. HandsAscend'
    <3>1. ~(w[1] < w[1])
      BY DEF Workers, Stages
    <3>. QED
      BY <1>4, <2>6, <3>1 DEF OrderInv, HandsAscend
  <2>8. SinkOldest'
    BY <1>1, <1>2, <1>3, <1>4, <1>7 DEF OrderInv, SinkOldest
  <2>. QED
    BY <1>5, <2>1, <2>5, <2>7, <2>8 DEF OrderInv
<1>. QED
  BY <1>6, <1>7

\* What a worker passes on comes behind everything its stage passed on before.
LEMMA OrderForward ==
  ASSUME ControlInv, ItemInv, OrderInv, NEW w \in Workers, WorkerForward(w)
  PROVE  OrderInv'
<1>. DEFINE q == w[1]
            x == item[w]
<1>1. /\ worker[w] = "forward" /\ Enqueue(q, x) /\ item' = [item EXCEPT ![w] = NULL]
      /\ sink_item' = sink_item
  BY DEF WorkerForward, WorkerAt, output_queue
<1>2. q \in Queues /\ q <= q
  BY PipelineAssumption DEF Workers, Stages, Queues
<1>3. x # NULL /\ x \in Items
  BY <1>1 DEF ItemInv, HandsFull, ControlInv, TypeOK
<1>4. \A r \in Queues, y \in Items : IsIn(y, r)' <=> IsIn(y, r) \/ (r = q /\ y = x)
  BY <1>1, <1>2, <1>3, EnqueueIsIn DEF ControlInv
<1>5. \A v \in Workers :
        /\ v # w => item'[v] = item[v]
        /\ v = w => item'[v] = NULL
  BY <1>1 DEF ControlInv, TypeOK
<1>. SUFFICES ASSUME OneThread
              PROVE  OrderInv'
  BY DEF OrderInv, OneThread
<1>6. \A v \in Workers : v # w => v[1] < q \/ q < v[1]
  BY DEF OneThread, Workers, Stages
<1>7. \A r \in Queues : (q < r => q <= r) /\ ~(r < r)
  BY DEF Queues, Workers, Stages
<1>8. \A r \in Queues : \A y \in Items : IsIn(y, r) =>
        /\ q <= r => y < x
        /\ r < q => x < y
  BY <1>3 DEF OrderInv, HandsBetweenQueues
<1>9. QueuesAscend'
  BY <1>4, <1>7, <1>8 DEF OrderInv, QueuesAscend
<1>10. HandsBetweenQueues'
  <2>1. \A v \in Workers : v # w /\ item[v] # NULL =>
          /\ v[1] <= q => x < item[v]
          /\ q < v[1] => item[v] < x
    <3>1. \A v \in Workers : v # w /\ v[1] <= q => v[1] < q
      BY <1>6 DEF Workers, Stages
    <3>. QED
      BY <1>3, <3>1 DEF OrderInv, HandsAscend
  <2>. QED
    BY <1>4, <1>5, <2>1 DEF OrderInv, HandsBetweenQueues
<1>11. HandsAscend'
  BY <1>5 DEF OrderInv, HandsAscend
<1>12. SinkOldest'
  BY <1>1, <1>3, <1>4, <1>5 DEF OrderInv, SinkOldest
<1>13. \A r \in Queues : QueueOrdered(r)'
  BY <1>1, <1>2, <1>3, <1>8, EnqueueOrdered DEF ControlInv, OrderInv
<1>. QED
  BY <1>9, <1>10, <1>11, <1>12, <1>13 DEF OrderInv

LEMMA OrderSinkPoll ==
  ASSUME ControlInv, ItemInv, OrderInv, SinkPoll
  PROVE  OrderInv'
<1>. DEFINE x == Front(NStages)
<1>1. sinker = "poll" /\ Dequeue(NStages) /\ sink_item' = x /\ item' = item
  BY DEF SinkPoll
<1>2. NStages \in Queues
  BY PipelineAssumption DEF Queues
<1>3. /\ x # NULL => x \in Items /\ IsIn(x, NStages)
      /\ \A r \in Queues, y \in Items :
           IsIn(y, r)' <=> IsIn(y, r) /\ ~(r = NStages /\ y = x)
  BY <1>1, <1>2, DequeueIsIn DEF ControlInv, ItemInv
<1>. SUFFICES ASSUME OneThread
              PROVE  OrderInv'
  BY DEF OrderInv, OneThread
<1>4. /\ \A r \in Queues : QueueOrdered(r)'
      /\ x # NULL => \A y \in Items : IsIn(y, NStages)' => x < y
  BY <1>1, <1>2, DequeueOrdered DEF ControlInv, OrderInv
<1>5. QueuesAscend' /\ HandsBetweenQueues' /\ HandsAscend'
  BY <1>1, <1>3 DEF OrderInv, QueuesAscend, HandsBetweenQueues, HandsAscend
<1>6. SinkOldest'
  <2>1. /\ \A r \in Queues : r = NStages \/ r < NStages
        /\ \A w \in Workers : w[1] <= NStages
    BY PipelineAssumption DEF Queues, Workers, Stages
  <2>2. x # NULL => \A r \in Queues, y \in Items : IsIn(y, r)' => x < y
    BY <1>2, <1>3, <1>4, <2>1 DEF OrderInv, QueuesAscend
  <2>3. x # NULL => \A w \in Workers : item[w] # NULL => x < item[w]
    BY <1>2, <1>3, <2>1 DEF OrderInv, HandsBetweenQueues
  <2>. QED
    BY <1>1, <2>2, <2>3 DEF SinkOldest
<1>. QED
  BY <1>4, <1>5, <1>6 DEF OrderInv

LEMMA OrderDestroy ==
  ASSUME ControlInv, ItemInv, OrderInv, NEW q \in Queues, DestroyQueue(q)
  PROVE  OrderInv'
<1>1. queue' = [queue EXCEPT ![q] = <<>>] /\ UNCHANGED <<item, sink_item>>
  BY DEF DestroyQueue, LeavesData
<1>2. \A r \in Queues, y \in Items : IsIn(y, r)' => IsIn(y, r)
  BY <1>1, EmptyIsIn DEF ControlInv, ItemInv
<1>3. /\ DOMAIN queue'[q] = {}
      /\ \A r \in Queues : r # q => queue'[r] = queue[r]
  BY <1>1 DEF ControlInv, TypeOK
<1>4. OneThread => \A r \in Queues : QueueOrdered(r)'
  BY <1>3 DEF OrderInv, QueueOrdered
<1>. QED
  BY <1>1, <1>2, <1>4, OrderStays

LEMMA OrderWorker ==
  ASSUME ControlInv, ItemInv, OrderInv, NEW w \in Workers, Worker(w)
  PROVE  OrderInv'
<1>1. CASE WorkerCheck(w) \/ WorkerProcess(w)
  BY <1>1, OrderUnchanged DEF WorkerCheck, WorkerProcess
<1>2. CASE WorkerDrop(w)
  <2>1. /\ \A v \in Workers : item'[v] # NULL => item'[v] = item[v]
        /\ UNCHANGED <<queue, sink_item>>
    BY <1>2 DEF WorkerDrop, ControlInv, TypeOK
  <2>2. OneThread => \A r \in Queues : QueueOrdered(r)'
    BY <2>1 DEF OrderInv, QueueOrdered
  <2>. QED
    BY <2>1, <2>2, OrderStays DEF IsIn
<1>. QED
  BY <1>1, <1>2, OrderPoll, OrderForward DEF Worker

LEMMA OrderSink ==
  ASSUME ControlInv, ItemInv, OrderInv, Sink
  PROVE  OrderInv'
<1>1. CASE SinkCheck
  BY <1>1, OrderUnchanged DEF SinkCheck
<1>2. CASE SinkConsume
  <2>1. sink_item' = NULL /\ UNCHANGED <<queue, item>>
    BY <1>2 DEF SinkConsume
  <2>2. OneThread => \A r \in Queues : QueueOrdered(r)'
    BY <2>1 DEF OrderInv, QueueOrdered
  <2>. QED
    BY <2>1, <2>2, OrderStays DEF IsIn
<1>. QED
  BY <1>1, <1>2, OrderSinkPoll DEF Sink

LEMMA OrderStep == ControlInv /\ ItemInv /\ OrderInv /\ [Next]_vars => OrderInv'
<1>. SUFFICES ASSUME ControlInv, ItemInv, OrderInv, [Next]_vars
              PROVE  OrderInv'
  OBVIOUS
<1>1. CASE Main \/ CreateFails
  <2>1. CASE \E q \in Queues : DestroyQueue(q)
    BY <2>1, OrderDestroy
  <2>2. CASE ~ \E q \in Queues : DestroyQueue(q)
    <3>1. UNCHANGED <<queue, item, sink_item>>
      BY <1>1, <2>2 DEF Main, CreateGenerator, CreateSink, StartStage, StageStarted, CreateWorker,
                        JoinGenerator, JoinSink, StopStage, JoinStage, CreateFails, LeavesData
    <3>. QED
      BY <3>1, OrderUnchanged
  <2>. QED
    BY <2>1, <2>2
<1>2. CASE Generator
  BY <1>2, OrderGenerate, OrderUnchanged
     DEF Generator, GeneratorBatch, GeneratorBatchEnd, GeneratorExit
<1>3. CASE UNCHANGED vars
  BY <1>3, OrderUnchanged DEF vars
<1>4. ASSUME NEW thread \in {"generator", "sink"}, Expire(thread)
      PROVE  OrderInv'
  BY <1>4, OrderUnchanged DEF Expire
<1>. QED
  BY <1>1, <1>2, <1>3, <1>4, OrderWorker, OrderSink DEF Next, Terminated

LEMMA OrderInit == Init => OrderInv
<1>. SUFFICES ASSUME Init PROVE OrderInv
  OBVIOUS
<1>1. /\ \A q \in Queues : DOMAIN queue[q] = {1} /\ queue[q][1] = NULL
      /\ \A w \in Workers : item[w] = NULL
      /\ sink_item = NULL
  BY DEF Init
<1>2. \A q \in Queues, x \in Items : ~IsIn(x, q)
  BY <1>1, ItemsNotNull DEF IsIn
<1>. QED
  BY <1>1, <1>2 DEF OrderInv, QueuesAscend, HandsBetweenQueues, HandsAscend, SinkOldest, QueueOrdered

LEMMA OrderImpliesInOrder ==
  ASSUME TypeOK, OrderInv
  PROVE  InOrder
<1>. SUFFICES ASSUME OneThread,
                     NEW x \in heap, NEW d \in 0 .. 2 * NStages + 1, At(x, d),
                     NEW y \in heap, NEW e \in 0 .. d - 1, At(y, e)
              PROVE  x < y
  BY DEF OrderInv, InOrder
<1>1. /\ x \in Items /\ y \in Items /\ x # NULL /\ y # NULL
      /\ d \in Int /\ e \in Int /\ e < d
  BY ItemsNotNull, PipelineAssumption DEF TypeOK
<1>2. CASE \E q \in Queues : d = 2 * q /\ IsIn(x, q)
  <2>1. PICK q \in Queues : d = 2 * q /\ IsIn(x, q)
    BY <1>2
  <2>2. ASSUME NEW r \in Queues, e = 2 * r, IsIn(y, r)
        PROVE  x < y
    <3>1. r < q
      BY <1>1, <2>1, <2>2, PipelineAssumption DEF Queues
    <3>. QED
      BY <1>1, <2>1, <2>2, <3>1 DEF OrderInv, QueuesAscend
  <2>3. ASSUME NEW w \in Workers, e = 2 * w[1] - 1, item[w] = y
        PROVE  x < y
    <3>1. w[1] \in Int /\ q \in Int
      BY PipelineAssumption DEF Queues, Workers, Stages
    <3>2. w[1] <= q
      BY <1>1, <2>1, <2>3, <3>1
    <3>. QED
      BY <1>1, <2>1, <2>3, <3>2 DEF OrderInv, HandsBetweenQueues
  <2>4. ~(e = 2 * NStages + 1)
    BY <1>1, <2>1, PipelineAssumption DEF Queues
  <2>. QED
    BY <2>2, <2>3, <2>4 DEF At
<1>3. CASE \E v \in Workers : d = 2 * v[1] - 1 /\ item[v] = x
  <2>1. PICK v \in Workers : d = 2 * v[1] - 1 /\ item[v] = x
    BY <1>3
  <2>2. v[1] \in Int /\ v[1] <= NStages
    BY PipelineAssumption DEF Workers, Stages
  <2>3. ASSUME NEW r \in Queues, e = 2 * r, IsIn(y, r)
        PROVE  x < y
    <3>1. r \in Int
      BY DEF Queues
    <3>2. r < v[1]
      BY <1>1, <2>1, <2>2, <2>3, <3>1
    <3>. QED
      BY <1>1, <2>1, <2>3, <3>2 DEF OrderInv, HandsBetweenQueues
  <2>4. ASSUME NEW w \in Workers, e = 2 * w[1] - 1, item[w] = y
        PROVE  x < y
    <3>1. w[1] \in Int
      BY DEF Workers, Stages
    <3>2. w[1] < v[1]
      BY <1>1, <2>1, <2>2, <2>4, <3>1
    <3>. QED
      BY <1>1, <2>1, <2>4, <3>2 DEF OrderInv, HandsAscend
  <2>5. ~(e = 2 * NStages + 1)
    BY <1>1, <2>1, <2>2, PipelineAssumption
  <2>. QED
    BY <2>3, <2>4, <2>5 DEF At
<1>4. CASE d = 2 * NStages + 1 /\ sink_item = x
  <2>1. e # 2 * NStages + 1
    BY <1>1, <1>4
  <2>. QED
    BY <1>1, <1>4, <2>1 DEF At, OrderInv, SinkOldest
<1>. QED
  BY <1>2, <1>3, <1>4 DEF At

\* With one thread per stage nothing overtakes: whatever is further down the
\* pipeline or further ahead in a queue was generated earlier
\* (pipeline-app.c:56-71).
THEOREM NothingOvertakes == Spec => []InOrder
<1>1. Spec => []OrderInv
  BY OrderInit, OrderStep, ControlInvariance, ItemInvariance, PTL DEF Spec
<1>. QED
  BY <1>1, OrderImpliesInOrder, PipelineTypes, PTL

-----------------------------------------------------------------------------
(* Delivery: every step moves one item on, empties one queue or moves       *)
(* nothing.                                                                 *)

\* The mapping, place by place.
PlaceInv ==
  /\ placeBar = [x \in Items |-> placeBar[x]]
  /\ \A x \in Items :
       /\ x >= tx => placeBar[x] = <<"new", 0>>
       /\ x < tx /\ x \notin heap => placeBar[x] = <<"freed", 0>>
       /\ \A q \in Queues : IsIn(x, q) => placeBar[x] = <<"queue", q>>
       /\ \A w \in Workers : item[w] = x => placeBar[x] = <<"stage", w[1]>>
       /\ sink_item = x => placeBar[x] = <<"sink", 0>>
       /\ x \in heap /\ ~Held(x) => placeBar[x] = <<"forgotten", 0>>

LEMMA PlacesMapped == ControlInv /\ ItemInv => PlaceInv
<1>. SUFFICES ASSUME ControlInv, ItemInv
              PROVE  PlaceInv
  OBVIOUS
<1>1. placeBar = [x \in Items |-> placeBar[x]]
  BY DEF placeBar
<1>. SUFFICES ASSUME NEW x \in Items
              PROVE  /\ x >= tx => placeBar[x] = <<"new", 0>>
                     /\ x < tx /\ x \notin heap => placeBar[x] = <<"freed", 0>>
                     /\ \A q \in Queues : IsIn(x, q) => placeBar[x] = <<"queue", q>>
                     /\ \A w \in Workers : item[w] = x => placeBar[x] = <<"stage", w[1]>>
                     /\ sink_item = x => placeBar[x] = <<"sink", 0>>
                     /\ x \in heap /\ ~Held(x) => placeBar[x] = <<"forgotten", 0>>
  BY <1>1 DEF PlaceInv
<1>2. x # NULL /\ x \in Nat /\ tx \in Nat
  BY ItemsNotNull DEF ControlInv, TypeOK
<1>3. /\ x \in heap => x < tx /\ ~(x >= tx)
      /\ Held(x) => x \in heap
  BY <1>2 DEF ItemInv, HeapIsHeld
<1>4. x < tx => ~(x >= tx)
  BY <1>2
<1>5. QueuesOf(x) = {q \in Queues : IsIn(x, q)}
  BY DEF QueuesOf
<1>6. \A w \in Workers : item[w] = x => w[1] \in StagesOf(x)
  BY DEF Workers, StagesOf
<1>7. ASSUME NEW s \in StagesOf(x)
      PROVE  \E w \in Workers : item[w] = x /\ w[1] = s
  <2>1. PICK t \in Threads : item[<<s, t>>] = x
    BY DEF StagesOf
  <2>2. <<s, t>> \in Workers /\ <<s, t>>[1] = s
    BY DEF StagesOf, Workers
  <2>. QED
    BY <2>1, <2>2
<1>. placeBar[x] = PlaceOf(x)
  BY DEF placeBar
<1>8. x >= tx => placeBar[x] = <<"new", 0>>
  BY <1>3, <1>4 DEF PlaceOf
<1>9. x < tx /\ x \notin heap => placeBar[x] = <<"freed", 0>>
  BY <1>3, <1>4 DEF PlaceOf
<1>10. sink_item = x => placeBar[x] = <<"sink", 0>>
  BY <1>3 DEF PlaceOf, Held
<1>11. ASSUME NEW q \in Queues, IsIn(x, q)
       PROVE  placeBar[x] = <<"queue", q>>
  <2>1. x \in heap /\ sink_item # x /\ \A w \in Workers : item[w] # x
    BY <1>2, <1>3, <1>11 DEF ItemInv, HandsApart, Held
  <2>2. \A r \in Queues : IsIn(x, r) => r = q
    BY <1>2, <1>11 DEF IsIn, ItemInv, QueuesDistinct
  <2>3. QueuesOf(x) = {q}
    BY <1>5, <1>11, <2>2
  <2>4. (CHOOSE r \in QueuesOf(x) : TRUE) = q
    BY <2>3
  <2>. QED
    BY <1>3, <2>1, <2>3, <2>4 DEF PlaceOf
<1>12. ASSUME NEW w \in Workers, item[w] = x
       PROVE  placeBar[x] = <<"stage", w[1]>>
  <2>1. /\ x \in heap /\ sink_item # x
        /\ \A r \in Queues : ~IsIn(x, r)
        /\ \A v \in Workers : item[v] = x => v = w
    BY <1>2, <1>3, <1>12 DEF ItemInv, HandsApart, Held
  <2>2. QueuesOf(x) = {}
    BY <1>5, <2>1
  <2>3. StagesOf(x) = {w[1]}
    BY <1>6, <1>7, <1>12, <2>1
  <2>4. (CHOOSE s \in StagesOf(x) : TRUE) = w[1]
    BY <2>3
  <2>. QED
    BY <1>3, <2>1, <2>2, <2>3, <2>4 DEF PlaceOf
<1>13. ASSUME x \in heap, ~Held(x)
       PROVE  placeBar[x] = <<"forgotten", 0>>
  <2>1. QueuesOf(x) = {} /\ StagesOf(x) = {} /\ sink_item # x
    BY <1>5, <1>7, <1>13 DEF Held
  <2>. QED
    BY <1>3, <1>13, <2>1 DEF PlaceOf
<1>. QED
  BY <1>8, <1>9, <1>10, <1>11, <1>12, <1>13

\* Nothing the place of item x depends on changes.
Unmoved(x) ==
  /\ x >= tx' <=> x >= tx
  /\ x \in heap' <=> x \in heap
  /\ \A q \in Queues : IsIn(x, q)' <=> IsIn(x, q)
  /\ \A w \in Workers : item'[w] = x <=> item[w] = x
  /\ sink_item' = x <=> sink_item = x

LEMMA UnmovedStays ==
  ASSUME TypeOK, TypeOK', PlaceInv, PlaceInv', NEW x \in Items, Unmoved(x)
  PROVE  placeBar'[x] = placeBar[x]
<1>1. /\ x < tx <=> ~(x >= tx)
      /\ x < tx' <=> ~(x >= tx')
  BY ItemsNotNull DEF TypeOK
<1>2. Held(x)' <=> Held(x)
  BY DEF Unmoved, Held
<1>3. CASE x >= tx
  BY <1>3 DEF Unmoved, PlaceInv
<1>4. CASE x < tx /\ x \notin heap
  BY <1>1, <1>4 DEF Unmoved, PlaceInv
<1>5. CASE \E q \in Queues : IsIn(x, q)
  BY <1>5 DEF Unmoved, PlaceInv
<1>6. CASE \E w \in Workers : item[w] = x
  BY <1>6 DEF Unmoved, PlaceInv
<1>7. CASE sink_item = x
  BY <1>7 DEF Unmoved, PlaceInv
<1>8. CASE x \in heap /\ ~Held(x)
  BY <1>2, <1>8 DEF Unmoved, PlaceInv
<1>. QED
  BY <1>1, <1>3, <1>4, <1>5, <1>6, <1>7, <1>8 DEF Held

LEMMA NothingMoves ==
  ASSUME TypeOK, TypeOK', PlaceInv, PlaceInv', \A x \in Items : Unmoved(x)
  PROVE  placeBar' = placeBar
<1>1. \A x \in Items : placeBar'[x] = placeBar[x]
  BY UnmovedStays
<1>2. placeBar = [x \in Items |-> placeBar[x]] /\ placeBar' = [x \in Items |-> placeBar'[x]]
  BY DEF PlaceInv
<1>. QED
  BY <1>1, <1>2

LEMMA OneMoves ==
  ASSUME TypeOK, TypeOK', PlaceInv, PlaceInv', NEW x \in Items,
         \A y \in Items : y # x => Unmoved(y)
  PROVE  placeBar' = [placeBar EXCEPT ![x] = placeBar'[x]]
<1>1. \A y \in Items : y # x => placeBar'[y] = placeBar[y]
  BY UnmovedStays
<1>2. placeBar = [y \in Items |-> placeBar[y]] /\ placeBar' = [y \in Items |-> placeBar'[y]]
  BY DEF PlaceInv
<1>3. [placeBar EXCEPT ![x] = placeBar'[x]]
        = [y \in Items |-> IF y = x THEN placeBar'[x] ELSE placeBar[y]]
  BY <1>2
<1>. QED
  BY <1>1, <1>2, <1>3

\* Advance of Delivery, for an item that has been generated.
LEMMA ItemAdvances ==
  ASSUME TypeOK, TypeOK', PlaceInv, PlaceInv', NEW x \in Items,
         \A y \in Items : y # x => Unmoved(y),
         placeBar[x] # <<"new", 0>>,
         \/ Life!Process(placeBar[x], placeBar'[x])
         \/ Life!Forward(placeBar[x], placeBar'[x])
         \/ Life!Consume(placeBar[x], placeBar'[x])
  PROVE  Life!Next
<1>1. placeBar' = [placeBar EXCEPT ![x] = placeBar'[x]]
  BY OneMoves
<1>2. Life!Advance(x)
  BY <1>1 DEF Life!Advance, Life!New
<1>. QED
  BY <1>2 DEF Life!Next

LEMMA DeliverGenerate ==
  ASSUME ControlInv, ControlInv', ItemInv, PlaceInv, PlaceInv', GenerateItem
  PROVE  Life!Next
<1>0. PICK x : x = tx
  OBVIOUS
<1>1. x \in Items /\ x >= tx /\ tx' = x + 1 /\ UNCHANGED <<item, sink_item>>
  BY <1>0, PipelineAssumption
     DEF GenerateItem, MoreInBatch, ControlInv, TypeOK, BatchFits, Items
<1>2. \A y \in Items : y # x => (y >= tx' <=> y >= tx)
  BY <1>0, <1>1 DEF Items
<1>3. x < tx'
  BY <1>1 DEF Items
<1>4. x \notin heap
  BY <1>0, <1>1 DEF ItemInv, HeapIsHeld, Items
<1>5. placeBar[x] = <<"new", 0>>
  BY <1>1 DEF PlaceInv
<1>. DEFINE Moved == /\ placeBar'[x] \in {<<"queue", 0>>, <<"freed", 0>>}
                     /\ \A y \in Items : y # x => Unmoved(y)
<1>6. ASSUME HasRoom(0)
      PROVE  Moved
  <2>1. 0 \in Queues /\ Enqueue(0, x) /\ heap' = heap \cup {x}
    BY <1>0, <1>6, PipelineAssumption DEF GenerateItem, Queues
  <2>2. \A q \in Queues, y \in Items : IsIn(y, q)' <=> IsIn(y, q) \/ (q = 0 /\ y = x)
    BY <1>1, <2>1, EnqueueIsIn DEF ControlInv
  <2>3. placeBar'[x] = <<"queue", 0>>
    BY <1>1, <2>1, <2>2 DEF PlaceInv
  <2>4. \A y \in Items : y # x => Unmoved(y)
    BY <1>1, <1>2, <2>1, <2>2 DEF Unmoved
  <2>. QED
    BY <2>3, <2>4
<1>7. ASSUME ~HasRoom(0)
      PROVE  Moved
  <2>1. queue' = queue /\ heap' = heap
    BY <1>7 DEF GenerateItem
  <2>2. placeBar'[x] = <<"freed", 0>>
    BY <1>1, <1>3, <1>4, <2>1 DEF PlaceInv
  <2>3. \A y \in Items : y # x => Unmoved(y)
    BY <1>1, <1>2, <2>1 DEF Unmoved, IsIn
  <2>. QED
    BY <2>2, <2>3
<1>8. Moved
  BY <1>6, <1>7
<1>9. placeBar' = [placeBar EXCEPT ![x] = placeBar'[x]]
  BY <1>1, <1>8, OneMoves DEF ControlInv
<1>10. ASSUME NEW y \in Items, y < x
       PROVE  placeBar[y] # <<"new", 0>>
  <2>1. y < tx
    BY <1>0, <1>10
  <2>. QED
    BY <2>1 DEF PlaceInv, Held
<1>11. Life!Advance(x)
  BY <1>5, <1>8, <1>9, <1>10
     DEF Life!Advance, Life!New, Life!Generate, Life!InQueue, Life!Freed
<1>. QED
  BY <1>1, <1>11 DEF Life!Next

LEMMA DeliverPoll ==
  ASSUME ControlInv, ControlInv', ItemInv, PlaceInv, PlaceInv', NEW w \in Workers, WorkerPoll(w)
  PROVE  Life!Next \/ placeBar' = placeBar
<1>. DEFINE q == w[1] - 1
<1>0. PICK x : x = Front(q)
  OBVIOUS
<1>1. /\ worker[w] = "poll" /\ Dequeue(q)
      /\ UNCHANGED <<heap, tx, sink_item>>
      /\ \A v \in Workers : item'[v] = IF v = w THEN x ELSE item[v]
  BY <1>0 DEF WorkerPoll, WorkerAt, input_queue, items, counts, ControlInv, TypeOK
<1>2. q \in Queues /\ w[1] \in 1 .. NStages
  BY PipelineAssumption DEF Workers, Stages, Queues
<1>3. /\ x # NULL => x \in Items /\ IsIn(x, q)
      /\ \A r \in Queues, y \in Items : IsIn(y, r)' <=> IsIn(y, r) /\ ~(r = q /\ y = x)
  BY <1>0, <1>1, <1>2, DequeueIsIn DEF ControlInv, ItemInv
<1>4. item[w] = NULL
  BY <1>1 DEF ItemInv, HandsFull
<1>5. \A y \in Items : y # x => Unmoved(y)
  BY <1>1, <1>3, <1>4, ItemsNotNull DEF Unmoved
<1>6. CASE x = NULL
  BY <1>5, <1>6, NothingMoves, ItemsNotNull DEF ControlInv
<1>7. CASE x # NULL
  <2>1. placeBar[x] = <<"queue", q>> /\ placeBar'[x] = <<"stage", w[1]>>
    BY <1>1, <1>2, <1>3, <1>7 DEF PlaceInv
  <2>2. Life!Process(placeBar[x], placeBar'[x])
    BY <1>2, <2>1 DEF Life!Process, Life!InQueue, Life!AtStage
  <2>. QED
    BY <1>3, <1>5, <1>7, <2>1, <2>2, ItemAdvances DEF ControlInv
<1>. QED
  BY <1>6, <1>7

LEMMA DeliverForward ==
  ASSUME ControlInv, ControlInv', ItemInv, ItemInv', PlaceInv, PlaceInv', NEW w \in Workers,
         WorkerForward(w) \/ WorkerDrop(w)
  PROVE  Life!Next
<1>0. PICK x : x = item[w]
  OBVIOUS
<1>1. /\ worker[w] = "forward"
      /\ UNCHANGED <<tx, sink_item>>
      /\ \A v \in Workers : item'[v] = IF v = w THEN NULL ELSE item[v]
  BY DEF WorkerForward, WorkerDrop, WorkerAt, ControlInv, TypeOK
<1>2. w[1] \in Queues /\ w[1] \in 1 .. NStages
  BY PipelineAssumption DEF Workers, Stages, Queues
<1>3. /\ x # NULL /\ x \in Items /\ sink_item # x
      /\ \A r \in Queues : ~IsIn(x, r)
      /\ \A v \in Workers : item[v] = x => v = w
  BY <1>0, <1>1 DEF ItemInv, HandsFull, HandsApart, ControlInv, TypeOK
<1>4. x < tx
  BY <1>0, <1>3 DEF ItemInv, HeapIsHeld, Held
<1>5. placeBar[x] = <<"stage", w[1]>>
  BY <1>0, <1>3 DEF PlaceInv
<1>. DEFINE Moved == /\ placeBar'[x] \in {<<"queue", w[1]>>, <<"freed", 0>>}
                     /\ \A y \in Items : y # x => Unmoved(y)
<1>6. ASSUME WorkerForward(w)
      PROVE  Moved
  <2>1. Enqueue(w[1], x) /\ heap' = heap
    BY <1>0, <1>6 DEF WorkerForward, output_queue, items
  <2>2. \A r \in Queues, y \in Items : IsIn(y, r)' <=> IsIn(y, r) \/ (r = w[1] /\ y = x)
    BY <1>2, <1>3, <2>1, EnqueueIsIn DEF ControlInv
  <2>3. placeBar'[x] = <<"queue", w[1]>>
    BY <1>2, <1>3, <2>2 DEF PlaceInv
  <2>4. \A y \in Items : y # x => Unmoved(y)
    BY <1>0, <1>1, <2>1, <2>2, ItemsNotNull DEF Unmoved
  <2>. QED
    BY <2>3, <2>4
<1>7. ASSUME WorkerDrop(w)
      PROVE  Moved
  <2>1. queue' = queue /\ heap' = heap \ {x}
    BY <1>0, <1>7 DEF WorkerDrop
  <2>2. placeBar'[x] = <<"freed", 0>>
    BY <1>1, <1>3, <1>4, <2>1 DEF PlaceInv
  <2>3. \A y \in Items : y # x => Unmoved(y)
    BY <1>0, <1>1, <2>1, ItemsNotNull DEF Unmoved, IsIn
  <2>. QED
    BY <2>2, <2>3
<1>8. Moved
  BY <1>6, <1>7
<1>9. Life!Forward(placeBar[x], placeBar'[x])
  BY <1>2, <1>5, <1>8 DEF Life!Forward, Life!AtStage, Life!InQueue, Life!Freed
<1>. QED
  BY <1>3, <1>5, <1>8, <1>9, ItemAdvances DEF ControlInv

LEMMA DeliverSink ==
  ASSUME ControlInv, ControlInv', ItemInv, PlaceInv, PlaceInv', Sink
  PROVE  Life!Next \/ placeBar' = placeBar
<1>1. CASE SinkCheck
  <2>1. \A x \in Items : Unmoved(x)
    BY <1>1 DEF SinkCheck, items, counts, Unmoved, IsIn
  <2>. QED
    BY <2>1, NothingMoves DEF ControlInv
<1>2. CASE SinkPoll
  <2>0. PICK x : x = Front(NStages)
    OBVIOUS
  <2>1. /\ sinker = "poll" /\ Dequeue(NStages) /\ sink_item' = x
        /\ UNCHANGED <<heap, tx, item>>
    BY <1>2, <2>0 DEF SinkPoll, items, counts
  <2>2. NStages \in Queues
    BY PipelineAssumption DEF Queues
  <2>3. /\ x # NULL => x \in Items /\ IsIn(x, NStages)
        /\ \A r \in Queues, y \in Items :
             IsIn(y, r)' <=> IsIn(y, r) /\ ~(r = NStages /\ y = x)
    BY <2>0, <2>1, <2>2, DequeueIsIn DEF ControlInv, ItemInv
  <2>4. sink_item = NULL
    BY <2>1 DEF ItemInv, HandsFull
  <2>5. \A y \in Items : y # x => Unmoved(y)
    BY <2>1, <2>3, <2>4, ItemsNotNull DEF Unmoved
  <2>6. CASE x = NULL
    BY <2>5, <2>6, NothingMoves, ItemsNotNull DEF ControlInv
  <2>7. CASE x # NULL
    <3>1. placeBar[x] = <<"queue", NStages>> /\ placeBar'[x] = <<"sink", 0>>
      BY <2>1, <2>2, <2>3, <2>7 DEF PlaceInv
    <3>2. Life!Consume(placeBar[x], placeBar'[x])
      BY <3>1 DEF Life!Consume, Life!InQueue, Life!AtSink
    <3>. QED
      BY <2>3, <2>5, <2>7, <3>1, <3>2, ItemAdvances DEF ControlInv
  <2>. QED
    BY <2>6, <2>7
<1>3. CASE SinkConsume
  <2>0. PICK x : x = sink_item
    OBVIOUS
  <2>1. /\ sinker = "consume" /\ heap' = heap \ {x} /\ sink_item' = NULL
        /\ UNCHANGED <<queue, tx, item>>
    BY <1>3, <2>0 DEF SinkConsume
  <2>2. x # NULL /\ x \in Items /\ x < tx
    BY <2>0, <2>1 DEF ItemInv, HandsFull, HeapIsHeld, Held, ControlInv, TypeOK
  <2>3. placeBar[x] = <<"sink", 0>> /\ placeBar'[x] = <<"freed", 0>>
    BY <2>0, <2>1, <2>2 DEF PlaceInv
  <2>4. \A y \in Items : y # x => Unmoved(y)
    BY <2>0, <2>1, ItemsNotNull DEF Unmoved, IsIn
  <2>5. Life!Consume(placeBar[x], placeBar'[x])
    BY <2>3 DEF Life!Consume, Life!AtSink, Life!Freed
  <2>. QED
    BY <2>2, <2>3, <2>4, <2>5, ItemAdvances DEF ControlInv
<1>. QED
  BY <1>1, <1>2, <1>3 DEF Sink

LEMMA DeliverDestroy ==
  ASSUME ControlInv, ControlInv', ItemInv, PlaceInv, PlaceInv', NEW q \in Queues, DestroyQueue(q)
  PROVE  Life!Next
<1>1. queue' = [queue EXCEPT ![q] = <<>>] /\ UNCHANGED <<heap, tx, item, sink_item>>
  BY DEF DestroyQueue, LeavesData, items
<1>2. \A r \in Queues, y \in Items : IsIn(y, r)' <=> IsIn(y, r) /\ r # q
  BY <1>1, EmptyIsIn DEF ControlInv, ItemInv
<1>3. ASSUME NEW x \in Items
      PROVE  placeBar'[x] = IF placeBar[x] = <<"queue", q>> THEN <<"forgotten", 0>> ELSE placeBar[x]
  <2>1. CASE IsIn(x, q)
    <3>1. x # NULL
      BY ItemsNotNull
    <3>2. /\ \A w \in Workers : item[w] # x
          /\ sink_item # x /\ x \in heap
      BY <2>1, <3>1 DEF ItemInv, HandsApart, HeapIsHeld, Held
    <3>3. \A r \in Queues : IsIn(x, r) => r = q
      BY <2>1, <3>1 DEF IsIn, ItemInv, QueuesDistinct
    <3>4. ~Held(x)'
      BY <1>1, <1>2, <3>2, <3>3 DEF Held
    <3>5. placeBar'[x] = <<"forgotten", 0>> /\ placeBar[x] = <<"queue", q>>
      BY <1>1, <2>1, <3>2, <3>4 DEF PlaceInv
    <3>. QED
      BY <3>5
  <2>2. CASE ~IsIn(x, q)
    <3>1. Unmoved(x)
      BY <1>1, <1>2, <2>2 DEF Unmoved
    <3>2. placeBar'[x] = placeBar[x]
      BY <3>1, UnmovedStays DEF ControlInv
    <3>3. placeBar[x] # <<"queue", q>>
      <4>1. x < tx <=> ~(x >= tx)
        BY ItemsNotNull DEF ControlInv, TypeOK
      <4>2. CASE \E r \in Queues : IsIn(x, r)
        BY <2>2, <4>2 DEF PlaceInv
      <4>3. CASE ~ \E r \in Queues : IsIn(x, r)
        BY <4>1, <4>3 DEF PlaceInv, Held
      <4>. QED
        BY <4>2, <4>3
    <3>. QED
      BY <3>2, <3>3
  <2>. QED
    BY <2>1, <2>2
<1>4. placeBar' = [x \in Items |->
                     IF placeBar[x] = <<"queue", q>> THEN <<"forgotten", 0>> ELSE placeBar[x]]
  <2>1. placeBar' = [x \in Items |-> placeBar'[x]]
    BY DEF PlaceInv
  <2>. QED
    BY <1>3, <2>1
<1>5. Life!Destroy(q)
  BY <1>4 DEF Life!Destroy, Life!InQueue, Life!Forgotten
<1>. QED
  BY <1>5 DEF Life!Next, Queues

LEMMA DeliverWorker ==
  ASSUME ControlInv, ControlInv', ItemInv, ItemInv', PlaceInv, PlaceInv',
         NEW w \in Workers, Worker(w)
  PROVE  Life!Next \/ placeBar' = placeBar
<1>1. CASE WorkerCheck(w) \/ WorkerProcess(w)
  <2>1. UNCHANGED <<queue, heap, tx, item, sink_item>>
    BY <1>1 DEF WorkerCheck, WorkerProcess, items, counts
  <2>. QED
    BY <2>1, NothingMoves DEF ControlInv, Unmoved, IsIn
<1>. QED
  BY <1>1, DeliverPoll, DeliverForward DEF Worker

LEMMA DeliverStep ==
  ControlInv /\ ControlInv' /\ ItemInv /\ ItemInv' /\ PlaceInv /\ PlaceInv' /\ [Next]_vars
    => [Life!Next]_placeBar
<1>. SUFFICES ASSUME ControlInv, ControlInv', ItemInv, ItemInv', PlaceInv, PlaceInv', [Next]_vars
              PROVE  Life!Next \/ placeBar' = placeBar
  OBVIOUS
<1>1. ASSUME UNCHANGED <<queue, heap, tx, item, sink_item>>
      PROVE  placeBar' = placeBar
  BY <1>1, NothingMoves DEF ControlInv, Unmoved, IsIn
<1>2. CASE Main \/ CreateFails
  <2>1. CASE \E q \in Queues : DestroyQueue(q)
    BY <2>1, DeliverDestroy
  <2>2. CASE ~ \E q \in Queues : DestroyQueue(q)
    <3>1. UNCHANGED <<queue, heap, tx, item, sink_item>>
      BY <1>2, <2>2 DEF Main, CreateGenerator, CreateSink, StartStage, StageStarted, CreateWorker,
                        JoinGenerator, JoinSink, StopStage, JoinStage, CreateFails, LeavesData, items
    <3>. QED
      BY <1>1, <3>1
  <2>. QED
    BY <2>1, <2>2
<1>3. CASE Generator
  BY <1>1, <1>3, DeliverGenerate
     DEF Generator, GeneratorBatch, GeneratorBatchEnd, GeneratorExit, items, counts
<1>4. CASE UNCHANGED vars
  BY <1>1, <1>4 DEF vars, items, counts
<1>5. ASSUME NEW thread \in {"generator", "sink"}, Expire(thread)
      PROVE  placeBar' = placeBar
  BY <1>1, <1>5 DEF Expire, items, counts
<1>. QED
  BY <1>2, <1>3, <1>4, <1>5, DeliverWorker, DeliverSink DEF Next, Terminated

LEMMA DeliverInit == Init => Life!Init
<1>. SUFFICES ASSUME Init PROVE Life!Init
  OBVIOUS
<1>1. \A x \in Items : PlaceOf(x) = <<"new", 0>>
  <2>1. \A x \in Items : x >= tx
    BY DEF Init, Items
  <2>. QED
    BY <2>1 DEF PlaceOf
<1>. QED
  BY <1>1 DEF placeBar, Life!Init, Life!New

\* The pipeline implements Delivery: every item is generated in the order of
\* the ids, visits the stages one after the other without skipping any, and
\* ends freed or in a destroyed queue (pipeline-app.c:56-71, 110-123, 153-161).
THEOREM PipelineImplementsDelivery == Spec => ImplementsDelivery
<1>1. Spec => []PlaceInv
  BY ControlInvariance, ItemInvariance, PlacesMapped, PTL
<1>. QED
  BY <1>1, ControlInvariance, ItemInvariance, DeliverInit, DeliverStep, PTL
     DEF Spec, ImplementsDelivery, Life!Spec

=============================================================================

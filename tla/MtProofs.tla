------------------------------ MODULE MtProofs ------------------------------
(***************************************************************************)
(* What holds of Pipeline holds of MtPipeline: the two differ in one       *)
(* action, which moves no item.                                            *)
(***************************************************************************)
EXTENDS MtPipeline, DeliveryProofs

LEMMA MtStep ==
  [MtNext]_vars => [Next]_vars \/ \E w \in Workers : BusyPoll(w)
BY DEF MtNext, MtMain, MtGenerator, MtSink, MtWorker, Next, Worker

LEMMA BusyControl ==
  ASSUME ControlInv, NEW w \in Workers, BusyPoll(w)
  PROVE  ControlInv'
<1>1. ~TearingDown
  <2>1. worker[w] # "exited"
    BY DEF BusyPoll, WorkerAt
  <2>. QED
    BY <2>1 DEF ControlInv, JoinedThreadsEnded
<1>2. TypeOK' /\ BatchFits'
  BY DEF BusyPoll, WorkerGoto, ControlInv, TypeOK, items, counts, BatchFits
<1>3. JoinedThreadsEnded' /\ StartedStagesRun'
  BY <1>1 DEF BusyPoll, WorkerAt, WorkerGoto, ControlInv, TypeOK, JoinedThreadsEnded,
              StartedStagesRun, Stopping, TearingDown
<1>. QED
  BY <1>2, <1>3 DEF ControlInv

LEMMA BusyItem ==
  ASSUME ControlInv, ItemInv, NEW w \in Workers, BusyPoll(w)
  PROVE  ItemInv'
<1>1. HandsFull'
  BY DEF BusyPoll, WorkerAt, WorkerGoto, ItemInv, HandsFull, ControlInv, TypeOK
<1>. QED
  BY <1>1, ItemsStay DEF BusyPoll, items, counts

LEMMA MtControlInvariance == MtSpec => []ControlInv
<1>1. ControlInv /\ [MtNext]_vars => ControlInv'
  BY MtStep, ControlStep, BusyControl
<1>. QED
  BY <1>1, ControlInit, PTL DEF MtSpec

LEMMA MtSinkInvariance == MtSpec => []SinkNotBefore
<1>1. SinkNotBefore /\ [MtNext]_vars => SinkNotBefore'
  <2>1. ASSUME SinkNotBefore, NEW w \in Workers, BusyPoll(w)
        PROVE  SinkNotBefore'
    BY <2>1 DEF BusyPoll, SinkNotBefore
  <2>. QED
    BY <2>1, MtStep, SinkStep
<1>2. Init => SinkNotBefore
  BY DEF Init, SinkNotBefore
<1>. QED
  BY <1>1, <1>2, PTL DEF MtSpec

LEMMA MtItemInvariance == MtSpec => []ItemInv
<1>1. ControlInv /\ SinkNotBefore /\ ItemInv /\ [MtNext]_vars => ItemInv'
  BY MtStep, ItemStep, BusyItem
<1>. QED
  BY <1>1, ItemInit, MtControlInvariance, MtSinkInvariance, PTL DEF MtSpec

\* In mt-pipeline too no item is in two hands, used after its free or lost
\* (mt-pipeline.c:56-67, 107-119, 146-150).
THEOREM MtNoItemShared == MtSpec => []OneHolder
BY MtControlInvariance, MtItemInvariance, HoldersUnique, PTL

\* In mt-pipeline too no thread operates on a queue that main has freed, and
\* no stage ends before the generator and the sink (mt-pipeline.c:289-320).
THEOREM MtShutdownInOrder == MtSpec => [](QueuesOutliveUsers /\ StagesRunToTheEnd)
BY MtControlInvariance, ShutdownInOrder, PTL

\* In mt-pipeline too the counts of the threads agree with the queues, and at
\* the end with what was generated and what is still allocated
\* (mt-pipeline.c:56-67, 107-119, 146-150, 306-316).
THEOREM MtCountsAddUp == MtSpec => [](QueuesBalance /\ CountsAddUp)
<1>1. ControlInv /\ ItemInv /\ QueuesBalance /\ [MtNext]_vars => QueuesBalance'
  <2>1. ASSUME QueuesBalance, NEW w \in Workers, BusyPoll(w)
        PROVE  QueuesBalance'
    BY <2>1, BalanceStays DEF BusyPoll, items, counts
  <2>. QED
    BY <2>1, MtStep, BalanceStep
<1>2. ControlInv /\ ControlInv' /\ ItemInv /\ QueuesBalance /\ DrainedSoFar /\ TotalsAddUp
        /\ [MtNext]_vars => DrainedSoFar' /\ TotalsAddUp'
  <2>1. ASSUME DrainedSoFar, TotalsAddUp, NEW w \in Workers, BusyPoll(w)
        PROVE  DrainedSoFar' /\ TotalsAddUp'
    BY <2>1, DrainedStays DEF BusyPoll, items, counts
  <2>. QED
    BY <2>1, MtStep, DrainedStep
<1>3. MtSpec => []QueuesBalance
  BY <1>1, BalanceInit, MtControlInvariance, MtItemInvariance, PTL DEF MtSpec
<1>4. ControlInv /\ ControlInv' /\ ItemInv /\ HeapCounted /\ [MtNext]_vars => HeapCounted'
  <2>1. ASSUME HeapCounted, NEW w \in Workers, BusyPoll(w)
        PROVE  HeapCounted'
    BY <2>1, HeapStays DEF BusyPoll, items, counts
  <2>. QED
    BY <2>1, MtStep, HeapCountedStep
<1>5. MtSpec => []TotalsAddUp
  BY <1>2, <1>3, DrainedInit, MtControlInvariance, MtItemInvariance, PTL DEF MtSpec
<1>6. MtSpec => []HeapCounted
  BY <1>4, HeapCountedInit, MtControlInvariance, MtItemInvariance, PTL DEF MtSpec
<1>. QED
  BY <1>3, <1>5, <1>6, CountsFollow, MtControlInvariance, PTL

\* In mt-pipeline, whose stages have one thread each, nothing overtakes
\* (mt-pipeline.c:56-67, 107-119).
THEOREM MtNothingOvertakes == MtSpec => []InOrder
<1>1. ControlInv /\ ItemInv /\ OrderInv /\ [MtNext]_vars => OrderInv'
  <2>1. ASSUME OrderInv, NEW w \in Workers, BusyPoll(w)
        PROVE  OrderInv'
    BY <2>1, OrderUnchanged DEF BusyPoll
  <2>. QED
    BY <2>1, MtStep, OrderStep
<1>2. MtSpec => []OrderInv
  BY <1>1, OrderInit, MtControlInvariance, MtItemInvariance, PTL DEF MtSpec
<1>3. ControlInv => TypeOK
  BY DEF ControlInv
<1>. QED
  BY <1>2, <1>3, OrderImpliesInOrder, MtControlInvariance, PTL

\* mt-pipeline implements Delivery (mt-pipeline.c:56-67, 107-119, 146-150).
THEOREM MtImplementsDelivery == MtSpec => ImplementsDelivery
<1>1. ControlInv /\ ControlInv' /\ ItemInv /\ ItemInv' /\ PlaceInv /\ PlaceInv' /\ [MtNext]_vars
        => [Life!Next]_placeBar
  <2>1. ASSUME ControlInv, ControlInv', PlaceInv, PlaceInv', NEW w \in Workers, BusyPoll(w)
        PROVE  placeBar' = placeBar
    BY <2>1, NothingMoves DEF BusyPoll, items, counts, ControlInv, Unmoved, IsIn
  <2>. QED
    BY <2>1, MtStep, DeliverStep
<1>2. MtSpec => []PlaceInv
  BY MtControlInvariance, MtItemInvariance, PlacesMapped, PTL
<1>. QED
  BY <1>1, <1>2, MtControlInvariance, MtItemInvariance, DeliverInit, PTL
     DEF MtSpec, ImplementsDelivery, Life!Spec

=============================================================================

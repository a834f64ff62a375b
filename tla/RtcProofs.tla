----------------------------- MODULE RtcProofs -----------------------------
(***************************************************************************)
(* RtcApp does what Pipeline does: a thread that works on an item without  *)
(* having looked at the clock yet or again is one that processes it.  So   *)
(* the proofs about Pipeline hold of it, and with what they say of the     *)
(* places of the items follows that no two times are ever out of order.    *)
(***************************************************************************)
EXTENDS RtcProps, TLAPS

workerBar == [w \in Workers |-> IF worker[w] = "busy" THEN "process" ELSE worker[w]]

P == INSTANCE DeliveryProofs WITH worker <- workerBar

LEMMA SameSets ==
  P!Stages = Stages /\ P!Queues = Queues /\ P!Workers = Workers /\ P!Items = Items
BY DEF P!Stages, P!Queues, P!Workers, P!Items, Stages, Queues, Workers, Items

-----------------------------------------------------------------------------
(* Every step of RtcApp is one of Pipeline, or the end of the work on an    *)
(* item, in which no stamp is set.                                          *)

\* What the lemmas about Pipeline assume.
LEMMA PipelineAssumed ==
  /\ NStages \in Nat \ {0}
  /\ P!IsFiniteSet(Threads)
  /\ Capacity \in Nat /\ Capacity >= 2
  /\ BatchSize \in Nat \ {0}
  /\ MaxItems \in Nat
  /\ NULL \notin Nat
BY PipelineAssumption DEF P!IsFiniteSet, IsFiniteSet

LEMMA SameCardinality == \A S : P!Cardinality(S) = Cardinality(S)
BY Zenon DEF P!Cardinality, Cardinality

LEMMA BarGoto ==
  ASSUME RtcTypes, NEW w \in Workers, NEW l \in WorkerLabels, WorkerGoto(w, l)
  PROVE  P!WorkerGoto(w, IF l = "busy" THEN "process" ELSE l)
BY DEF RtcTypes, WorkerGoto, P!WorkerGoto, workerBar

LEMMA BarAt ==
  ASSUME NEW w \in Workers
  PROVE  /\ \A l \in WorkerLabels \ {"process", "busy"} : workerBar[w] = l <=> worker[w] = l
         /\ workerBar[w] = "process" <=> worker[w] \in {"process", "busy"}
BY DEF workerBar, WorkerLabels

LEMMA BarStays == worker' = worker => workerBar' = workerBar
BY DEF workerBar

LEMMA GeneratorMaps == RtcGenerator => P!Generator
BY BarStays
   DEF RtcGenerator, RtcGenerateItem, GenerateItem, GeneratorBatch, GeneratorBatchEnd,
       GeneratorExit, MoreInBatch, HasRoom, Enqueue, Ended, items, counts, control, threads,
       P!Generator, P!GenerateItem, P!GeneratorBatch, P!GeneratorBatchEnd,
       P!GeneratorExit, P!MoreInBatch, P!HasRoom, P!Enqueue, P!Ended, P!items, P!counts,
       P!control, P!threads

LEMMA SinkMaps == RtcSink => P!Sink
BY BarStays
   DEF RtcSink, RtcSinkConsume, SinkConsume, SinkCheck, SinkPoll, Front, Dequeue, Ended,
       items, counts,
       P!Sink, P!SinkConsume, P!SinkCheck, P!SinkPoll, P!Front, P!Dequeue, P!Ended,
       P!items, P!counts

LEMMA MainMaps ==
  ASSUME RtcTypes, Main \/ CreateFails
  PROVE  P!Main \/ P!CreateFails
<1>1. ASSUME NEW w \in Workers, CreateWorker(w)
      PROVE  P!CreateWorker(w)
  <2>1. WorkerGoto(w, "check")
    BY <1>1 DEF CreateWorker
  <2>2. P!WorkerGoto(w, "check")
    BY <2>1, BarGoto DEF WorkerLabels
  <2>3. workerBar[w] = "none"
    BY <1>1, BarAt DEF CreateWorker, WorkerLabels
  <2>. QED
    BY <1>1, <2>2, <2>3
       DEF CreateWorker, P!CreateWorker, MainAt, P!MainAt, LeavesData, P!LeavesData, items, P!items
<1>2. ASSUME NEW s \in Stages, StageStarted(s)
      PROVE  P!StageStarted(s)
  <2>1. \A t \in Threads : workerBar[<<s, t>>] # "none"
    BY <1>2, BarAt DEF StageStarted, Workers, WorkerLabels
  <2>. QED
    BY <1>2, <2>1, BarStays
       DEF StageStarted, P!StageStarted, MainAt, P!MainAt, MainGoto, P!MainGoto,
           LeavesData, P!LeavesData, items, P!items, threads, P!threads
<1>3. ASSUME NEW s \in Stages, JoinStage(s)
      PROVE  P!JoinStage(s)
  <2>1. \A t \in Threads : workerBar[<<s, t>>] = "exited"
    BY <1>3, BarAt DEF JoinStage, AllExited, Workers, WorkerLabels
  <2>. QED
    BY <1>3, <2>1, BarStays
       DEF JoinStage, P!JoinStage, P!AllExited, MainAt, P!MainAt, MainGoto, P!MainGoto,
           LeavesData, P!LeavesData, items, P!items, threads, P!threads
<1>4. ASSUME CreateFails
      PROVE  P!CreateFails
  <2>1. \A w \in Workers : workerBar[w] = "none" <=> worker[w] = "none"
    BY BarAt DEF WorkerLabels
  <2>. QED
    BY <1>4, <2>1, SameSets, BarStays
       DEF CreateFails, P!CreateFails, MainAt, P!MainAt, MainGoto, P!MainGoto,
           LeavesData, P!LeavesData, items, P!items, threads, P!threads
<1>5. /\ CreateGenerator => P!CreateGenerator
      /\ CreateSink => P!CreateSink
      /\ JoinGenerator => P!JoinGenerator
      /\ JoinSink => P!JoinSink
  BY BarStays
     DEF CreateGenerator, CreateSink, JoinGenerator, JoinSink, MainAt, MainGoto, LeavesData,
         items, threads, P!CreateGenerator, P!CreateSink, P!JoinGenerator, P!JoinSink,
         P!MainAt, P!MainGoto, P!LeavesData, P!items, P!threads
<1>6. ASSUME NEW s \in Stages
      PROVE  /\ StartStage(s) => P!StartStage(s)
             /\ StopStage(s) => P!StopStage(s)
  BY BarStays
     DEF StartStage, StopStage, SetRunning, MainAt, MainGoto, LeavesData, items, threads,
         P!StartStage, P!StopStage, P!SetRunning, P!MainAt, P!MainGoto, P!LeavesData,
         P!items, P!threads
<1>7. ASSUME NEW q \in Queues, DestroyQueue(q)
      PROVE  P!DestroyQueue(q)
  BY <1>7, BarStays, SameCardinality
     DEF DestroyQueue, MainAt, MainGoto, LeavesData, items, threads, P!DestroyQueue,
         P!MainAt, P!MainGoto, P!LeavesData, P!items, P!threads
<1>. QED
  BY <1>1, <1>2, <1>3, <1>4, <1>5, <1>6, <1>7, SameSets DEF Main, P!Main

\* The thread leaves its item as it is and goes on to pass it on.
Finishing(w) ==
  /\ P!WorkerAt(w, "process")
  /\ P!WorkerGoto(w, "forward")
  /\ UNCHANGED <<queue, destroyed, items, counts, is_running, main, generator, sinker>>
  /\ UNCHANGED <<i, item, sink_item, expired>>

LEMMA WorkerMaps ==
  ASSUME RtcTypes, NEW w \in Workers, RtcWorker(w)
  PROVE  P!Worker(w) \/ Finishing(w) \/ UNCHANGED P!vars
<1>. USE SameSets
<1>1. CASE WorkerCheck(w)
  <2>1. PICK l \in {"poll", "exited"} : l = IF is_running[w[1]] THEN "poll" ELSE "exited"
    OBVIOUS
  <2>2. P!WorkerGoto(w, l)
    BY <1>1, <2>1, BarGoto DEF WorkerCheck, WorkerLabels
  <2>3. P!WorkerAt(w, "check")
    BY <1>1, BarAt DEF WorkerCheck, WorkerAt, P!WorkerAt, WorkerLabels, Ended, P!Ended
  <2>. QED
    BY <1>1, <2>1, <2>2, <2>3
       DEF WorkerCheck, P!WorkerCheck, P!Worker, items, P!items, counts, P!counts
<1>2. CASE WorkerPoll(w)
  <2>1. PICK l \in {"check", "process"} : l = AfterPoll(item'[w])
    BY DEF AfterPoll
  <2>2. P!WorkerGoto(w, l)
    BY <1>2, <2>1, BarGoto DEF WorkerPoll, WorkerLabels
  <2>3. P!WorkerAt(w, "poll")
    BY <1>2, BarAt DEF WorkerPoll, WorkerAt, P!WorkerAt, WorkerLabels, Ended, P!Ended
  <2>. QED
    BY <1>2, <2>1, <2>2, <2>3
       DEF WorkerPoll, P!WorkerPoll, P!Worker, items, P!items, counts, P!counts, AfterPoll,
           P!AfterPoll, Front, P!Front, Dequeue, P!Dequeue, input_queue, P!input_queue
<1>3. CASE WorkerForward(w) \/ WorkerDrop(w)
  <2>1. P!WorkerGoto(w, "check")
    BY <1>3, BarGoto DEF WorkerForward, WorkerDrop, WorkerLabels
  <2>2. P!WorkerAt(w, "forward")
    BY <1>3, BarAt
       DEF WorkerForward, WorkerDrop, WorkerAt, P!WorkerAt, WorkerLabels, Ended, P!Ended
  <2>. QED
    BY <1>3, <2>1, <2>2
       DEF WorkerForward, P!WorkerForward, WorkerDrop, P!WorkerDrop, P!Worker, items, P!items,
           HasRoom, P!HasRoom, Enqueue, P!Enqueue, output_queue, P!output_queue
<1>4. CASE StartWork(w)
  <2>1. workerBar' = workerBar
    BY <1>4 DEF StartWork, WorkerAt, WorkerGoto, RtcTypes, workerBar
  <2>. QED
    BY <1>4, <2>1
       DEF StartWork, P!vars, items, counts, P!items, P!counts, P!control, P!threads
<1>5. CASE FinishWork(w)
  <2>1. P!WorkerGoto(w, "forward")
    BY <1>5, BarGoto DEF FinishWork, WorkerLabels
  <2>2. P!WorkerAt(w, "process")
    BY <1>5, BarAt DEF FinishWork, WorkerAt, P!WorkerAt, WorkerLabels, Ended, P!Ended
  <2>. QED
    BY <1>5, <2>1, <2>2 DEF FinishWork, Finishing
<1>. QED
  BY <1>1, <1>2, <1>3, <1>4, <1>5 DEF RtcWorker

LEMMA StepMaps ==
  ASSUME RtcTypes, [RtcNext]_rtc_vars
  PROVE  [P!Next]_P!vars \/ \E w \in Workers : Finishing(w)
<1>1. CASE UNCHANGED vars
  BY <1>1, BarStays
     DEF vars, items, counts, control, threads, P!vars, P!items, P!counts, P!control, P!threads
<1>2. ASSUME NEW thread \in {"generator", "sink"}, RtcExpire(thread)
      PROVE  P!Expire(thread)
  BY <1>2, BarStays
     DEF RtcExpire, Expire, P!Expire, Ended, P!Ended, items, counts, control, threads,
         P!items, P!counts, P!control, P!threads
<1>. QED
  BY <1>1, <1>2, GeneratorMaps, SinkMaps, MainMaps, WorkerMaps, SameSets
     DEF RtcNext, RtcMain, Tick, Terminated, rtc_vars, P!Next

-----------------------------------------------------------------------------
(* So the invariants of Pipeline hold.                                      *)

LEMMA FinishControl ==
  ASSUME P!ControlInv, NEW w \in Workers, Finishing(w)
  PROVE  P!ControlInv'
<1>. USE SameSets DEF P!WorkerAt, P!WorkerGoto
<1>1. ~P!TearingDown
  <2>1. workerBar[w] # "exited"
    BY DEF Finishing
  <2>. QED
    BY <2>1 DEF P!ControlInv, P!JoinedThreadsEnded
<1>2. P!TypeOK' /\ P!BatchFits'
  BY DEF Finishing, P!ControlInv, P!TypeOK, items, counts, P!BatchFits
<1>3. P!JoinedThreadsEnded' /\ P!StartedStagesRun'
  BY <1>1 DEF Finishing, P!ControlInv, P!TypeOK, P!JoinedThreadsEnded, P!StartedStagesRun,
              P!Stopping, P!TearingDown
<1>. QED
  BY <1>2, <1>3 DEF P!ControlInv

LEMMA FinishItem ==
  ASSUME P!ControlInv, P!ItemInv, NEW w \in Workers, Finishing(w)
  PROVE  P!ItemInv'
<1>1. P!HandsFull'
  BY SameSets DEF Finishing, P!WorkerAt, P!WorkerGoto, P!ItemInv, P!HandsFull, P!ControlInv, P!TypeOK
<1>. QED
  BY <1>1, P!ItemsStay, PipelineAssumed DEF Finishing, items, counts

LEMMA TypesStep ==
  ASSUME RtcTypes, P!TypeOK, P!ItemInv, P!ControlInv, [RtcNext]_rtc_vars
  PROVE  RtcTypes'
<1>. USE SameSets
<1>1. CASE UNCHANGED rtc_vars
  BY <1>1 DEF rtc_vars, vars, times, totals, control, threads, RtcTypes
<1>2. CASE RtcGenerator
  <2>1. worker' = worker /\ clock' = clock /\ UNCHANGED totals
    BY <1>2 DEF RtcGenerator, RtcGenerateItem, GenerateItem, GeneratorBatch,
                GeneratorBatchEnd, GeneratorExit, control, threads
  <2>2. created_at' \in [Items -> Nat] /\ stage_time' = stage_time /\ finished_at' = finished_at
    BY <1>2 DEF RtcGenerator, RtcGenerateItem, times, RtcTypes
  <2>. QED
    BY <2>1, <2>2 DEF RtcTypes, totals
<1>3. CASE RtcSink
  <2>1. worker' = worker /\ clock' = clock /\ UNCHANGED times
    BY <1>3 DEF RtcSink, RtcSinkConsume, SinkConsume, SinkCheck, SinkPoll
  <2>2. CASE UNCHANGED totals
    BY <2>1, <2>2 DEF RtcTypes, times, totals
  <2>3. CASE RtcSinkConsume
    <3>1. sink_item \in Items
      BY <2>3 DEF RtcSinkConsume, SinkConsume, P!TypeOK, P!ItemInv, P!HandsFull
    <3>2. /\ created_at[sink_item] \in Nat /\ stage_time[sink_item] \in Nat
          /\ finished_at[sink_item] \in Nat /\ clock \in Nat
      BY <3>1 DEF RtcTypes
    <3>3. \A t, u \in Nat : Elapsed(t, u) \in Nat
      BY RtcAssumption DEF Elapsed
    <3>4. /\ Elapsed(created_at[sink_item], clock) \in Nat
          /\ Elapsed(created_at[sink_item], stage_time[sink_item]) \in Nat
          /\ Elapsed(finished_at[sink_item], clock) \in Nat
          /\ Elapsed(stage_time[sink_item], finished_at[sink_item]) \in Nat
      BY <3>2, <3>3
    <3>5. /\ total_latency' \in Nat /\ total_wait_time' \in Nat
          /\ total_sink_time' \in Nat /\ total_processing_time' \in Nat
      BY <2>3, <3>4 DEF RtcSinkConsume, RtcTypes
    <3>. QED
      BY <2>1, <3>5 DEF RtcTypes, times
  <2>. QED
    BY <1>3, <2>2, <2>3 DEF RtcSink
<1>4. ASSUME NEW w \in Workers, RtcWorker(w)
      PROVE  RtcTypes'
  <2>. USE DEF WorkerGoto, RtcTypes, times, totals, WorkerLabels
  <2>1. CASE StartWork(w)
    BY <2>1 DEF StartWork, StampStart
  <2>2. CASE FinishWork(w)
    BY <2>2 DEF FinishWork
  <2>3. CASE WorkerPoll(w) /\ UNCHANGED <<clock, times, totals>>
    BY <2>3 DEF WorkerPoll, AfterPoll
  <2>4. CASE (WorkerCheck(w) \/ WorkerForward(w) \/ WorkerDrop(w))
               /\ UNCHANGED <<clock, times, totals>>
    BY <2>4 DEF WorkerCheck, WorkerForward, WorkerDrop
  <2>. QED
    BY <1>4, <2>1, <2>2, <2>3, <2>4 DEF RtcWorker
<1>5. CASE RtcMain \/ (CreateFails /\ UNCHANGED <<clock, times, totals>>)
  <2>1. UNCHANGED <<clock, times, totals>>
    BY <1>5 DEF RtcMain
  <2>2. worker' = worker \/ \E w \in Workers : WorkerGoto(w, "check")
    BY <1>5 DEF RtcMain, Main, CreateFails, CreateGenerator, CreateSink, StartStage,
                StageStarted, CreateWorker, JoinGenerator, JoinSink, StopStage, JoinStage,
                DestroyQueue, threads
  <2>. QED
    BY <2>1, <2>2 DEF RtcTypes, WorkerGoto, WorkerLabels, times, totals
<1>6. CASE Tick
  BY <1>6 DEF Tick, RtcTypes, vars, control, threads, times, totals
<1>7. ASSUME NEW thread \in {"generator", "sink"}, RtcExpire(thread)
      PROVE  RtcTypes'
  BY <1>7 DEF RtcExpire, Expire, RtcTypes, control, threads, times, totals
<1>8. CASE Terminated /\ UNCHANGED <<clock, times, totals>>
  BY <1>8 DEF Terminated, RtcTypes, vars, control, threads, times, totals
<1>. QED
  BY <1>1, <1>2, <1>3, <1>4, <1>5, <1>6, <1>7, <1>8 DEF RtcNext

LEMMA InitMaps == RtcInit => P!Init /\ RtcTypes
<1>. SUFFICES ASSUME RtcInit PROVE P!Init /\ RtcTypes
  OBVIOUS
<1>1. workerBar = [w \in Workers |-> "none"]
  BY DEF RtcInit, Init, workerBar
<1>2. P!Init
  BY <1>1, SameSets DEF RtcInit, Init, P!Init
<1>3. RtcTypes
  BY DEF RtcInit, Init, RtcTypes, WorkerLabels
<1>. QED
  BY <1>2, <1>3

LEMMA RtcInvariance ==
  RtcSpec => [](RtcTypes /\ P!ControlInv /\ P!SinkNotBefore /\ P!ItemInv)
<1>1. P!ControlInv => P!TypeOK
  BY DEF P!ControlInv
<1>2. ASSUME RtcTypes, P!ControlInv, P!SinkNotBefore, P!ItemInv, [RtcNext]_rtc_vars
      PROVE  RtcTypes' /\ P!ControlInv' /\ P!SinkNotBefore' /\ P!ItemInv'
  <2>1. ASSUME NEW w \in Workers, Finishing(w)
        PROVE  P!SinkNotBefore'
    BY <1>2, <2>1 DEF Finishing, P!SinkNotBefore
  <2>2. P!ControlInv'
    BY <1>2, StepMaps, P!ControlStep, PipelineAssumed, FinishControl
  <2>3. P!SinkNotBefore'
    BY <1>2, <2>1, StepMaps, P!SinkStep, PipelineAssumed
  <2>4. P!ItemInv'
    BY <1>2, StepMaps, P!ItemStep, PipelineAssumed, FinishItem
  <2>. QED
    BY <1>1, <1>2, <2>2, <2>3, <2>4, TypesStep
<1>3. RtcInit => RtcTypes /\ P!ControlInv /\ P!SinkNotBefore /\ P!ItemInv
  BY InitMaps, P!ControlInit, P!ItemInit, PipelineAssumed DEF P!Init, P!SinkNotBefore
<1>. QED
  BY <1>2, <1>3, PTL DEF RtcSpec

-----------------------------------------------------------------------------
(* The results about Pipeline.                                              *)

\* In rtc-app too no item is in two hands, used after its free or lost, and
\* no thread operates on a queue that main has freed (rtc-app.c:56-72,
\* 107-124, 151-163, 274-296).
THEOREM RtcNoItemShared == RtcSpec => [](P!OneHolder /\ P!QueuesOutliveUsers)
<1>1. P!ControlInv /\ P!ItemInv => P!OneHolder /\ P!QueuesOutliveUsers
  BY P!HoldersUnique, P!ShutdownInOrder, PipelineAssumed
<1>. QED
  BY <1>1, RtcInvariance, PTL

\* In rtc-app too the counts of the threads agree with the queues, and at the
\* end with what was generated and what is still allocated (rtc-app.c:66-72,
\* 111-124, 155, 286-294).
THEOREM RtcCountsAddUp == RtcSpec => [](P!QueuesBalance /\ P!CountsAddUp)
<1>1. ASSUME P!ControlInv, P!ItemInv, P!QueuesBalance, RtcTypes, [RtcNext]_rtc_vars
      PROVE  P!QueuesBalance'
  <2>1. ASSUME NEW w \in Workers, Finishing(w)
        PROVE  P!QueuesBalance'
    BY <1>1, <2>1, P!BalanceStays, PipelineAssumed DEF Finishing, items, counts
  <2>. QED
    BY <1>1, <2>1, StepMaps, P!BalanceStep, PipelineAssumed
<1>2. ASSUME P!ControlInv, P!ControlInv', P!ItemInv, P!QueuesBalance, P!DrainedSoFar,
             P!TotalsAddUp, RtcTypes, [RtcNext]_rtc_vars
      PROVE  P!DrainedSoFar' /\ P!TotalsAddUp'
  <2>1. ASSUME NEW w \in Workers, Finishing(w)
        PROVE  P!DrainedSoFar' /\ P!TotalsAddUp'
    BY <1>2, <2>1, P!DrainedStays, PipelineAssumed DEF Finishing, items, counts
  <2>. QED
    BY <1>2, <2>1, StepMaps, P!DrainedStep, PipelineAssumed
<1>3. RtcInit => P!QueuesBalance /\ P!DrainedSoFar /\ P!TotalsAddUp
  BY InitMaps, P!BalanceInit, P!DrainedInit, PipelineAssumed
<1>4. RtcSpec => []P!QueuesBalance
  BY <1>1, <1>3, RtcInvariance, PTL DEF RtcSpec
<1>5. ASSUME P!ControlInv, P!ControlInv', P!ItemInv, P!HeapCounted, RtcTypes,
             [RtcNext]_rtc_vars
      PROVE  P!HeapCounted'
  <2>1. ASSUME NEW w \in Workers, Finishing(w)
        PROVE  P!HeapCounted'
    BY <1>5, <2>1, P!HeapStays, PipelineAssumed DEF Finishing, items, counts
  <2>. QED
    BY <1>5, <2>1, StepMaps, P!HeapCountedStep, PipelineAssumed
<1>6. RtcInit => P!HeapCounted
  BY InitMaps, P!HeapCountedInit, PipelineAssumed
<1>7. RtcSpec => []P!TotalsAddUp
  BY <1>2, <1>3, <1>4, RtcInvariance, PTL DEF RtcSpec
<1>8. RtcSpec => []P!HeapCounted
  BY <1>5, <1>6, RtcInvariance, PTL DEF RtcSpec
<1>9. P!ControlInv /\ P!TotalsAddUp /\ P!HeapCounted => P!CountsAddUp
  BY P!CountsFollow, PipelineAssumed
<1>. QED
  BY <1>4, <1>7, <1>8, <1>9, RtcInvariance, PTL

\* rtc-app with one thread keeps the order of the items (rtc-app.c:56-72,
\* 107-124).
THEOREM RtcNothingOvertakes == RtcSpec => []P!InOrder
<1>1. ASSUME P!ControlInv, P!ItemInv, P!OrderInv, RtcTypes, [RtcNext]_rtc_vars
      PROVE  P!OrderInv'
  <2>1. ASSUME NEW w \in Workers, Finishing(w)
        PROVE  P!OrderInv'
    BY <1>1, <2>1, P!OrderUnchanged, PipelineAssumed DEF Finishing
  <2>. QED
    BY <1>1, <2>1, StepMaps, P!OrderStep, PipelineAssumed
<1>2. RtcInit => P!OrderInv
  BY InitMaps, P!OrderInit, PipelineAssumed
<1>3. P!ControlInv /\ P!OrderInv => P!InOrder
  BY P!OrderImpliesInOrder, PipelineAssumed DEF P!ControlInv
<1>. QED
  BY <1>1, <1>2, <1>3, RtcInvariance, PTL DEF RtcSpec

\* rtc-app implements Delivery: with any number of threads every item is worked
\* on once and ends freed or in a destroyed queue (rtc-app.c:56-72, 107-124,
\* 151-163).
THEOREM RtcImplementsDelivery == RtcSpec => P!ImplementsDelivery
<1>1. P!ControlInv /\ P!ItemInv => P!PlaceInv
  BY P!PlacesMapped, PipelineAssumed
<1>2. ASSUME P!ControlInv, P!ControlInv', P!ItemInv, P!ItemInv', P!PlaceInv, P!PlaceInv',
             RtcTypes, [RtcNext]_rtc_vars
      PROVE  [P!Life!Next]_P!placeBar
  <2>1. ASSUME NEW w \in Workers, Finishing(w)
        PROVE  P!placeBar' = P!placeBar
    <3>1. \A x \in P!Items : P!Unmoved(x)
      BY <2>1 DEF Finishing, items, counts, P!Unmoved, P!IsIn
    <3>. QED
      BY <1>2, <3>1, P!NothingMoves, PipelineAssumed DEF P!ControlInv
  <2>. QED
    BY <1>2, <2>1, StepMaps, P!DeliverStep, PipelineAssumed
<1>3. RtcInit => P!Life!Init
  BY InitMaps, P!DeliverInit, PipelineAssumed
<1>. QED
  BY <1>1, <1>2, <1>3, RtcInvariance, PTL DEF RtcSpec, P!ImplementsDelivery, P!Life!Spec

-----------------------------------------------------------------------------
(* The times of the items.                                                  *)

LEMMA StampsInit == RtcInit => StampsInOrder
<1>. SUFFICES ASSUME RtcInit, NEW x \in Items
              PROVE  created_at[x] <= clock /\ ~Working(x) /\ ~Worked(x)
  BY DEF StampsInOrder
<1>1. x # NULL
  BY PipelineAssumption DEF Items
<1>2. created_at[x] <= clock
  BY DEF RtcInit
<1>3. ~Working(x)
  BY DEF RtcInit, Init, Working
<1>4. ~Worked(x)
  <2>1. \A w \in Workers : worker[w] = "none"
    BY DEF RtcInit, Init
  <2>2. queue[NStages] = <<NULL>> /\ sink_item = NULL
    BY RtcAssumption DEF RtcInit, Init, Queues
  <2>. QED
    BY <1>1, <2>1, <2>2 DEF Worked
<1>. QED
  BY <1>2, <1>3, <1>4

\* A step that writes no times, and brings no item to a new place.
LEMMA StampsKept ==
  ASSUME RtcTypes, StampsInOrder, UNCHANGED times, clock' \in Nat, clock' >= clock,
         \A x \in Items : Working(x)' => Working(x),
         \A x \in Items : Worked(x)' => Worked(x)
  PROVE  StampsInOrder'
<1>. SUFFICES ASSUME NEW x \in Items
              PROVE  /\ created_at'[x] <= clock'
                     /\ Working(x)' => created_at'[x] <= stage_time'[x] /\ stage_time'[x] <= clock'
                     /\ Worked(x)' =>
                          /\ created_at'[x] <= stage_time'[x]
                          /\ stage_time'[x] + Duration <= finished_at'[x]
                          /\ finished_at'[x] <= clock'
  BY DEF StampsInOrder
<1>1. created_at[x] \in Nat /\ stage_time[x] \in Nat /\ finished_at[x] \in Nat /\ clock \in Nat
  BY DEF RtcTypes
<1>. QED
  BY <1>1 DEF StampsInOrder, times

\* The places of an item depend on these variables only.
LEMMA PlacesKept ==
  ASSUME UNCHANGED <<worker, item, sink_item>>, queue'[NStages] = queue[NStages]
  PROVE  \A x \in Items : (Working(x)' <=> Working(x)) /\ (Worked(x)' <=> Worked(x))
BY DEF Working, Worked

LEMMA StampsGenerate ==
  ASSUME RtcTypes, P!ControlInv, P!ItemInv, StampsInOrder, RtcGenerator
  PROVE  StampsInOrder'
<1>. USE SameSets
<1>1. UNCHANGED <<worker, item, sink_item, clock>> /\ queue'[NStages] = queue[NStages]
  <2>1. UNCHANGED <<worker, item, sink_item, clock>>
    BY DEF RtcGenerator, RtcGenerateItem, GenerateItem, GeneratorBatch, GeneratorBatchEnd,
           GeneratorExit, control, threads
  <2>2. queue' = queue \/ Enqueue(0, tx)
    BY DEF RtcGenerator, RtcGenerateItem, GenerateItem, GeneratorBatch, GeneratorBatchEnd,
           GeneratorExit
  <2>. QED
    BY <2>1, <2>2, RtcAssumption DEF Enqueue, P!ControlInv, P!TypeOK, Queues
<1>2. CASE UNCHANGED times
  BY <1>1, <1>2, PlacesKept, StampsKept DEF RtcTypes
<1>3. CASE RtcGenerateItem
  <2>1. /\ created_at' = [created_at EXCEPT ![tx] = clock]
        /\ UNCHANGED <<stage_time, finished_at>>
    BY <1>3 DEF RtcGenerateItem
  <2>2. tx \in Nat
    BY DEF P!ControlInv, P!TypeOK
  <2>3. ASSUME tx \in Items
        PROVE  ~Working(tx) /\ ~Worked(tx)
    <3>1. tx \notin heap
      BY <2>2, <2>3 DEF P!ItemInv, P!HeapIsHeld
    <3>2. ~P!Held(tx)
      BY <2>3, <3>1 DEF P!ItemInv, P!HeapIsHeld
    <3>3. NStages \in Queues
      BY RtcAssumption DEF Queues
    <3>. QED
      BY <3>2, <3>3 DEF P!Held, P!IsIn, Working, Worked
  <2>. SUFFICES ASSUME NEW x \in Items
                PROVE  /\ created_at'[x] <= clock
                       /\ Working(x) => created_at'[x] <= stage_time[x] /\ stage_time[x] <= clock
                       /\ Worked(x) =>
                            /\ created_at'[x] <= stage_time[x]
                            /\ stage_time[x] + Duration <= finished_at[x]
                            /\ finished_at[x] <= clock
    BY <1>1, <2>1, PlacesKept DEF StampsInOrder
  <2>4. CASE x = tx
    BY <2>1, <2>3, <2>4 DEF RtcTypes
  <2>5. CASE x # tx
    BY <2>1, <2>5 DEF RtcTypes, StampsInOrder
  <2>. QED
    BY <2>4, <2>5
<1>. QED
  BY <1>2, <1>3 DEF RtcGenerator

LEMMA StampsWork ==
  ASSUME RtcTypes, P!ControlInv, P!ItemInv, StampsInOrder, NEW w \in Workers, RtcWorker(w)
  PROVE  StampsInOrder'
<1>. USE SameSets
<1>1. w[1] = NStages /\ NStages \in Queues
  BY RtcAssumption DEF Workers, Stages, Queues
<1>2. worker \in [Workers -> WorkerLabels] /\ item \in [Workers -> Items \cup {NULL}]
  BY DEF RtcTypes, P!ControlInv, P!TypeOK
<1>3. NULL \notin Items
  BY PipelineAssumption DEF Items
<1>4. CASE WorkerCheck(w) /\ UNCHANGED <<clock, times, totals>>
  <2>1. \A v \in Workers : worker'[v] \in {"busy", "forward"} => worker[v] = worker'[v]
    BY <1>2, <1>4 DEF WorkerCheck, WorkerGoto
  <2>2. UNCHANGED <<item, sink_item, queue>>
    BY <1>4 DEF WorkerCheck
  <2>3. \A x \in Items : (Working(x)' => Working(x)) /\ (Worked(x)' => Worked(x))
    BY <2>1, <2>2 DEF Working, Worked
  <2>. QED
    BY <1>4, <2>3, StampsKept DEF RtcTypes
<1>5. CASE WorkerPoll(w) /\ UNCHANGED <<clock, times, totals>>
  <2>1. \A v \in Workers : worker'[v] \in {"busy", "forward"} =>
          worker[v] = worker'[v] /\ item'[v] = item[v]
    BY <1>2, <1>5 DEF WorkerPoll, WorkerGoto, AfterPoll
  <2>2. queue'[NStages] = queue[NStages] /\ sink_item' = sink_item
    BY <1>1, <1>5, RtcAssumption
       DEF WorkerPoll, Dequeue, input_queue, P!ControlInv, P!TypeOK, Queues
  <2>3. \A x \in Items : (Working(x)' => Working(x)) /\ (Worked(x)' => Worked(x))
    BY <2>1, <2>2 DEF Working, Worked
  <2>. QED
    BY <1>5, <2>3, StampsKept DEF RtcTypes
<1>6. CASE WorkerForward(w) /\ UNCHANGED <<clock, times, totals>>
  <2>1. \A v \in Workers : worker'[v] \in {"busy", "forward"} =>
          worker[v] = worker'[v] /\ item'[v] = item[v]
    BY <1>2, <1>6 DEF WorkerForward, WorkerGoto
  <2>2. worker[w] = "forward" /\ sink_item' = sink_item /\ P!Enqueue(NStages, item[w])
    BY <1>1, <1>6
       DEF WorkerForward, WorkerAt, Enqueue, P!Enqueue, output_queue
  <2>3. item[w] \in Items
    <3>1. workerBar[w] = "forward"
      BY <2>2 DEF workerBar
    <3>. QED
      BY <1>2, <3>1 DEF P!ItemInv, P!HandsFull
  <2>4. \A y \in Items : P!IsIn(y, NStages)' => P!IsIn(y, NStages) \/ y = item[w]
    BY <1>1, <2>2, <2>3, P!EnqueueIsIn, PipelineAssumed DEF P!ControlInv
  <2>5. \A x \in Items : (Working(x)' => Working(x)) /\ (Worked(x)' => Worked(x))
    BY <2>1, <2>2, <2>4 DEF Working, Worked, P!IsIn
  <2>. QED
    BY <1>6, <2>5, StampsKept DEF RtcTypes
<1>7. CASE WorkerDrop(w) /\ UNCHANGED <<clock, times, totals>>
  <2>1. \A v \in Workers : worker'[v] \in {"busy", "forward"} =>
          worker[v] = worker'[v] /\ item'[v] = item[v]
    BY <1>2, <1>7 DEF WorkerDrop, WorkerGoto
  <2>2. queue' = queue /\ sink_item' = sink_item
    BY <1>7 DEF WorkerDrop
  <2>3. \A x \in Items : (Working(x)' => Working(x)) /\ (Worked(x)' => Worked(x))
    BY <2>1, <2>2 DEF Working, Worked
  <2>. QED
    BY <1>7, <2>3, StampsKept DEF RtcTypes
<1>8. ASSUME worker[w] \in {"process", "busy"}
      PROVE  item[w] \in Items /\ ~Worked(item[w])
  <2>1. workerBar[w] = "process" /\ worker[w] # "forward"
    BY <1>8 DEF workerBar
  <2>2. item[w] # NULL
    BY <2>1 DEF P!ItemInv, P!HandsFull
  <2>3. ~P!IsIn(item[w], NStages) /\ sink_item # item[w]
    BY <1>1, <2>2 DEF P!ItemInv, P!HandsApart
  <2>4. \A v \in Workers : item[v] = item[w] => v = w
    BY <2>2 DEF P!ItemInv, P!HandsApart
  <2>. QED
    BY <1>2, <2>1, <2>2, <2>3, <2>4 DEF Worked, P!IsIn
<1>9. CASE StartWork(w)
  <2>1. worker[w] = "process"
    BY <1>9 DEF StartWork, WorkerAt
  <2>2. /\ stage_time' = [stage_time EXCEPT ![item[w]] = clock]
        /\ worker' = [worker EXCEPT ![w] = "busy"]
        /\ UNCHANGED <<created_at, finished_at, clock, queue, item, sink_item>>
    BY <1>9 DEF StartWork, StampStart, WorkerGoto
  <2>. SUFFICES ASSUME NEW x \in Items
                PROVE  /\ created_at[x] <= clock
                       /\ Working(x)' => created_at[x] <= stage_time'[x] /\ stage_time'[x] <= clock
                       /\ Worked(x)' =>
                            /\ created_at[x] <= stage_time'[x]
                            /\ stage_time'[x] + Duration <= finished_at[x]
                            /\ finished_at[x] <= clock
    BY <2>2 DEF StampsInOrder
  <2>3. Worked(x)' => Worked(x)
    BY <1>2, <2>2 DEF Worked
  <2>4. CASE x = item[w]
    BY <1>8, <2>1, <2>2, <2>3, <2>4 DEF StampsInOrder, RtcTypes
  <2>5. CASE x # item[w]
    <3>1. Working(x)' => Working(x)
      BY <1>2, <2>2, <2>5 DEF Working
    <3>2. stage_time'[x] = stage_time[x]
      BY <2>2, <2>5
    <3>. QED
      BY <2>3, <3>1, <3>2 DEF StampsInOrder
  <2>. QED
    BY <2>4, <2>5
<1>10. CASE FinishWork(w)
  <2>1. worker[w] = "busy" /\ clock - stage_time[item[w]] >= Duration
    BY <1>10 DEF FinishWork, WorkerAt, WorkDone
  <2>2. /\ finished_at' = [finished_at EXCEPT ![item[w]] = clock]
        /\ worker' = [worker EXCEPT ![w] = "forward"]
        /\ UNCHANGED <<created_at, stage_time, clock, queue, item, sink_item>>
    BY <1>10 DEF FinishWork, WorkerGoto
  <2>. SUFFICES ASSUME NEW x \in Items
                PROVE  /\ created_at[x] <= clock
                       /\ Working(x)' => created_at[x] <= stage_time[x] /\ stage_time[x] <= clock
                       /\ Worked(x)' =>
                            /\ created_at[x] <= stage_time[x]
                            /\ stage_time[x] + Duration <= finished_at'[x]
                            /\ finished_at'[x] <= clock
    BY <2>2 DEF StampsInOrder
  <2>3. Working(x)' => Working(x)
    BY <1>2, <2>2 DEF Working
  <2>4. CASE x = item[w]
    <3>1. Working(x)
      BY <2>1, <2>4 DEF Working
    <3>. QED
      BY <2>1, <2>2, <2>4, <3>1, RtcAssumption DEF StampsInOrder, RtcTypes
  <2>5. CASE x # item[w]
    <3>1. Worked(x)' => Worked(x)
      BY <1>2, <2>2, <2>5 DEF Worked
    <3>2. finished_at'[x] = finished_at[x]
      BY <2>2, <2>5
    <3>. QED
      BY <2>3, <3>1, <3>2 DEF StampsInOrder
  <2>. QED
    BY <2>4, <2>5
<1>. QED
  BY <1>4, <1>5, <1>6, <1>7, <1>9, <1>10 DEF RtcWorker

LEMMA StampsSink ==
  ASSUME RtcTypes, P!ControlInv, P!ItemInv, StampsInOrder, RtcSink
  PROVE  StampsInOrder'
<1>. USE SameSets
<1>1. UNCHANGED <<worker, item, times, clock>>
  BY DEF RtcSink, RtcSinkConsume, SinkConsume, SinkCheck, SinkPoll
<1>2. NStages \in Queues /\ NULL \notin Items
  BY RtcAssumption, PipelineAssumption DEF Queues, Items
<1>3. \A x \in Items : Worked(x)' => Worked(x)
  <2>1. CASE SinkCheck
    BY <1>1, <2>1 DEF SinkCheck, Worked
  <2>2. CASE SinkConsume
    BY <1>1, <1>2, <2>2 DEF SinkConsume, Worked
  <2>3. CASE SinkPoll
    <3>1. P!Dequeue(NStages) /\ sink_item' = P!Front(NStages)
      BY <2>3 DEF SinkPoll, Dequeue, P!Dequeue, Front, P!Front
    <3>2. /\ P!Front(NStages) # NULL => P!IsIn(P!Front(NStages), NStages)
          /\ \A y \in Items : P!IsIn(y, NStages)' => P!IsIn(y, NStages)
      BY <1>2, <3>1, P!DequeueIsIn, PipelineAssumed DEF P!ControlInv, P!ItemInv
    <3>. QED
      BY <1>1, <1>2, <3>1, <3>2 DEF Worked, P!IsIn
  <2>. QED
    BY <2>1, <2>2, <2>3 DEF RtcSink, RtcSinkConsume
<1>4. \A x \in Items : Working(x)' => Working(x)
  BY <1>1 DEF Working
<1>. QED
  BY <1>1, <1>3, <1>4, StampsKept DEF RtcTypes

LEMMA StampsMain ==
  ASSUME RtcTypes, P!ControlInv, StampsInOrder,
         RtcMain \/ (CreateFails /\ UNCHANGED <<clock, times, totals>>)
  PROVE  StampsInOrder'
<1>. USE SameSets
<1>1. UNCHANGED <<clock, times, item, sink_item>>
  BY DEF RtcMain, Main, CreateFails, CreateGenerator, CreateSink, StartStage,
         StageStarted, CreateWorker, JoinGenerator, JoinSink, StopStage, JoinStage,
         DestroyQueue, LeavesData
<1>2. worker' = worker \/ \E w \in Workers : worker' = [worker EXCEPT ![w] = "check"]
  BY DEF RtcMain, Main, CreateFails, CreateGenerator, CreateSink, StartStage,
         StageStarted, CreateWorker, JoinGenerator, JoinSink, StopStage, JoinStage,
         DestroyQueue, threads, WorkerGoto
<1>3. \A v \in Workers : worker'[v] \in {"busy", "forward"} => worker[v] = worker'[v]
  BY <1>2 DEF RtcTypes
<1>4. queue' = queue \/ \E q \in Queues : queue' = [queue EXCEPT ![q] = <<>>]
  BY DEF RtcMain, Main, CreateFails, CreateGenerator, CreateSink, StartStage,
         StageStarted, CreateWorker, JoinGenerator, JoinSink, StopStage, JoinStage,
         DestroyQueue
<1>5. queue'[NStages] \in {queue[NStages], <<>>}
  BY <1>4, RtcAssumption DEF P!ControlInv, P!TypeOK, Queues
<1>6. \A x \in Items : (Working(x)' => Working(x)) /\ (Worked(x)' => Worked(x))
  BY <1>1, <1>3, <1>5 DEF Working, Worked
<1>. QED
  BY <1>1, <1>6, StampsKept DEF RtcTypes

LEMMA StampsStep ==
  ASSUME RtcTypes, P!ControlInv, P!ItemInv, StampsInOrder, [RtcNext]_rtc_vars
  PROVE  StampsInOrder'
<1>1. ASSUME UNCHANGED <<queue, worker, item, sink_item, times>>, clock' \in {clock, clock + 1}
      PROVE  StampsInOrder'
  BY <1>1, PlacesKept, StampsKept DEF RtcTypes
<1>2. CASE \/ UNCHANGED rtc_vars \/ Tick
           \/ \E thread \in {"generator", "sink"} : RtcExpire(thread)
           \/ (Terminated /\ UNCHANGED <<clock, times, totals>>)
  BY <1>1, <1>2
     DEF rtc_vars, vars, Tick, RtcExpire, Expire, Terminated, control, threads
<1>. QED
  BY <1>2, StampsGenerate, StampsWork, StampsSink, StampsMain DEF RtcNext

-----------------------------------------------------------------------------
(* The sums.                                                                *)

\* The quotient that the division of unsigned numbers gives.
LEMMA Quotient ==
  ASSUME NEW n \in Nat
  PROVE  /\ n \div Unit \in Nat
         /\ Unit * (n \div Unit) <= n
         /\ n < Unit * (n \div Unit) + Unit
BY RtcAssumption

LEMMA QuotientsOrdered ==
  ASSUME NEW m \in Int, NEW n \in Int, Unit * m < Unit * n
  PROVE  m < n
<1>1. n <= m => Unit * n <= Unit * m
  BY RtcAssumption
<1>. QED
  BY <1>1, RtcAssumption

\* Three parts, each rounded off, against the whole.
LEMMA PartsOfWhole ==
  ASSUME NEW l \in Nat, NEW m \in Nat, NEW n \in Nat
  PROVE  (l + m + n) \div Unit - (l \div Unit + m \div Unit + n \div Unit) \in 0 .. 2
<1>. DEFINE a == l \div Unit
            b == m \div Unit
            c == n \div Unit
            d == (l + m + n) \div Unit
<1>1. /\ a \in Nat /\ Unit * a <= l /\ l < Unit * a + Unit
      /\ b \in Nat /\ Unit * b <= m /\ m < Unit * b + Unit
      /\ c \in Nat /\ Unit * c <= n /\ n < Unit * c + Unit
  BY Quotient
<1>2. d \in Nat /\ Unit * d <= l + m + n /\ l + m + n < Unit * d + Unit
  BY Quotient
<1>. HIDE DEF a, b, c, d
<1>3. /\ Unit * (a + b + c) = Unit * a + Unit * b + Unit * c
      /\ Unit * (a + b + c + 3) = Unit * a + Unit * b + Unit * c + Unit + Unit + Unit
      /\ Unit * (d + 1) = Unit * d + Unit
  BY <1>1, <1>2, RtcAssumption
<1>4. Unit * a \in Int /\ Unit * b \in Int /\ Unit * c \in Int /\ Unit * d \in Int
  BY <1>1, <1>2, RtcAssumption
<1>5. Unit * (a + b + c) < Unit * (d + 1)
  BY <1>1, <1>2, <1>3, <1>4, RtcAssumption
<1>6. Unit * d < Unit * (a + b + c + 3)
  BY <1>1, <1>2, <1>3, <1>4, RtcAssumption
<1>7. a + b + c < d + 1 /\ d < a + b + c + 3
  BY <1>1, <1>2, <1>5, <1>6, QuotientsOrdered
<1>8. d - (a + b + c) \in 0 .. 2
  BY <1>1, <1>2, <1>7
<1>. QED
  BY <1>8 DEF a, b, c, d

LEMMA QuotientGrows ==
  ASSUME NEW m \in Nat, NEW n \in Nat, m <= n
  PROVE  m \div Unit <= n \div Unit
<1>. DEFINE a == m \div Unit
            b == n \div Unit
<1>1. a \in Nat /\ Unit * a <= m /\ b \in Nat /\ n < Unit * b + Unit
  BY Quotient
<1>. HIDE DEF a, b
<1>2. Unit * (b + 1) = Unit * b + Unit /\ Unit * a \in Int /\ Unit * b \in Int
  BY <1>1, RtcAssumption
<1>3. Unit * a < Unit * (b + 1)
  BY <1>1, <1>2, RtcAssumption
<1>4. a < b + 1
  BY <1>1, <1>3, QuotientsOrdered
<1>5. a <= b
  BY <1>1, <1>4
<1>. QED
  BY <1>5 DEF a, b

\* Before the clock reaches Modulus no difference wraps around.
LEMMA ElapsedIs ==
  ASSUME NEW t \in Nat, NEW u \in Nat, t <= u, u < Modulus
  PROVE  Elapsed(t, u) = (u - t) \div Unit
<1>1. (u - t) % Modulus = u - t
  BY RtcAssumption
<1>. QED
  BY <1>1 DEF Elapsed

LEMMA SumsStep ==
  ASSUME RtcTypes, P!ControlInv, P!ItemInv, StampsInOrder,
         clock < Modulus => TimesAddUp, [RtcNext]_rtc_vars, clock' < Modulus
  PROVE  TimesAddUp'
<1>. USE SameSets
<1>1. CASE UNCHANGED <<totals, processed, clock>>
  BY <1>1 DEF TimesAddUp, totals
<1>2. CASE Tick
  <2>1. UNCHANGED <<totals, processed>> /\ clock' = clock + 1
    BY <1>2 DEF Tick, vars, counts
  <2>2. clock < Modulus
    BY <2>1, RtcAssumption DEF RtcTypes
  <2>. QED
    BY <2>1, <2>2 DEF TimesAddUp, totals
<1>3. CASE RtcSinkConsume
  <2>1. /\ sink_item \in Items /\ Worked(sink_item)
    BY <1>3 DEF RtcSinkConsume, SinkConsume, P!ControlInv, P!TypeOK, P!ItemInv, P!HandsFull, Worked
  <2>. DEFINE t == created_at[sink_item]
              u == stage_time[sink_item]
              v == finished_at[sink_item]
  <2>2. t \in Nat /\ u \in Nat /\ v \in Nat /\ clock \in Nat
    BY <2>1 DEF RtcTypes
  <2>3. t <= u /\ u + Duration <= v /\ v <= clock /\ clock < Modulus
    <3>1. clock' = clock
      BY <1>3 DEF RtcSinkConsume
    <3>. QED
      BY <2>1, <3>1 DEF StampsInOrder
  <2>4. /\ total_latency' = total_latency + Elapsed(t, clock)
        /\ total_wait_time' = total_wait_time + Elapsed(t, u)
        /\ total_sink_time' = total_sink_time + Elapsed(v, clock)
        /\ total_processing_time' = total_processing_time + Elapsed(u, v)
        /\ processed' = processed + 1
    BY <1>3 DEF RtcSinkConsume, SinkConsume
  <2>. HIDE DEF t, u, v
  <2>5. Duration \in Nat /\ Unit \in Nat \ {0} /\ Modulus \in Nat
    BY RtcAssumption
  <2>6. /\ Elapsed(t, clock) = (clock - t) \div Unit
        /\ Elapsed(t, u) = (u - t) \div Unit
        /\ Elapsed(v, clock) = (clock - v) \div Unit
        /\ Elapsed(u, v) = (v - u) \div Unit
    BY <2>2, <2>3, <2>5, ElapsedIs
  <2>. DEFINE a == (u - t) \div Unit
              b == (v - u) \div Unit
              c == (clock - v) \div Unit
              d == (clock - t) \div Unit
  <2>7. u - t \in Nat /\ v - u \in Nat /\ clock - v \in Nat /\ clock - t \in Nat
        /\ (u - t) + (v - u) + (clock - v) = clock - t
    BY <2>2, <2>3, <2>5
  <2>8. a \in Nat /\ b \in Nat /\ c \in Nat /\ d \in Nat
    BY <2>7, Quotient
  <2>9. d - (a + b + c) \in 0 .. 2
    BY <2>7, PartsOfWhole
  <2>10. Duration \div Unit \in Nat /\ Duration \div Unit <= b
    BY <2>2, <2>3, <2>5, <2>7, Quotient, QuotientGrows
  <2>11. /\ total_latency' = total_latency + d
         /\ total_wait_time' = total_wait_time + a
         /\ total_sink_time' = total_sink_time + c
         /\ total_processing_time' = total_processing_time + b
    BY <2>4, <2>6
  <2>. HIDE DEF a, b, c, d
  <2>12. /\ total_latency \in Nat /\ total_wait_time \in Nat
         /\ total_sink_time \in Nat /\ total_processing_time \in Nat /\ processed \in Nat
    BY DEF RtcTypes, P!ControlInv, P!TypeOK
  <2>. DEFINE e == Duration \div Unit
  <2>13. /\ total_latency - (total_wait_time + total_processing_time + total_sink_time)
              \in 0 .. 2 * processed
         /\ total_processing_time >= processed * e
    BY <2>3 DEF TimesAddUp
  <2>14. e \in Nat /\ e <= b
    BY <2>10
  <2>. HIDE DEF e
  <2>15. (processed + 1) * e = processed * e + e /\ processed * e \in Nat
    BY <2>12, <2>14
  <2>16. total_processing_time' >= processed' * e
    BY <2>4, <2>8, <2>11, <2>12, <2>13, <2>14, <2>15
  <2>17. total_latency' - (total_wait_time' + total_processing_time' + total_sink_time')
           \in 0 .. 2 * processed'
    BY <2>4, <2>8, <2>9, <2>11, <2>12, <2>13
  <2>. QED
    BY <2>16, <2>17 DEF TimesAddUp, e
<1>4. ASSUME ~Tick, ~RtcSinkConsume
      PROVE  UNCHANGED <<totals, processed, clock>>
  <2>1. UNCHANGED <<totals, clock>>
    BY <1>4 DEF RtcNext, rtc_vars, RtcMain, RtcGenerator, RtcGenerateItem, RtcSink, RtcWorker,
                StartWork, FinishWork, RtcExpire
  <2>2. processed' = processed
    <3>1. ASSUME NEW w \in Workers, RtcWorker(w) PROVE processed' = processed
      BY <3>1 DEF RtcWorker, StartWork, FinishWork, WorkerCheck, WorkerPoll, WorkerForward,
                  WorkerDrop, counts
    <3>2. RtcMain \/ CreateFails => processed' = processed
      BY DEF RtcMain, Main, CreateFails, CreateGenerator, CreateSink, StartStage,
             StageStarted, CreateWorker, JoinGenerator, JoinSink, StopStage, JoinStage,
             DestroyQueue, LeavesData
    <3>3. RtcGenerator => processed' = processed
      BY DEF RtcGenerator, RtcGenerateItem, GenerateItem, GeneratorBatch, GeneratorBatchEnd,
             GeneratorExit, counts
    <3>4. RtcSink => processed' = processed
      BY <1>4 DEF RtcSink, SinkCheck, SinkPoll, counts
    <3>. QED
      BY <1>4, <3>1, <3>2, <3>3, <3>4
         DEF RtcNext, rtc_vars, vars, RtcExpire, Expire, Terminated, counts
  <2>. QED
    BY <2>1, <2>2
<1>. QED
  BY <1>1, <1>2, <1>3, <1>4

\* Until the clock of nanoseconds wraps around, after 584 years, the times
\* the sink adds up are consistent, for any number of threads and items and
\* any unit: no difference wraps below zero, the parts add up to the latency
\* up to the rounding of the divisions, and no item was worked on for less
\* than it should be (rtc-app.c:60-62, 113, 157-162).
THEOREM RtcTimesAddUp == RtcSpec => [](clock < Modulus => TimesAddUp)
<1>1. RtcInit => StampsInOrder /\ TimesAddUp
  <2>1. ASSUME RtcInit
        PROVE  TimesAddUp
    <3>1. Duration \div Unit \in Nat
      BY RtcAssumption
    <3>. QED
      BY <2>1, <3>1 DEF RtcInit, Init, TimesAddUp
  <2>. QED
    BY <2>1, StampsInit
<1>2. RtcSpec => []StampsInOrder
  BY <1>1, StampsStep, RtcInvariance, PTL DEF RtcSpec
<1>3. ASSUME RtcTypes, P!ControlInv, P!ItemInv, StampsInOrder, [RtcNext]_rtc_vars,
             clock < Modulus => TimesAddUp
      PROVE  (clock < Modulus => TimesAddUp)'
  BY <1>3, SumsStep
<1>. QED
  BY <1>1, <1>2, <1>3, RtcInvariance, PTL DEF RtcSpec

=============================================================================

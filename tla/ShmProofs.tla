----------------------------- MODULE ShmProofs -----------------------------
(***************************************************************************)
(* The properties of ShmProps hold in every behaviour of ShmPipeline, for  *)
(* any number of threads and addresses and any queue size and batch.       *)
(***************************************************************************)
EXTENDS ShmProps, FiniteSetTheorems, TLAPS

\* The threads as Pipeline has them: one that waits for a mark has an item to
\* process, and the generator that publishes one is within its batch.
workerBar == [w \in Workers |-> IF worker[w] = "wait" THEN "process" ELSE worker[w]]
generatorBar == IF generator = "publish" THEN "batch" ELSE generator

P == INSTANCE PipelineProofs WITH worker <- workerBar, generator <- generatorBar

LEMMA SameSets ==
  P!Stages = Stages /\ P!Queues = Queues /\ P!Workers = Workers /\ P!Items = Items
BY DEF P!Stages, P!Queues, P!Workers, P!Items, Stages, Queues, Workers, Items

\* What the lemmas about Pipeline assume.
LEMMA PipelineAssumed ==
  /\ NStages \in Nat \ {0}
  /\ P!IsFiniteSet(Threads)
  /\ Capacity \in Nat /\ Capacity >= 2
  /\ BatchSize \in Nat \ {0}
  /\ MaxItems \in Nat
  /\ NULL \notin Nat
BY PipelineAssumption DEF P!IsFiniteSet, IsFiniteSet

LEMMA SameCardinality == \A S : P!Cardinality(S) = Cardinality(S)
BY Zenon DEF P!Cardinality, Cardinality

LEMMA Constants ==
  /\ NStages = 3 /\ Stages = 1 .. 3 /\ Queues = 0 .. 3
  /\ stage_queue(NStages) = 2 /\ sink_queue = 3
  /\ \A s \in Stages : stage_queue(s) \in Queues
  /\ \A w \in Workers : w[1] \in Stages
  /\ NULL \notin Items /\ Items \subseteq Nat
BY ShmAssumption, PipelineAssumption
   DEF Stages, Queues, stage_queue, sink_queue, Workers, Items

-----------------------------------------------------------------------------
(* The steps that are those of Pipeline.                                    *)

LEMMA BarGoto ==
  ASSUME ShmTypes, NEW w \in Workers, NEW l \in WorkerLabels, WorkerGoto(w, l)
  PROVE  P!WorkerGoto(w, IF l = "wait" THEN "process" ELSE l)
BY DEF ShmTypes, WorkerGoto, P!WorkerGoto, workerBar

LEMMA BarAt ==
  ASSUME NEW w \in Workers
  PROVE  /\ \A l \in WorkerLabels \ {"process", "wait"} : workerBar[w] = l <=> worker[w] = l
         /\ workerBar[w] = "process" <=> worker[w] \in {"process", "wait"}
BY DEF workerBar, WorkerLabels

LEMMA BarStays ==
  /\ worker' = worker => workerBar' = workerBar
  /\ generator' = generator => generatorBar' = generatorBar
BY DEF workerBar, generatorBar

LEMMA GeneratorMaps ==
  ASSUME GeneratorBatch \/ GeneratorBatchEnd \/ GeneratorExit
  PROVE  P!Generator
BY BarStays
   DEF GeneratorBatch, GeneratorBatchEnd, GeneratorExit, MoreInBatch, Ended, items, counts,
       P!Generator, P!GeneratorBatch, P!GeneratorBatchEnd, P!GeneratorExit, P!MoreInBatch,
       P!Ended, P!items, P!counts, generatorBar

LEMMA SinkMaps == Sink => P!Sink
BY BarStays
   DEF Sink, SinkConsume, SinkCheck, SinkPoll, Front, Dequeue, Ended, items, counts,
       P!Sink, P!SinkConsume, P!SinkCheck, P!SinkPoll, P!Front, P!Dequeue, P!Ended,
       P!items, P!counts

LEMMA MainMaps ==
  ASSUME ShmTypes, Main \/ CreateFails
  PROVE  P!Main \/ P!CreateFails
<1>1. ASSUME NEW w \in Workers, CreateWorker(w)
      PROVE  P!CreateWorker(w)
  <2>1. WorkerGoto(w, "check")
    BY <1>1 DEF CreateWorker
  <2>2. P!WorkerGoto(w, "check")
    BY <2>1, BarGoto DEF WorkerLabels
  <2>3. workerBar[w] = "none"
    BY <1>1, BarAt DEF CreateWorker, WorkerLabels
  <2>. QED
    BY <1>1, <2>2, <2>3, BarStays
       DEF CreateWorker, P!CreateWorker, MainAt, P!MainAt, LeavesData, P!LeavesData, items, P!items
<1>2. ASSUME NEW s \in Stages, StageStarted(s)
      PROVE  P!StageStarted(s)
  <2>1. \A t \in Threads : workerBar[<<s, t>>] # "none"
    BY <1>2, BarAt DEF StageStarted, Workers, WorkerLabels
  <2>. QED
    BY <1>2, <2>1, BarStays
       DEF StageStarted, P!StageStarted, MainAt, P!MainAt, MainGoto, P!MainGoto,
           LeavesData, P!LeavesData, items, P!items, threads, P!threads
<1>3. ASSUME NEW s \in Stages, JoinStage(s)
      PROVE  P!JoinStage(s)
  <2>1. \A t \in Threads : workerBar[<<s, t>>] = "exited"
    BY <1>3, BarAt DEF JoinStage, AllExited, Workers, WorkerLabels
  <2>. QED
    BY <1>3, <2>1, BarStays
       DEF JoinStage, P!JoinStage, P!AllExited, MainAt, P!MainAt, MainGoto, P!MainGoto,
           LeavesData, P!LeavesData, items, P!items, threads, P!threads
<1>4. ASSUME CreateFails
      PROVE  P!CreateFails
  <2>1. \A w \in Workers : workerBar[w] = "none" <=> worker[w] = "none"
    BY BarAt DEF WorkerLabels
  <2>. QED
    BY <1>4, <2>1, SameSets, BarStays
       DEF CreateFails, P!CreateFails, MainAt, P!MainAt, MainGoto, P!MainGoto,
           LeavesData, P!LeavesData, items, P!items, threads, P!threads
<1>5. /\ CreateGenerator => P!CreateGenerator
      /\ CreateSink => P!CreateSink
      /\ JoinGenerator => P!JoinGenerator
      /\ JoinSink => P!JoinSink
  BY BarStays
     DEF CreateGenerator, CreateSink, JoinGenerator, JoinSink, MainAt, MainGoto, LeavesData,
         items, threads, P!CreateGenerator, P!CreateSink, P!JoinGenerator, P!JoinSink,
         P!MainAt, P!MainGoto, P!LeavesData, P!items, P!threads, generatorBar
<1>6. ASSUME NEW s \in Stages
      PROVE  /\ StartStage(s) => P!StartStage(s)
             /\ StopStage(s) => P!StopStage(s)
  BY BarStays
     DEF StartStage, StopStage, SetRunning, MainAt, MainGoto, LeavesData, items, threads,
         P!StartStage, P!StopStage, P!SetRunning, P!MainAt, P!MainGoto, P!LeavesData,
         P!items, P!threads
<1>7. ASSUME NEW q \in Queues, DestroyQueue(q)
      PROVE  P!DestroyQueue(q)
  BY <1>7, BarStays, SameCardinality
     DEF DestroyQueue, MainAt, MainGoto, LeavesData, items, threads, P!DestroyQueue,
         P!MainAt, P!MainGoto, P!LeavesData, P!items, P!threads
<1>. QED
  BY <1>1, <1>2, <1>3, <1>4, <1>5, <1>6, <1>7, SameSets DEF Main, P!Main

LEMMA CheckMaps ==
  ASSUME ShmTypes, NEW w \in Workers, WorkerCheck(w)
  PROVE  P!WorkerCheck(w)
<1>1. PICK l \in {"poll", "exited"} : l = IF is_running[w[1]] THEN "poll" ELSE "exited"
  OBVIOUS
<1>2. P!WorkerGoto(w, l)
  BY <1>1, BarGoto DEF WorkerCheck, WorkerLabels
<1>3. P!WorkerAt(w, "check")
  BY BarAt DEF WorkerCheck, WorkerAt, P!WorkerAt, WorkerLabels, Ended, P!Ended
<1>. QED
  BY <1>1, <1>2, <1>3, BarStays
     DEF WorkerCheck, P!WorkerCheck, items, P!items, counts, P!counts

LEMMA PollMaps ==
  ASSUME ShmTypes, NEW w \in Workers, ShmPoll(w)
  PROVE  P!WorkerPoll(w)
<1>1. PICK l \in {"check", "process", "wait"} :
        l = IF item'[w] = NULL THEN "check" ELSE IF w[1] = 1 THEN "process" ELSE "wait"
  OBVIOUS
<1>2. P!WorkerGoto(w, P!AfterPoll(item'[w]))
  BY <1>1, BarGoto DEF ShmPoll, WorkerLabels, P!AfterPoll
<1>3. P!WorkerAt(w, "poll")
  BY BarAt DEF ShmPoll, WorkerAt, P!WorkerAt, WorkerLabels, Ended, P!Ended
<1>. QED
  BY <1>2, <1>3, BarStays
     DEF ShmPoll, P!WorkerPoll, items, P!items, counts, P!counts,
         Front, P!Front, Dequeue, P!Dequeue, stage_queue, P!input_queue

\* All other steps of ShmPipeline.
Special ==
  \/ NewItem \/ PublishItem
  \/ \E w \in Workers : MarkItem(w) \/ SendToSink(w) \/ LoseItem(w) \/ Crash(w)

LEMMA StepMaps ==
  ASSUME ShmTypes, [ShmNext]_shm_vars
  PROVE  [P!Next]_P!vars \/ Special
<1>. USE SameSets
<1>1. CASE UNCHANGED vars
  BY <1>1, BarStays
     DEF vars, items, counts, control, threads, P!vars, P!items, P!counts, P!control, P!threads
<1>2. ASSUME NEW thread \in {"generator", "sink"}, ShmExpire(thread)
      PROVE  P!Expire(thread)
  BY <1>2, BarStays
     DEF ShmExpire, Expire, P!Expire, Ended, P!Ended, items, counts, control, threads,
         P!items, P!counts, P!control, P!threads, generatorBar
<1>3. ASSUME NEW w \in Workers, WaitOver(w)
      PROVE  UNCHANGED P!vars
  <2>1. workerBar' = workerBar
    BY <1>3 DEF WaitOver, WorkerAt, WorkerGoto, ShmTypes, workerBar
  <2>. QED
    BY <1>3, <2>1, BarStays
       DEF WaitOver, P!vars, items, counts, P!items, P!counts, P!control, P!threads
<1>4. ASSUME NEW w \in Workers, ShmWorker(w)
      PROVE  [P!Next]_P!vars \/ Special
  <2>1. CASE WaitOn(w)
    BY <1>1, <2>1 DEF WaitOn, shm_vars
  <2>. QED
    BY <1>3, <1>4, <2>1, CheckMaps, PollMaps DEF ShmWorker, P!Worker, P!Next, Special
<1>. QED
  BY <1>1, <1>2, <1>4, GeneratorMaps, SinkMaps, MainMaps
     DEF ShmNext, ShmMain, ShmGenerator, ShmSink, Terminated, shm_vars, P!Next, Special

-----------------------------------------------------------------------------
(* Control.                                                                 *)

Crashed == main = <<"return", 1>>

\* What each step may assume unless main has returned before its time.
Ready == ShmTypes /\ P!ControlInv /\ ThreadsNotBefore /\ HandsFull

LEMMA NothingAfterCrash ==
  ASSUME Crashed, [ShmNext]_shm_vars
  PROVE  UNCHANGED shm_vars
<1>1. Ended
  BY DEF Crashed, Ended
<1>2. ~Main /\ ~CreateFails
  <2>1. \A p, n : main = <<p, n>> => p = "return"
    BY DEF Crashed
  <2>. QED
    BY <2>1
       DEF Main, CreateFails, CreateGenerator, CreateSink, StartStage, StageStarted,
           CreateWorker, JoinGenerator, JoinSink, StopStage, JoinStage, DestroyQueue, MainAt
<1>3. ~ShmGenerator /\ ~ShmSink
  BY <1>1 DEF ShmGenerator, NewItem, PublishItem, GeneratorBatch, GeneratorBatchEnd,
              GeneratorExit, ShmSink, Sink, SinkCheck, SinkPoll, SinkConsume
<1>4. \A w \in Workers : ~ShmWorker(w) /\ ~Crash(w)
  BY <1>1 DEF ShmWorker, WorkerCheck, ShmPoll, WaitOn, WaitOver, MarkItem, SendToSink, LoseItem,
              WorkerAt, Crash
<1>5. \A thread \in {"generator", "sink"} : ~ShmExpire(thread)
  BY <1>1 DEF ShmExpire, Expire
<1>. QED
  BY <1>2, <1>3, <1>4, <1>5 DEF ShmNext, ShmMain, Terminated, shm_vars

\* A step of the generator, within its batch, moves no thread on that
\* Pipeline knows of.
LEMMA ControlGenerates ==
  ASSUME Ready, NewItem \/ PublishItem
  PROVE  P!ControlInv'
<1>. USE SameSets
<1>0. P!TypeOK /\ generatorBar = "batch"
  BY DEF Ready, P!ControlInv, NewItem, PublishItem, generatorBar
<1>1. /\ generatorBar' = generatorBar
      /\ UNCHANGED <<destroyed, forwarded, dropped, processed, drained, is_running, main, sinker,
                     worker, item, sink_item, expired>>
  BY DEF NewItem, PublishItem, generatorBar
<1>2. workerBar' = workerBar
  BY <1>1, BarStays
<1>3. queue' \in [Queues -> Seq(P!Entry)]
  <2>1. CASE queue' = queue
    BY <1>0, <2>1 DEF P!TypeOK, P!Entry
  <2>2. CASE gen_item # NULL /\ Enqueue(stage_queue(j), gen_item)
    <3>1. P!Enqueue(stage_queue(j), gen_item)
      BY <2>2 DEF Enqueue, P!Enqueue
    <3>2. stage_queue(j) \in Queues /\ gen_item \in P!Entry
      BY Constants DEF Ready, ShmTypes, P!Entry
    <3>. QED
      BY <1>0, <3>1, <3>2, P!EnqueueEntries, PipelineAssumed
  <2>. QED
    BY <2>1, <2>2 DEF NewItem, PublishItem
<1>4. /\ heap' \in SUBSET Items
      /\ stamps' \in [Items -> SUBSET Stages]
      /\ tx' \in Nat /\ drops' \in Nat /\ i' \in 0 .. BatchSize
  <2>1. CASE NewItem
    BY <1>0, <2>1, PipelineAssumption DEF NewItem, MoreInBatch, P!TypeOK
  <2>2. CASE PublishItem
    <3>1. heap' \in SUBSET Items /\ tx' = tx /\ i' = i /\ drops' \in Nat
      BY <1>0, <2>2 DEF PublishItem, P!TypeOK
    <3>2. stamps' \in [Items -> SUBSET Stages]
      BY <1>0, <2>2 DEF PublishItem, P!TypeOK
    <3>. QED
      BY <1>0, <3>1, <3>2 DEF P!TypeOK
  <2>. QED
    BY <2>1, <2>2
<1>5. P!TypeOK'
  BY <1>0, <1>1, <1>2, <1>3, <1>4 DEF P!TypeOK, P!Entry
<1>6. P!BatchFits'
  BY <1>0, <1>1, PipelineAssumption
     DEF NewItem, PublishItem, MoreInBatch, Ready, P!ControlInv, P!BatchFits, P!TypeOK
<1>7. P!JoinedThreadsEnded' /\ P!StartedStagesRun'
  BY <1>1, <1>2
     DEF Ready, P!ControlInv, P!JoinedThreadsEnded, P!StartedStagesRun, P!Stopping, P!TearingDown
<1>. QED
  BY <1>5, <1>6, <1>7 DEF P!ControlInv

LEMMA ControlWorks ==
  ASSUME Ready, NEW w \in Workers, MarkItem(w) \/ SendToSink(w) \/ LoseItem(w)
  PROVE  P!ControlInv'
<1>. USE SameSets
<1>0. P!TypeOK /\ w[1] \in Stages
  BY Constants DEF Ready, P!ControlInv
<1>1. /\ UNCHANGED <<destroyed, heap, tx, drops, processed, drained, is_running, main, generator,
                     sinker, i, sink_item, expired>>
      /\ worker[w] \in {"process", "forward"}
      /\ WorkerGoto(w, "check") \/ WorkerGoto(w, "forward")
      /\ item' \in [Workers -> Items \cup {NULL}]
  BY <1>0 DEF MarkItem, SendToSink, LoseItem, WorkerAt, items, counts, P!TypeOK
<1>2. PICK l \in {"check", "forward"} : workerBar' = [workerBar EXCEPT ![w] = l]
  BY <1>1, BarGoto DEF Ready, WorkerLabels, P!WorkerGoto
<1>3. workerBar[w] \in {"process", "forward"} /\ generatorBar' = generatorBar
  BY <1>1, BarStays DEF workerBar
<1>4. queue' \in [Queues -> Seq(P!Entry)]
  <2>1. CASE queue' = queue
    BY <1>0, <2>1 DEF P!TypeOK, P!Entry
  <2>2. CASE Enqueue(sink_queue, item[w])
    <3>1. P!Enqueue(3, item[w])
      BY <2>2, Constants DEF Enqueue, P!Enqueue
    <3>2. 3 \in Queues /\ item[w] \in P!Entry
      BY <1>0, Constants DEF P!TypeOK, P!Entry
    <3>. QED
      BY <1>0, <3>1, <3>2, P!EnqueueEntries, PipelineAssumed
  <2>. QED
    BY <2>1, <2>2 DEF MarkItem, SendToSink, LoseItem
<1>5. /\ stamps' \in [Items -> SUBSET Stages]
      /\ forwarded' \in [Stages -> Nat] /\ dropped' \in [Stages -> Nat]
  <2>1. stamps' \in {stamps, [stamps EXCEPT ![item[w]] = @ \cup {w[1]}]}
    BY DEF MarkItem, SendToSink, LoseItem, items
  <2>2. /\ forwarded' \in {forwarded, [forwarded EXCEPT ![w[1]] = @ + 1]}
        /\ dropped' \in {dropped, [dropped EXCEPT ![w[1]] = @ + 1]}
    BY DEF MarkItem, SendToSink, LoseItem, counts
  <2>3. /\ stamps \in [Items -> SUBSET Stages]
        /\ forwarded \in [Stages -> Nat] /\ dropped \in [Stages -> Nat]
    BY <1>0 DEF P!TypeOK
  <2>4. stamps' \in [Items -> SUBSET Stages]
    BY <1>0, <2>1, <2>3
  <2>5. forwarded' \in [Stages -> Nat]
    BY <1>0, <2>2, <2>3
  <2>6. dropped' \in [Stages -> Nat]
    BY <1>0, <2>2, <2>3
  <2>. QED
    BY <2>4, <2>5, <2>6
<1>6. P!TypeOK' /\ P!BatchFits'
  <2>1. workerBar' \in [Workers -> {"none", "check", "poll", "process", "forward", "exited"}]
    BY <1>0, <1>2 DEF P!TypeOK
  <2>2. P!TypeOK'
    BY <1>0, <1>1, <1>3, <1>4, <1>5, <2>1 DEF P!TypeOK, P!Entry
  <2>3. P!BatchFits'
    BY <1>1, <1>3 DEF P!BatchFits, Ready, P!ControlInv
  <2>. QED
    BY <2>2, <2>3
<1>7. ~P!TearingDown
  BY <1>3 DEF Ready, P!ControlInv, P!JoinedThreadsEnded
<1>8. P!JoinedThreadsEnded' /\ P!StartedStagesRun'
  BY <1>0, <1>1, <1>2, <1>3, <1>7
     DEF Ready, P!ControlInv, P!TypeOK, P!JoinedThreadsEnded, P!StartedStagesRun, P!Stopping,
         P!TearingDown
<1>. QED
  BY <1>6, <1>8 DEF P!ControlInv

\* What holds also of a process that has crashed.
LEMMA CrashTypes ==
  ASSUME Ready, NEW w \in Workers, Crash(w)
  PROVE  Crashed' /\ P!TypeOK' /\ UNCHANGED <<destroyed, threads>>
<1>. USE SameSets
<1>1. Crashed'
  BY DEF Crash, MainGoto, Crashed
<1>2. P!TypeOK
  BY DEF Ready, P!ControlInv
<1>3. main' \in P!MainPoints
  BY <1>1, P!MainPointsAre, PipelineAssumed DEF Crashed
<1>4. workerBar' = workerBar /\ generatorBar' = generatorBar
  BY BarStays DEF Crash, threads
<1>5. P!TypeOK'
  BY <1>2, <1>3, <1>4 DEF Crash, LeavesData, items, threads, P!TypeOK
<1>. QED
  BY <1>1, <1>5 DEF Crash

LEMMA ControlSteps ==
  ASSUME Ready, [ShmNext]_shm_vars
  PROVE  P!ControlInv' \/ (Crashed' /\ P!TypeOK' /\ UNCHANGED <<destroyed, threads>>)
BY StepMaps, P!ControlStep, PipelineAssumed, ControlGenerates, ControlWorks, CrashTypes
   DEF Ready, Special

LEMMA MainMoves ==
  ASSUME Main \/ CreateFails
  PROVE  /\ CreateGenerator \/ generator' = generator
         /\ CreateSink \/ sinker' = sinker
         /\ main' = main \/ CreateGenerator \/ main'[1] \notin {"generator", "sink"}
         /\ worker' = worker \/ \E w \in Workers : worker[w] = "none" /\ WorkerGoto(w, "check")
<1>0. \A p, n : main' = <<p, n>> => main'[1] = p
  OBVIOUS
<1>1. CASE CreateGenerator \/ CreateSink \/ JoinGenerator \/ JoinSink
  <2>1. CreateGenerator \/ main' \in {<<"start", 1>>, <<"join sink", 0>>, <<"stop", 1>>}
    BY <1>1 DEF CreateSink, JoinGenerator, JoinSink, MainGoto
  <2>2. CreateGenerator \/ main'[1] \notin {"generator", "sink"}
    BY <1>0, <2>1
  <2>. QED
    BY <1>1, <2>2 DEF CreateGenerator, CreateSink, JoinGenerator, JoinSink, threads
<1>2. ASSUME NEW s \in Stages, StartStage(s) \/ StageStarted(s) \/ StopStage(s) \/ JoinStage(s)
      PROVE  /\ generator' = generator /\ sinker' = sinker /\ worker' = worker
             /\ main'[1] \notin {"generator", "sink"}
  <2>1. generator' = generator /\ sinker' = sinker /\ worker' = worker
    BY <1>2 DEF StartStage, StageStarted, StopStage, JoinStage, threads
  <2>2. \/ main' = <<"threads", s>> \/ main' = <<"start", s + 1>> \/ main' = <<"join generator", 0>>
        \/ main' = <<"stop", s + 1>> \/ main' = <<"join", 1>> \/ main' = <<"join", s + 1>>
        \/ main' = <<"destroy", 0>>
    BY <1>2 DEF StartStage, StageStarted, StopStage, JoinStage, MainGoto
  <2>. QED
    BY <1>0, <2>1, <2>2
<1>3. ASSUME NEW w \in Workers, CreateWorker(w)
      PROVE  /\ generator' = generator /\ sinker' = sinker /\ main' = main
             /\ worker[w] = "none" /\ WorkerGoto(w, "check")
  BY <1>3 DEF CreateWorker
<1>4. ASSUME NEW q \in Queues, DestroyQueue(q)
      PROVE  /\ generator' = generator /\ sinker' = sinker /\ worker' = worker
             /\ main'[1] \notin {"generator", "sink"}
  <2>1. main' = <<"destroy", q + 1>> \/ main' = <<"return", 0>>
    BY <1>4 DEF DestroyQueue, MainGoto
  <2>. QED
    BY <1>0, <1>4, <2>1 DEF DestroyQueue, threads
<1>5. CASE CreateFails
  BY <1>0, <1>5 DEF CreateFails, MainGoto, threads
<1>. QED
  BY <1>1, <1>2, <1>3, <1>4, <1>5 DEF Main

LEMMA OrderOfThreads ==
  ASSUME Ready, [ShmNext]_shm_vars
  PROVE  ThreadsNotBefore'
<1>1. CASE Main \/ CreateFails
  <2>1. CASE CreateGenerator
    <3>1. main' = <<"sink", 0>> /\ main = <<"generator", 0>> /\ sinker' = sinker
      BY <2>1 DEF CreateGenerator, MainGoto, MainAt
    <3>. QED
      BY <3>1 DEF Ready, ThreadsNotBefore
  <2>2. CASE CreateSink
    <3>1. main' = <<"start", 1>>
      BY <2>2 DEF CreateSink, MainGoto
    <3>. QED
      BY <3>1 DEF ThreadsNotBefore
  <2>3. CASE ~CreateGenerator /\ ~CreateSink
    BY <1>1, <2>3, MainMoves DEF Ready, ThreadsNotBefore
  <2>. QED
    BY <2>1, <2>2, <2>3
<1>2. CASE ShmGenerator
  <2>1. generator # "none" /\ UNCHANGED <<main, sinker>>
    BY <1>2 DEF ShmGenerator, NewItem, PublishItem, GeneratorBatch, GeneratorBatchEnd, GeneratorExit
  <2>. QED
    BY <2>1 DEF Ready, ThreadsNotBefore
<1>3. CASE ShmSink
  <2>1. sinker # "none" /\ UNCHANGED <<main, generator>>
    BY <1>3 DEF ShmSink, Sink, SinkCheck, SinkPoll, SinkConsume
  <2>. QED
    BY <2>1 DEF Ready, ThreadsNotBefore
<1>4. ASSUME NEW w \in Workers, ShmWorker(w)
      PROVE  UNCHANGED <<main, generator, sinker>>
  BY <1>4 DEF ShmWorker, WorkerCheck, ShmPoll, WaitOn, WaitOver, MarkItem, SendToSink, LoseItem,
              shm_vars, vars, control, threads
<1>5. ASSUME NEW w \in Workers, Crash(w)
      PROVE  ThreadsNotBefore'
  <2>1. main' = <<"return", 1>>
    BY <1>5 DEF Crash, MainGoto
  <2>. QED
    BY <2>1 DEF ThreadsNotBefore
<1>6. CASE UNCHANGED <<main, generator, sinker>>
  BY <1>6 DEF Ready, ThreadsNotBefore
<1>. QED
  BY <1>1, <1>2, <1>3, <1>4, <1>5, <1>6
     DEF ShmNext, ShmMain, ShmExpire, Expire, Terminated, shm_vars, vars, control, threads

-----------------------------------------------------------------------------
(* The steps by what they do to the items.                                  *)

\* No item moves, no mark is set, and no thread passes from one item to
\* another.
Quiet ==
  /\ UNCHANGED <<queue, destroyed, heap, stamps, tx, drops, forwarded, dropped, processed, item,
                 sink_item, j, gen_item>>
  /\ \A w \in Workers :
       /\ worker'[w] = "forward" <=> worker[w] = "forward"
       /\ worker'[w] = "process" =>
            \/ worker[w] = "process"
            \/ worker[w] = "wait" /\ TRUE \in StepsOk(item[w], PreviousStage(w))

WorkerStep(w) == ShmPoll(w) \/ MarkItem(w) \/ SendToSink(w) \/ LoseItem(w)
SinkStep == (SinkPoll \/ SinkConsume) /\ UNCHANGED gen_vars
DestroyStep(q) == DestroyQueue(q) /\ UNCHANGED gen_vars

LEMMA QuietMain ==
  ASSUME Ready, Main \/ CreateFails, UNCHANGED gen_vars, \A q \in Queues : ~DestroyQueue(q)
  PROVE  Quiet
<1>1. UNCHANGED <<queue, destroyed, heap, stamps, tx, drops, forwarded, dropped, processed, item,
                  sink_item, j, gen_item>>
  BY DEF Main, CreateFails, CreateGenerator, CreateSink, StartStage, StageStarted,
         CreateWorker, JoinGenerator, JoinSink, StopStage, JoinStage, LeavesData, items, gen_vars
<1>2. worker' = worker \/ \E w \in Workers : worker[w] = "none" /\ WorkerGoto(w, "check")
  BY MainMoves
<1>3. \A w \in Workers :
        /\ worker'[w] = "forward" <=> worker[w] = "forward"
        /\ worker'[w] = "process" => worker[w] = "process"
  BY <1>2 DEF WorkerGoto, Ready, ShmTypes
<1>. QED
  BY <1>1, <1>3 DEF Quiet

LEMMA StepKinds ==
  ASSUME Ready, [ShmNext]_shm_vars
  PROVE  \/ Quiet \/ NewItem \/ PublishItem \/ SinkStep
         \/ \E w \in Workers : WorkerStep(w)
         \/ \E q \in Queues : DestroyStep(q)
<1>1. ASSUME UNCHANGED <<queue, destroyed, items, counts, worker, item, sink_item, gen_vars>>
      PROVE  Quiet
  BY <1>1 DEF Quiet, items, counts, gen_vars
<1>2. ASSUME NEW w \in Workers, ShmWorker(w) \/ Crash(w), ~WorkerStep(w)
      PROVE  Quiet
  <2>1. CASE WorkerCheck(w) /\ UNCHANGED gen_vars
    <3>1. PICK l \in {"poll", "exited"} : WorkerGoto(w, l)
      BY <2>1 DEF WorkerCheck
    <3>2. \A v \in Workers :
            /\ worker'[v] = "forward" <=> worker[v] = "forward"
            /\ worker'[v] = "process" => worker[v] = "process"
      BY <2>1, <3>1 DEF WorkerCheck, WorkerAt, WorkerGoto, Ready, ShmTypes
    <3>. QED
      BY <2>1, <3>2 DEF WorkerCheck, Quiet, items, counts, gen_vars
  <2>2. CASE WaitOn(w)
    BY <1>1, <2>2 DEF WaitOn, shm_vars, vars, control, threads
  <2>3. CASE WaitOver(w)
    <3>1. \A v \in Workers :
            /\ worker'[v] = "forward" <=> worker[v] = "forward"
            /\ worker'[v] = "process" => worker[v] = "process" \/ v = w
      BY <2>3 DEF WaitOver, WorkerAt, WorkerGoto, Ready, ShmTypes
    <3>. QED
      BY <2>3, <3>1 DEF WaitOver, WorkerAt, Quiet, items, counts, gen_vars
  <2>4. CASE Crash(w)
    BY <2>4 DEF Crash, LeavesData, Quiet, threads, items, gen_vars
  <2>. QED
    BY <1>2, <2>1, <2>2, <2>3, <2>4 DEF ShmWorker, WorkerStep
<1>3. ASSUME ShmGenerator, ~NewItem, ~PublishItem
      PROVE  Quiet
  BY <1>1, <1>3 DEF ShmGenerator, GeneratorBatch, GeneratorBatchEnd, GeneratorExit
<1>4. ASSUME ShmSink, ~SinkStep
      PROVE  Quiet
  BY <1>1, <1>4 DEF ShmSink, Sink, SinkStep, SinkCheck
<1>5. ASSUME ShmMain \/ (CreateFails /\ UNCHANGED gen_vars), \A q \in Queues : ~DestroyStep(q)
      PROVE  Quiet
  BY <1>5, QuietMain DEF ShmMain, DestroyStep
<1>6. ASSUME NEW thread \in {"generator", "sink"}, ShmExpire(thread)
      PROVE  Quiet
  BY <1>1, <1>6 DEF ShmExpire, Expire, control, threads
<1>7. CASE UNCHANGED shm_vars \/ (Terminated /\ UNCHANGED gen_vars)
  BY <1>1, <1>7 DEF shm_vars, Terminated, vars, control, threads
<1>. QED
  BY <1>2, <1>3, <1>4, <1>5, <1>6, <1>7 DEF ShmNext

-----------------------------------------------------------------------------
(* Types, and which threads hold an item.                                   *)

LEMMA FrontIs ==
  ASSUME P!TypeOK, NEW q \in Queues
  PROVE  Front(q) \in Items \cup {NULL}
<1>. USE SameSets
<1>1. CASE queue[q] = <<>>
  BY <1>1 DEF Front
<1>2. CASE queue[q] # <<>>
  <2>1. Len(queue[q]) \in Nat /\ Len(queue[q]) > 0
        /\ \A k \in 1 .. Len(queue[q]) : queue[q][k] \in P!Entry
    BY <1>2, P!QueueIsSeq, PipelineAssumed DEF P!TypeOK
  <2>2. queue[q][1] \in P!Entry
    BY <2>1
  <2>. QED
    BY <1>2, <2>2 DEF Front, P!Entry
<1>. QED
  BY <1>1, <1>2

LEMMA WorkerMoves ==
  ASSUME Ready, NEW w \in Workers, ShmWorker(w)
  PROVE  ShmTypes' /\ HandsFull'
<1>. USE SameSets DEF WorkerGoto, WorkerAt
<1>0. /\ worker \in [Workers -> WorkerLabels]
      /\ item \in [Workers -> Items \cup {NULL}]
      /\ NULL \notin Items /\ w[1] \in 1 .. 3 /\ NStages = 3 /\ P!TypeOK
  BY Constants DEF Ready, ShmTypes, P!ControlInv, P!TypeOK
<1>1. UNCHANGED <<generator, sinker, sink_item, j, gen_item>>
  BY DEF ShmWorker, WorkerCheck, ShmPoll, WaitOn, WaitOver, MarkItem, SendToSink, LoseItem,
         shm_vars, vars, control, threads, gen_vars
\* The step in terms of the two variables that it may change.
<1>2. ASSUME NEW l \in WorkerLabels, NEW x \in Items \cup {NULL},
             worker' = [worker EXCEPT ![w] = l], item' = [item EXCEPT ![w] = x],
             x # NULL <=> l \in {"wait", "process", "forward"},
             l = "wait" => w[1] > 1, l = "forward" => w[1] = NStages
      PROVE  ShmTypes' /\ HandsFull'
  <2>1. ShmTypes'
    BY <1>0, <1>1, <1>2 DEF Ready, ShmTypes
  <2>2. ASSUME NEW v \in Workers
        PROVE  /\ item'[v] # NULL <=> worker'[v] \in {"wait", "process", "forward"}
               /\ worker'[v] = "wait" => v[1] > 1
               /\ worker'[v] = "forward" => v[1] = NStages
    <3>1. CASE v = w
      BY <1>0, <1>2, <3>1
    <3>2. CASE v # w
      BY <1>0, <1>2, <3>2 DEF Ready, HandsFull
    <3>. QED
      BY <3>1, <3>2
  <2>3. HandsFull'
    BY <1>1, <2>2 DEF Ready, HandsFull
  <2>. QED
    BY <2>1, <2>3
<1>3. /\ item[w] # NULL <=> worker[w] \in {"wait", "process", "forward"}
      /\ worker[w] = "forward" => w[1] = NStages
      /\ worker[w] = "wait" => w[1] > 1
      /\ worker' = worker => worker' = [worker EXCEPT ![w] = worker[w]]
      /\ item' = item => item' = [item EXCEPT ![w] = item[w]]
  BY <1>0 DEF Ready, HandsFull
<1>4. CASE WorkerCheck(w)
  <2>1. PICK l \in {"poll", "exited"} : worker' = [worker EXCEPT ![w] = l]
    BY <1>4 DEF WorkerCheck
  <2>2. item' = [item EXCEPT ![w] = item[w]] /\ item[w] = NULL
    BY <1>3, <1>4 DEF WorkerCheck
  <2>. QED
    BY <1>0, <1>2, <2>1, <2>2 DEF WorkerLabels
<1>5. CASE ShmPoll(w)
  <2>1. PICK x : x = Front(stage_queue(w[1]))
    OBVIOUS
  <2>2. x \in Items \cup {NULL}
    BY <1>0, <2>1, FrontIs, Constants
  <2>3. item' = [item EXCEPT ![w] = x] /\ item'[w] = x
    BY <1>0, <1>5, <2>1 DEF ShmPoll
  <2>4. PICK l \in {"check", "process", "wait"} :
          l = IF x = NULL THEN "check" ELSE IF w[1] = 1 THEN "process" ELSE "wait"
    OBVIOUS
  <2>5. worker' = [worker EXCEPT ![w] = l]
    BY <1>5, <2>3, <2>4 DEF ShmPoll
  <2>6. /\ l \in WorkerLabels /\ l # "forward"
        /\ x # NULL <=> l \in {"wait", "process", "forward"}
    BY <2>4 DEF WorkerLabels
  <2>7. l = "wait" => w[1] > 1
    BY <1>0, <2>4
  <2>. QED
    BY <1>2, <2>2, <2>3, <2>5, <2>6, <2>7
<1>6. CASE WaitOn(w)
  BY <1>6 DEF WaitOn, shm_vars, vars, control, threads, gen_vars, Ready, ShmTypes, HandsFull
<1>7. CASE WaitOver(w)
  <2>1. worker' = [worker EXCEPT ![w] = "process"] /\ item' = item /\ worker[w] = "wait"
    BY <1>7 DEF WaitOver
  <2>. QED
    BY <1>0, <1>2, <1>3, <2>1 DEF WorkerLabels
<1>8. CASE MarkItem(w)
  <2>1. worker[w] = "process"
    BY <1>8 DEF MarkItem
  <2>2. CASE w[1] = NStages
    <3>1. worker' = [worker EXCEPT ![w] = "forward"] /\ item' = item
      BY <1>8, <2>2 DEF MarkItem
    <3>. QED
      BY <1>0, <1>2, <1>3, <2>1, <2>2, <3>1 DEF WorkerLabels
  <2>3. CASE w[1] # NStages
    <3>1. worker' = [worker EXCEPT ![w] = "check"] /\ item' = [item EXCEPT ![w] = NULL]
      BY <1>8, <2>3 DEF MarkItem
    <3>. QED
      BY <1>0, <1>2, <3>1 DEF WorkerLabels
  <2>. QED
    BY <2>2, <2>3
<1>9. CASE SendToSink(w) \/ LoseItem(w)
  <2>1. worker' = [worker EXCEPT ![w] = "check"] /\ item' = [item EXCEPT ![w] = NULL]
    BY <1>9 DEF SendToSink, LoseItem
  <2>. QED
    BY <1>0, <1>2, <2>1 DEF WorkerLabels
<1>. QED
  BY <1>4, <1>5, <1>6, <1>7, <1>8, <1>9 DEF ShmWorker

LEMMA OtherMoves ==
  ASSUME Ready, [ShmNext]_shm_vars, \A w \in Workers : ~ShmWorker(w)
  PROVE  ShmTypes' /\ HandsFull'
<1>. USE SameSets
<1>0. /\ worker \in [Workers -> WorkerLabels]
      /\ NULL \notin Items /\ NStages = 3 /\ Stages = 1 .. 3 /\ P!TypeOK
  BY Constants DEF Ready, ShmTypes, P!ControlInv
<1>1. CASE UNCHANGED <<generator, sinker, worker, item, sink_item, j, gen_item>>
  BY <1>1 DEF Ready, ShmTypes, HandsFull
<1>2. CASE (Main \/ CreateFails) /\ UNCHANGED gen_vars
  <2>1. UNCHANGED <<item, sink_item, j, gen_item>>
    BY <1>2 DEF Main, CreateFails, CreateGenerator, CreateSink, StartStage, StageStarted,
                CreateWorker, JoinGenerator, JoinSink, StopStage, JoinStage, DestroyQueue,
                LeavesData, gen_vars
  <2>2. worker' = worker \/ \E w \in Workers : worker[w] = "none" /\ WorkerGoto(w, "check")
    BY <1>2, MainMoves
  <2>3. /\ generator' = generator \/ (generator = "none" /\ generator' = "check")
        /\ sinker' = sinker \/ (sinker = "none" /\ sinker' = "check")
    <3>1. CreateGenerator => generator = "none" /\ generator' = "check"
      BY DEF CreateGenerator, MainAt, Ready, ThreadsNotBefore
    <3>2. CreateSink => sinker = "none" /\ sinker' = "check"
      BY DEF CreateSink, MainAt, Ready, ThreadsNotBefore
    <3>. QED
      BY <1>2, <3>1, <3>2, MainMoves
  <2>4. worker' \in [Workers -> WorkerLabels]
    BY <1>0, <2>2 DEF WorkerGoto, WorkerLabels
  <2>5. \A v \in Workers : worker'[v] = worker[v] \/ (worker[v] = "none" /\ worker'[v] = "check")
    BY <1>0, <2>2 DEF WorkerGoto
  <2>6. ShmTypes'
    BY <2>1, <2>3, <2>4 DEF Ready, ShmTypes
  <2>7. \A v \in Workers :
          /\ item'[v] # NULL <=> worker'[v] \in {"wait", "process", "forward"}
          /\ worker'[v] = "wait" => v[1] > 1
          /\ worker'[v] = "forward" => v[1] = NStages
    BY <2>1, <2>5 DEF Ready, HandsFull
  <2>8. HandsFull'
    BY <2>1, <2>3, <2>7 DEF Ready, HandsFull
  <2>. QED
    BY <2>6, <2>8
<1>3. CASE ShmGenerator
  <2>1. UNCHANGED <<sinker, worker, item, sink_item>>
    BY <1>3 DEF ShmGenerator, NewItem, PublishItem, GeneratorBatch, GeneratorBatchEnd, GeneratorExit
  <2>2. /\ generator' \in {"check", "batch", "publish", "exited"}
        /\ j' \in Stages /\ gen_item' \in Items \cup {NULL}
        /\ generator' # "publish" => j' = 1 /\ gen_item' = NULL
    <3>1. CASE NewItem
      BY <1>0, <3>1 DEF NewItem
    <3>2. CASE PublishItem /\ j < NStages
      BY <1>0, <3>2 DEF PublishItem, AfterFree, Ready, ShmTypes
    <3>3. CASE PublishItem /\ ~(j < NStages)
      BY <1>0, <3>3 DEF PublishItem
    <3>4. CASE (GeneratorBatch \/ GeneratorBatchEnd \/ GeneratorExit) /\ UNCHANGED gen_vars
      BY <1>0, <3>4
         DEF GeneratorBatch, GeneratorBatchEnd, GeneratorExit, gen_vars, Ready, HandsFull, ShmTypes
    <3>. QED
      BY <1>3, <3>1, <3>2, <3>3, <3>4 DEF ShmGenerator
  <2>3. ShmTypes'
    BY <2>1, <2>2 DEF Ready, ShmTypes
  <2>4. HandsFull'
    BY <2>1, <2>2 DEF Ready, HandsFull
  <2>. QED
    BY <2>3, <2>4
<1>4. CASE ShmSink
  <2>1. UNCHANGED <<generator, worker, item, j, gen_item>>
    BY <1>4 DEF ShmSink, Sink, SinkCheck, SinkPoll, SinkConsume, gen_vars
  <2>2. sink_item' # NULL <=> sinker' = "consume"
    BY <1>4 DEF ShmSink, Sink, SinkCheck, SinkPoll, SinkConsume, Ready, HandsFull
  <2>. QED
    BY <2>1, <2>2 DEF Ready, ShmTypes, HandsFull
<1>5. ASSUME NEW w \in Workers, Crash(w)
      PROVE  ShmTypes' /\ HandsFull'
  BY <1>1, <1>5 DEF Crash, LeavesData, threads, gen_vars
<1>. QED
  BY <1>1, <1>2, <1>3, <1>4, <1>5
     DEF ShmNext, ShmMain, ShmExpire, Expire, Terminated, shm_vars, vars, control, threads, gen_vars

\* The queues are destroyed only after all threads have ended.
UsersGone ==
  destroyed # {} =>
    /\ generator = "exited" /\ sinker = "exited"
    /\ \A w \in Workers : worker[w] = "exited"

\* What holds in every state, also after a crash.
ShmInv ==
  /\ ShmTypes /\ ThreadsNotBefore /\ HandsFull /\ UsersGone /\ P!TypeOK
  /\ Crashed \/ P!ControlInv

LEMMA ControlGone == P!ControlInv => UsersGone
<1>. SUFFICES ASSUME P!ControlInv, destroyed # {}
              PROVE  /\ generator = "exited" /\ sinker = "exited"
                     /\ \A w \in Workers : worker[w] = "exited"
  BY DEF UsersGone
<1>1. P!TearingDown /\ P!Stopping
  BY DEF P!ControlInv, P!JoinedThreadsEnded, P!TearingDown, P!Stopping
<1>2. /\ generatorBar = "exited" /\ sinker = "exited"
      /\ \A w \in Workers : workerBar[w] = "exited"
  BY <1>1, SameSets DEF P!ControlInv, P!JoinedThreadsEnded
<1>. QED
  BY <1>2, BarAt DEF generatorBar, WorkerLabels

LEMMA ControlGoneNext == P!ControlInv' => UsersGone'
BY ControlGone, PTL

LEMMA ReadyIsInv == Ready => ShmInv
BY ControlGone DEF Ready, ShmInv, P!ControlInv

LEMMA ShmStep == ShmInv /\ [ShmNext]_shm_vars => ShmInv'
<1>. SUFFICES ASSUME ShmInv, [ShmNext]_shm_vars
              PROVE  ShmInv'
  OBVIOUS
<1>1. CASE Crashed
  <2>1. UNCHANGED shm_vars
    BY <1>1, NothingAfterCrash
  <2>2. UNCHANGED <<workerBar, generatorBar>>
    BY <2>1, BarStays DEF shm_vars, vars, control, threads
  <2>3. P!TypeOK'
    BY <2>1, <2>2 DEF ShmInv, shm_vars, vars, items, counts, control, threads, P!TypeOK
  <2>. QED
    BY <1>1, <2>1, <2>3
       DEF ShmInv, Crashed, ShmTypes, ThreadsNotBefore, HandsFull, UsersGone, shm_vars, vars,
           control, threads, gen_vars
<1>2. CASE Ready
  <2>1. ShmTypes' /\ HandsFull'
    BY <1>2, WorkerMoves, OtherMoves
  <2>2. P!ControlInv' => P!TypeOK' /\ UsersGone'
    BY ControlGoneNext DEF P!ControlInv
  <2>3. UNCHANGED <<destroyed, threads>> => UsersGone'
    BY DEF ShmInv, UsersGone, threads
  <2>. QED
    BY <1>2, <2>1, <2>2, <2>3, OrderOfThreads, ControlSteps DEF ShmInv
<1>. QED
  BY <1>1, <1>2 DEF ShmInv, Ready

LEMMA ShmStart == ShmInit => P!Init /\ ShmInv
<1>. SUFFICES ASSUME ShmInit PROVE P!Init /\ ShmInv
  OBVIOUS
<1>1. workerBar = [w \in Workers |-> "none"] /\ generatorBar = "none"
  BY DEF ShmInit, Init, workerBar, generatorBar
<1>2. P!Init
  BY <1>1, SameSets DEF ShmInit, Init, P!Init
<1>3. P!ControlInv /\ P!TypeOK /\ UsersGone
  BY <1>2, P!ControlInit, PipelineAssumed, ControlGone DEF P!ControlInv
<1>4. ShmTypes /\ ThreadsNotBefore /\ HandsFull
  BY Constants DEF ShmInit, Init, ShmTypes, ThreadsNotBefore, HandsFull, WorkerLabels
<1>. QED
  BY <1>2, <1>3, <1>4 DEF ShmInv

LEMMA ShmInvariance == ShmSpec => []ShmInv
BY ShmStart, ShmStep, PTL DEF ShmSpec

\* main destroys the first queue when every thread has ended; nor does an
\* access to a freed item that ends the process leave it otherwise
\* (mt-pipeline-shm.c:373-401).
THEOREM ShmQueuesOutliveUsers == ShmSpec => []UsersGone
BY ShmInvariance, PTL DEF ShmInv

\* Every variable of ShmPipeline keeps its type, for any number of threads
\* and addresses (mt-pipeline-shm.c).
THEOREM ShmTypesHold == ShmSpec => []TypeOK
<1>1. ShmInv => TypeOK
  <2>. SUFFICES ASSUME ShmInv PROVE TypeOK
    OBVIOUS
  <2>1. main \in P!MainPoints
    BY DEF ShmInv, P!TypeOK
  <2>2. /\ main[1] \in {"generator", "sink", "start", "threads", "join generator", "join sink",
                        "stop", "join", "destroy", "return"}
        /\ main[2] \in Queues
    <3>. DEFINE A == {<<p, 0>> : p \in {"generator", "sink", "join generator", "join sink"}}
                B == {<<p, s>> : p \in {"start", "threads", "stop", "join"}, s \in P!Stages}
                C == {<<"destroy", q>> : q \in P!Queues}
                D == {<<"return", r>> : r \in {0, 1}}
    <3>1. P!MainPoints = A \cup B \cup C \cup D
      BY DEF P!MainPoints
    <3>2. \A s \in Stages : s \in Queues
      BY Constants
    <3>3. 0 \in Queues /\ 1 \in Queues
      BY Constants
    <3>4. CASE main \in A
      <4>1. PICK p \in {"generator", "sink", "join generator", "join sink"} : main = <<p, 0>>
        BY <3>4
      <4>. QED
        BY <3>3, <4>1
    <3>5. CASE main \in B
      <4>1. PICK p \in {"start", "threads", "stop", "join"}, s \in P!Stages : main = <<p, s>>
        BY <3>5
      <4>. QED
        BY <3>2, <4>1, SameSets
    <3>6. CASE main \in C
      <4>1. PICK q \in P!Queues : main = <<"destroy", q>>
        BY <3>6
      <4>. QED
        BY <4>1, SameSets
    <3>7. CASE main \in D
      <4>1. PICK r \in {0, 1} : main = <<"return", r>>
        BY <3>7
      <4>. QED
        BY <3>3, <4>1
    <3>. HIDE DEF A, B, C, D
    <3>. QED
      BY <2>1, <3>1, <3>4, <3>5, <3>6, <3>7
  <2>. QED
    BY <2>2, SameSets DEF ShmInv, P!TypeOK, ShmTypes, WorkerLabels, TypeOK
<1>. QED
  BY <1>1, ShmInvariance, PTL

-----------------------------------------------------------------------------
(* What enqueue, dequeue and destroy_queue do to the items in the queues.   *)

LEMMA Enqueued ==
  ASSUME P!TypeOK, NEW q \in Queues, NEW x \in Items, Enqueue(q, x)
  PROVE  /\ \A r \in Queues, y \in Items : IsIn(y, r)' <=> IsIn(y, r) \/ (r = q /\ y = x)
         /\ \A r \in Queues : Distinct(r) /\ ~(r = q /\ IsIn(x, r)) => Distinct(r)'
<1>. DEFINE n == Len(queue[q])
<1>. USE SameSets
<1>0. P!Enqueue(q, x) /\ x \in P!Entry
  BY DEF Enqueue, P!Enqueue, P!Entry
<1>1. n \in Nat /\ DOMAIN queue[q] = 1 .. n
  BY P!QueueIsSeq, PipelineAssumed
<1>2. /\ DOMAIN queue'[q] = 1 .. n + 1
      /\ \A k \in 1 .. n : queue'[q][k] = queue[q][k]
      /\ queue'[q][n + 1] = x
      /\ \A r \in Queues : r # q => queue'[r] = queue[r]
  BY <1>0, P!EnqueueEntries, PipelineAssumed
<1>3. 1 .. n + 1 = (1 .. n) \cup {n + 1}
  BY <1>1
<1>4. ASSUME NEW r \in Queues, NEW y \in Items
      PROVE  IsIn(y, r)' <=> IsIn(y, r) \/ (r = q /\ y = x)
  <2>1. CASE r = q
    BY <1>1, <1>2, <1>3, <2>1 DEF IsIn
  <2>2. CASE r # q
    BY <1>2, <2>2 DEF IsIn
  <2>. QED
    BY <2>1, <2>2
<1>5. ASSUME NEW r \in Queues, Distinct(r), ~(r = q /\ IsIn(x, r))
      PROVE  Distinct(r)'
  <2>1. CASE r = q
    <3>. SUFFICES ASSUME NEW k \in DOMAIN queue'[q], NEW l \in DOMAIN queue'[q],
                         queue'[q][k] # NULL, queue'[q][k] = queue'[q][l]
                  PROVE  k = l
      BY <2>1 DEF Distinct
    <3>1. \/ k = n + 1 /\ queue'[q][k] = x
          \/ k \in DOMAIN queue[q] /\ queue'[q][k] = queue[q][k] /\ queue[q][k] # x
      BY <1>1, <1>2, <1>3, <1>5, <2>1 DEF IsIn
    <3>2. \/ l = n + 1 /\ queue'[q][l] = x
          \/ l \in DOMAIN queue[q] /\ queue'[q][l] = queue[q][l] /\ queue[q][l] # x
      BY <1>1, <1>2, <1>3, <1>5, <2>1 DEF IsIn
    <3>. QED
      BY <1>5, <2>1, <3>1, <3>2 DEF Distinct
  <2>2. CASE r # q
    BY <1>2, <1>5, <2>2 DEF Distinct
  <2>. QED
    BY <2>1, <2>2
<1>. QED
  BY <1>4, <1>5

LEMMA Dequeued ==
  ASSUME P!TypeOK, NEW q \in Queues, Dequeue(q)
  PROVE  /\ Front(q) # NULL => Front(q) \in Items /\ IsIn(Front(q), q)
         /\ \A r \in Queues, y \in Items : IsIn(y, r)' => IsIn(y, r)
         /\ \A r \in Queues, y \in Items : IsIn(y, r) /\ ~(r = q /\ y = Front(q)) => IsIn(y, r)'
         /\ Distinct(q) => \A y \in Items : y = Front(q) => ~IsIn(y, q)'
         /\ \A r \in Queues : Distinct(r) => Distinct(r)'
<1>. DEFINE n == Len(queue[q])
<1>. USE SameSets
<1>0. P!Dequeue(q) /\ P!Front(q) = Front(q)
  BY DEF Dequeue, P!Dequeue, Front, P!Front
<1>1. CASE queue[q] = <<>>
  <2>1. queue' = queue /\ Front(q) = NULL
    BY <1>0, <1>1, P!DequeueEntries, PipelineAssumed
  <2>. QED
    BY <2>1, Constants DEF IsIn, Distinct
<1>2. CASE queue[q] # <<>>
  <2>0. n \in Nat /\ DOMAIN queue[q] = 1 .. n
    BY P!QueueIsSeq, PipelineAssumed
  <2>1. /\ 1 \in DOMAIN queue[q] /\ Front(q) = queue[q][1] /\ Front(q) \in P!Entry
        /\ DOMAIN queue'[q] = 1 .. n - 1
        /\ \A k \in 1 .. n - 1 : queue'[q][k] = queue[q][k + 1]
        /\ \A r \in Queues : r # q => queue'[r] = queue[r]
    BY <1>0, <1>2, P!DequeueEntries, PipelineAssumed
  <2>2. /\ \A k \in 1 .. n - 1 : k + 1 \in 1 .. n /\ k + 1 # 1
        /\ \A k \in 1 .. n : k = 1 \/ (k - 1 \in 1 .. n - 1 /\ (k - 1) + 1 = k)
    BY <2>0
  <2>3. Front(q) # NULL => Front(q) \in Items /\ IsIn(Front(q), q)
    BY <2>1 DEF IsIn, P!Entry
  <2>4. ASSUME NEW r \in Queues, r # q
        PROVE  queue'[r] = queue[r]
    BY <2>1, <2>4
  <2>5. ASSUME NEW y \in Items, IsIn(y, q)'
        PROVE  \E k \in 2 .. n : queue[q][k] = y
    <3>1. PICK k \in 1 .. n - 1 : queue'[q][k] = y
      BY <2>1, <2>5 DEF IsIn
    <3>2. k + 1 \in 2 .. n /\ queue[q][k + 1] = y
      BY <2>0, <2>1, <3>1
    <3>. QED
      BY <3>2
  <2>6. ASSUME NEW y \in Items, IsIn(y, q)'
        PROVE  IsIn(y, q)
    <3>1. \A k \in 2 .. n : k \in DOMAIN queue[q]
      BY <2>0
    <3>. QED
      BY <2>5, <2>6, <3>1 DEF IsIn
  <2>7. ASSUME NEW y \in Items, IsIn(y, q), y # Front(q)
        PROVE  IsIn(y, q)'
    <3>1. PICK k \in 1 .. n : queue[q][k] = y
      BY <2>0, <2>7 DEF IsIn
    <3>2. k - 1 \in 1 .. n - 1 /\ (k - 1) + 1 = k
      BY <2>1, <2>2, <2>7, <3>1
    <3>3. queue'[q][k - 1] = y
      BY <2>1, <3>1, <3>2
    <3>. QED
      BY <2>1, <3>2, <3>3 DEF IsIn
  <2>8. ASSUME Distinct(q), NEW y \in Items, y = Front(q)
        PROVE  ~IsIn(y, q)'
    <3>1. \A k \in 2 .. n : k \in DOMAIN queue[q] /\ k # 1
      BY <2>0
    <3>2. \A k \in 2 .. n : queue[q][k] # y
      BY <2>1, <2>8, <3>1, Constants DEF Distinct
    <3>. QED
      BY <2>5, <2>8, <3>2
  <2>9. ASSUME NEW r \in Queues, Distinct(r)
        PROVE  Distinct(r)'
    <3>1. CASE r = q
      <4>. SUFFICES ASSUME NEW k \in DOMAIN queue'[q], NEW l \in DOMAIN queue'[q],
                           queue'[q][k] # NULL, queue'[q][k] = queue'[q][l]
                    PROVE  k = l
        BY <3>1 DEF Distinct
      <4>1. /\ k \in 1 .. n - 1 /\ l \in 1 .. n - 1
            /\ queue'[q][k] = queue[q][k + 1] /\ queue'[q][l] = queue[q][l + 1]
            /\ k + 1 \in DOMAIN queue[q] /\ l + 1 \in DOMAIN queue[q]
        BY <2>0, <2>1, <2>2
      <4>2. k + 1 = l + 1
        BY <2>9, <3>1, <4>1 DEF Distinct
      <4>. QED
        BY <4>1, <4>2
    <3>2. CASE r # q
      BY <2>1, <2>9, <3>2 DEF Distinct
    <3>. QED
      BY <3>1, <3>2
  <2>10. ASSUME NEW r \in Queues, NEW y \in Items, r # q
         PROVE  IsIn(y, r)' <=> IsIn(y, r)
    BY <2>4, <2>10 DEF IsIn
  <2>. QED
    BY <2>3, <2>6, <2>7, <2>8, <2>9, <2>10
<1>. QED
  BY <1>1, <1>2

LEMMA Emptied ==
  ASSUME P!TypeOK, NEW q \in Queues, queue' = [queue EXCEPT ![q] = <<>>]
  PROVE  /\ \A r \in Queues, y \in Items : IsIn(y, r)' <=> IsIn(y, r) /\ r # q
         /\ \A r \in Queues : Distinct(r) => Distinct(r)'
<1>1. queue \in [Queues -> Seq(Items \cup {NULL})]
  BY SameSets DEF P!TypeOK
<1>2. /\ DOMAIN queue'[q] = {}
      /\ \A r \in Queues : r # q => queue'[r] = queue[r]
  BY <1>1
<1>. QED
  BY <1>2 DEF IsIn, Distinct

-----------------------------------------------------------------------------
(* LastApart: from the queue of the last stage on.                          *)

\* A step that brings no item to a new place, and frees none that is held.
LEMMA LastShrinks ==
  ASSUME LastApart,
         Distinct(2) => Distinct(2)', Distinct(3) => Distinct(3)',
         \A y \in Items : (IsIn(y, 2)' => IsIn(y, 2)) /\ (IsIn(y, 3)' => IsIn(y, 3)),
         \A v \in Workers : v[1] = 3 => item'[v] \in {item[v], NULL},
         sink_item' \in {sink_item, NULL}, gen_item' \in {gen_item, NULL},
         \A y \in heap : y \in heap' \/ (~LastHolds(y)' /\ gen_item' # y)
  PROVE  LastApart'
<1>. USE Constants
<1>1. \A y \in Items :
        /\ InLastHands(y)' => InLastHands(y)
        /\ sink_item' = y => sink_item = y
        /\ gen_item' = y => gen_item = y
  BY DEF InLastHands
<1>2. \A y \in Items : LastHolds(y)' => LastHolds(y)
  BY <1>1 DEF LastHolds
<1>3. Distinct(2)' /\ Distinct(3)'
  BY DEF LastApart
<1>4. ASSUME NEW y \in Items
      PROVE  /\ LastHolds(y)' => y \in heap' /\ gen_item' # y
             /\ gen_item' = y => y \in heap'
  BY <1>1, <1>2 DEF LastApart
<1>5. ASSUME NEW y \in Items
      PROVE  /\ ~(IsIn(y, 2)' /\ IsIn(y, 3)')
             /\ InLastHands(y)' => ~IsIn(y, 2)' /\ ~IsIn(y, 3)' /\ sink_item' # y
             /\ sink_item' = y => ~IsIn(y, 2)' /\ ~IsIn(y, 3)'
  BY <1>1 DEF LastApart
<1>6. ASSUME NEW v \in Workers, NEW w \in Workers, v[1] = 3, w[1] = 3, item'[v] # NULL,
             item'[v] = item'[w]
      PROVE  v = w
  BY <1>6 DEF LastApart
<1>. QED
  BY <1>3, <1>4, <1>5, <1>6 DEF LastApart

LEMMA LastGenerates ==
  ASSUME Ready, LastApart, NewItem \/ PublishItem
  PROVE  LastApart'
<1>. USE Constants, SameSets
<1>0. P!TypeOK /\ UNCHANGED <<item, sink_item>> /\ j \in 1 .. 3 /\ gen_item \in Items \cup {NULL}
  BY DEF Ready, P!ControlInv, NewItem, PublishItem, ShmTypes
<1>1. CASE NewItem
  <2>1. PICK a \in Items \ heap : gen_item' = a /\ heap' = heap \cup {a}
    BY <1>1 DEF NewItem
  <2>2. queue' = queue
    BY <1>1 DEF NewItem
  <2>3. \A y \in Items : (InLastHands(y)' <=> InLastHands(y)) /\ (LastHolds(y)' <=> LastHolds(y))
    BY <1>0, <2>2 DEF InLastHands, LastHolds, IsIn
  <2>4. \A q \in Queues : (Distinct(q)' <=> Distinct(q)) /\ \A y : IsIn(y, q)' <=> IsIn(y, q)
    BY <2>2 DEF Distinct, IsIn
  <2>. QED
    BY <1>0, <2>1, <2>3, <2>4 DEF LastApart
<1>2. CASE PublishItem /\ HasRoom(stage_queue(j)) /\ gen_item # NULL /\ j = 3
  <2>1. Enqueue(2, gen_item) /\ gen_item' = NULL /\ heap' = heap /\ gen_item \in Items
    BY <1>0, <1>2 DEF PublishItem
  <2>2. /\ \A q \in Queues, y \in Items : IsIn(y, q)' <=> IsIn(y, q) \/ (q = 2 /\ y = gen_item)
        /\ \A q \in Queues : Distinct(q) /\ ~(q = 2 /\ IsIn(gen_item, q)) => Distinct(q)'
    BY <1>0, <2>1, Enqueued
  <2>3. ~LastHolds(gen_item) /\ gen_item \in heap
    BY <2>1 DEF LastApart
  <2>4. \A y \in Items : InLastHands(y)' <=> InLastHands(y)
    BY <1>0 DEF InLastHands
  <2>5. Distinct(2)' /\ Distinct(3)'
    BY <2>2, <2>3 DEF LastApart, LastHolds
  <2>6. ASSUME NEW y \in Items
        PROVE  /\ LastHolds(y)' => y \in heap' /\ gen_item' # y
               /\ gen_item' = y => y \in heap'
               /\ ~(IsIn(y, 2)' /\ IsIn(y, 3)')
               /\ InLastHands(y)' => ~IsIn(y, 2)' /\ ~IsIn(y, 3)' /\ sink_item' # y
               /\ sink_item' = y => ~IsIn(y, 2)' /\ ~IsIn(y, 3)'
    <3>1. LastHolds(y)' <=> LastHolds(y) \/ y = gen_item
      BY <1>0, <2>2, <2>4 DEF LastHolds
    <3>2. CASE y = gen_item
      BY <1>0, <2>1, <2>2, <2>3, <2>4, <3>2 DEF LastHolds
    <3>3. CASE y # gen_item
      BY <1>0, <2>1, <2>2, <2>4, <3>1, <3>3 DEF LastApart
    <3>. QED
      BY <3>2, <3>3
  <2>. QED
    BY <1>0, <2>5, <2>6 DEF LastApart
<1>3. CASE PublishItem /\ HasRoom(stage_queue(j)) /\ ~(gen_item # NULL /\ j = 3)
  <2>1. heap' = heap /\ gen_item' \in {gen_item, NULL}
    BY <1>3 DEF PublishItem
  <2>2. /\ \A y \in Items : (IsIn(y, 2)' => IsIn(y, 2)) /\ (IsIn(y, 3)' => IsIn(y, 3))
        /\ Distinct(2) => Distinct(2)'
        /\ Distinct(3) => Distinct(3)'
    <3>1. CASE queue' = queue
      BY <3>1 DEF IsIn, Distinct
    <3>2. CASE gen_item \in Items /\ Enqueue(stage_queue(j), gen_item) /\ j < 3
      <4>1. stage_queue(j) \in Queues /\ stage_queue(j) # 2 /\ stage_queue(j) # 3
        BY <1>0, <3>2 DEF stage_queue
      <4>. QED
        BY <1>0, <3>2, <4>1, Enqueued
    <3>. QED
      BY <1>0, <1>3, <3>1, <3>2 DEF PublishItem
  <2>. QED
    BY <1>0, <2>1, <2>2, LastShrinks
<1>4. CASE PublishItem /\ ~HasRoom(stage_queue(j))
  <2>1. queue' = queue /\ heap' = heap \ {gen_item} /\ gen_item' = NULL
    BY <1>0, <1>4 DEF PublishItem, AfterFree
  <2>2. /\ \A y \in Items : (IsIn(y, 2)' => IsIn(y, 2)) /\ (IsIn(y, 3)' => IsIn(y, 3))
        /\ Distinct(2) => Distinct(2)'
        /\ Distinct(3) => Distinct(3)'
    BY <2>1 DEF IsIn, Distinct
  <2>3. \A y \in Items : LastHolds(y)' <=> LastHolds(y)
    BY <1>0, <2>1 DEF LastHolds, InLastHands, IsIn
  <2>4. heap \subseteq Items
    BY <1>0 DEF P!TypeOK
  <2>5. \A y \in heap : y \in heap' \/ (~LastHolds(y)' /\ gen_item' # y)
    BY <2>1, <2>3, <2>4 DEF LastApart
  <2>. QED
    BY <1>0, <2>1, <2>2, <2>5, LastShrinks
<1>. QED
  BY <1>1, <1>2, <1>3, <1>4

LEMMA LastPolls ==
  ASSUME Ready, LastApart, NEW w \in Workers, ShmPoll(w)
  PROVE  LastApart'
<1>. USE Constants, SameSets
<1>. DEFINE q == stage_queue(w[1])
<1>0. /\ P!TypeOK /\ UNCHANGED <<heap, sink_item, gen_item>>
      /\ q \in Queues /\ Dequeue(q) /\ item \in [Workers -> Items \cup {NULL}]
  BY DEF Ready, P!ControlInv, P!TypeOK, ShmPoll, items, gen_vars
<1>1. PICK x : x = Front(q)
  OBVIOUS
<1>2. item' = [item EXCEPT ![w] = x]
  BY <1>1 DEF ShmPoll
<1>3. item[w] = NULL
  BY DEF Ready, HandsFull, ShmPoll, WorkerAt
<1>4. /\ x # NULL => x \in Items /\ IsIn(x, q)
      /\ \A r \in Queues, y \in Items : IsIn(y, r)' => IsIn(y, r)
      /\ Distinct(q) => \A y \in Items : y = x => ~IsIn(y, q)'
      /\ \A r \in Queues : Distinct(r) => Distinct(r)'
  BY <1>0, <1>1, Dequeued
<1>5. CASE w[1] # 3 \/ x = NULL
  <2>1. \A v \in Workers : v[1] = 3 => item'[v] \in {item[v], NULL}
    BY <1>0, <1>2, <1>5
  <2>. QED
    BY <1>0, <1>4, <2>1, LastShrinks
<1>6. CASE w[1] = 3 /\ x # NULL
  <2>1. q = 2
    BY <1>6 DEF stage_queue
  <2>2. x \in Items /\ IsIn(x, 2) /\ ~IsIn(x, 2)'
    BY <1>4, <1>6, <2>1 DEF LastApart
  <2>3. /\ x \in heap /\ gen_item # x /\ ~IsIn(x, 3) /\ ~InLastHands(x) /\ sink_item # x
    BY <2>2 DEF LastApart, LastHolds
  <2>4. \A y \in Items : InLastHands(y)' <=> InLastHands(y) \/ y = x
    BY <1>0, <1>2, <1>3, <1>6 DEF InLastHands
  <2>5. Distinct(2)' /\ Distinct(3)'
    BY <1>4 DEF LastApart
  <2>6. ASSUME NEW y \in Items
        PROVE  /\ LastHolds(y)' => y \in heap' /\ gen_item' # y
               /\ gen_item' = y => y \in heap'
               /\ ~(IsIn(y, 2)' /\ IsIn(y, 3)')
               /\ InLastHands(y)' => ~IsIn(y, 2)' /\ ~IsIn(y, 3)' /\ sink_item' # y
               /\ sink_item' = y => ~IsIn(y, 2)' /\ ~IsIn(y, 3)'
    <3>0. (IsIn(y, 2)' => IsIn(y, 2)) /\ (IsIn(y, 3)' => IsIn(y, 3))
      BY <1>4
    <3>1. LastHolds(y)' => LastHolds(y) \/ y = x
      BY <1>0, <2>4, <3>0 DEF LastHolds
    <3>2. CASE y = x
      BY <1>0, <2>2, <2>3, <3>0, <3>2
    <3>3. CASE y # x
      BY <1>0, <2>4, <3>0, <3>1, <3>3 DEF LastApart
    <3>. QED
      BY <3>2, <3>3
  <2>7. ASSUME NEW u \in Workers, NEW v \in Workers, u[1] = 3, v[1] = 3, item'[u] # NULL,
               item'[u] = item'[v]
        PROVE  u = v
    <3>1. \A t \in Workers : t[1] = 3 => item[t] # x
      BY <2>3 DEF InLastHands
    <3>. QED
      BY <1>0, <1>2, <2>7, <3>1 DEF LastApart
  <2>. QED
    BY <2>5, <2>6, <2>7 DEF LastApart
<1>. QED
  BY <1>5, <1>6

LEMMA LastWorks ==
  ASSUME Ready, LastApart, NEW w \in Workers, MarkItem(w) \/ SendToSink(w) \/ LoseItem(w)
  PROVE  LastApart'
<1>. USE Constants, SameSets
<1>0. /\ P!TypeOK /\ UNCHANGED <<heap, sink_item, gen_item>>
      /\ item \in [Workers -> Items \cup {NULL}]
      /\ item' \in {item, [item EXCEPT ![w] = NULL]}
  BY DEF Ready, P!ControlInv, P!TypeOK, MarkItem, SendToSink, LoseItem, items, gen_vars
<1>1. \A v \in Workers : item'[v] \in {item[v], NULL}
  BY <1>0
<1>2. CASE MarkItem(w) \/ LoseItem(w)
  <2>1. queue' = queue
    BY <1>2 DEF MarkItem, LoseItem
  <2>2. /\ \A y \in Items : (IsIn(y, 2)' => IsIn(y, 2)) /\ (IsIn(y, 3)' => IsIn(y, 3))
        /\ Distinct(2) => Distinct(2)'
        /\ Distinct(3) => Distinct(3)'
    BY <2>1 DEF IsIn, Distinct
  <2>. QED
    BY <1>0, <1>1, <2>2, LastShrinks
<1>3. CASE SendToSink(w)
  <2>0. PICK x : x = item[w]
    OBVIOUS
  <2>1. w[1] = 3 /\ x \in Items /\ Enqueue(3, x) /\ item' = [item EXCEPT ![w] = NULL]
    BY <1>0, <1>3, <2>0 DEF SendToSink, WorkerAt, Ready, HandsFull
  <2>2. /\ \A q \in Queues, y \in Items : IsIn(y, q)' <=> IsIn(y, q) \/ (q = 3 /\ y = x)
        /\ \A q \in Queues : Distinct(q) /\ ~(q = 3 /\ IsIn(x, q)) => Distinct(q)'
    BY <1>0, <2>1, Enqueued
  <2>3. InLastHands(x)
    BY <2>0, <2>1 DEF InLastHands
  <2>4. x \in heap /\ gen_item # x /\ ~IsIn(x, 2) /\ ~IsIn(x, 3) /\ sink_item # x
    BY <2>1, <2>3 DEF LastApart, LastHolds
  <2>5. \A y \in Items : InLastHands(y)' => InLastHands(y) /\ y # x
    <3>1. \A v \in Workers : v[1] = 3 /\ item[v] = x => v = w
      BY <2>0, <2>1 DEF LastApart
    <3>. QED
      BY <1>0, <2>1, <3>1 DEF InLastHands
  <2>6. Distinct(2)' /\ Distinct(3)'
    BY <2>2, <2>4 DEF LastApart
  <2>7. ASSUME NEW y \in Items
        PROVE  /\ LastHolds(y)' => y \in heap' /\ gen_item' # y
               /\ gen_item' = y => y \in heap'
               /\ ~(IsIn(y, 2)' /\ IsIn(y, 3)')
               /\ InLastHands(y)' => ~IsIn(y, 2)' /\ ~IsIn(y, 3)' /\ sink_item' # y
               /\ sink_item' = y => ~IsIn(y, 2)' /\ ~IsIn(y, 3)'
    <3>0. (IsIn(y, 2)' <=> IsIn(y, 2)) /\ (IsIn(y, 3)' <=> IsIn(y, 3) \/ y = x)
      BY <2>2
    <3>1. LastHolds(y)' => LastHolds(y)
      BY <1>0, <2>3, <2>5, <3>0 DEF LastHolds
    <3>2. CASE y = x
      BY <1>0, <2>4, <2>5, <3>0, <3>2
    <3>3. CASE y # x
      BY <1>0, <2>5, <3>0, <3>1, <3>3 DEF LastApart
    <3>. QED
      BY <3>2, <3>3
  <2>8. ASSUME NEW u \in Workers, NEW v \in Workers, u[1] = 3, v[1] = 3, item'[u] # NULL,
               item'[u] = item'[v]
        PROVE  u = v
    BY <1>1, <2>8 DEF LastApart
  <2>. QED
    BY <2>6, <2>7, <2>8 DEF LastApart
<1>. QED
  BY <1>2, <1>3

LEMMA LastSinks ==
  ASSUME Ready, LastApart, SinkStep
  PROVE  LastApart'
<1>. USE Constants, SameSets
<1>0. P!TypeOK /\ UNCHANGED <<item, gen_item>> /\ heap \subseteq Items
  BY DEF Ready, P!ControlInv, P!TypeOK, SinkStep, SinkPoll, SinkConsume, gen_vars
<1>1. \A y \in Items : InLastHands(y)' <=> InLastHands(y)
  BY <1>0 DEF InLastHands
<1>2. CASE SinkPoll
  <2>0. heap' = heap /\ Dequeue(3)
    BY <1>2 DEF SinkPoll, items
  <2>1. PICK x : x = Front(3)
    OBVIOUS
  <2>2. sink_item' = x
    BY <1>2, <2>1 DEF SinkPoll
  <2>3. /\ x # NULL => x \in Items /\ IsIn(x, 3)
        /\ \A r \in Queues, y \in Items : IsIn(y, r)' => IsIn(y, r)
        /\ Distinct(3) => \A y \in Items : y = x => ~IsIn(y, 3)'
        /\ \A r \in Queues : Distinct(r) => Distinct(r)'
    BY <1>0, <2>0, <2>1, Dequeued
  <2>4. CASE x = NULL
    BY <1>0, <2>0, <2>2, <2>3, <2>4, LastShrinks
  <2>5. CASE x # NULL
    <3>1. x \in Items /\ IsIn(x, 3) /\ ~IsIn(x, 3)'
      BY <2>3, <2>5 DEF LastApart
    <3>2. x \in heap /\ gen_item # x /\ ~IsIn(x, 2) /\ ~InLastHands(x)
      BY <3>1 DEF LastApart, LastHolds
    <3>3. Distinct(2)' /\ Distinct(3)'
      BY <2>3 DEF LastApart
    <3>4. ASSUME NEW y \in Items
          PROVE  /\ LastHolds(y)' => y \in heap' /\ gen_item' # y
                 /\ gen_item' = y => y \in heap'
                 /\ ~(IsIn(y, 2)' /\ IsIn(y, 3)')
                 /\ InLastHands(y)' => ~IsIn(y, 2)' /\ ~IsIn(y, 3)' /\ sink_item' # y
                 /\ sink_item' = y => ~IsIn(y, 2)' /\ ~IsIn(y, 3)'
      <4>0. (IsIn(y, 2)' => IsIn(y, 2)) /\ (IsIn(y, 3)' => IsIn(y, 3))
        BY <2>3
      <4>1. LastHolds(y)' => LastHolds(y) \/ y = x
        BY <1>1, <2>2, <4>0 DEF LastHolds
      <4>2. CASE y = x
        BY <1>0, <1>1, <2>0, <2>2, <3>1, <3>2, <4>0, <4>2
      <4>3. CASE y # x
        BY <1>0, <1>1, <2>0, <2>2, <4>0, <4>1, <4>3 DEF LastApart
      <4>. QED
        BY <4>2, <4>3
    <3>. QED
      BY <1>0, <3>3, <3>4 DEF LastApart
  <2>. QED
    BY <2>4, <2>5
<1>3. CASE SinkConsume
  <2>1. queue' = queue /\ heap' = heap \ {sink_item} /\ sink_item' = NULL
    BY <1>3 DEF SinkConsume
  <2>2. /\ \A y \in Items : (IsIn(y, 2)' <=> IsIn(y, 2)) /\ (IsIn(y, 3)' <=> IsIn(y, 3))
        /\ Distinct(2) => Distinct(2)'
        /\ Distinct(3) => Distinct(3)'
    BY <2>1 DEF IsIn, Distinct
  <2>3. \A y \in heap : y \in heap' \/ (~LastHolds(y)' /\ gen_item' # y)
    BY <1>0, <1>1, <2>1, <2>2 DEF LastApart, LastHolds
  <2>. QED
    BY <1>0, <2>1, <2>2, <2>3, LastShrinks
<1>. QED
  BY <1>2, <1>3 DEF SinkStep

LEMMA LastStep ==
  ASSUME Ready, LastApart, [ShmNext]_shm_vars
  PROVE  LastApart'
<1>1. CASE Quiet
  BY <1>1 DEF Quiet, LastApart, LastHolds, InLastHands, IsIn, Distinct
<1>2. ASSUME NEW q \in Queues, DestroyStep(q)
      PROVE  LastApart'
  <2>1. /\ P!TypeOK /\ queue' = [queue EXCEPT ![q] = <<>>]
        /\ UNCHANGED <<heap, item, sink_item, gen_item>>
    BY <1>2 DEF Ready, P!ControlInv, DestroyStep, DestroyQueue, LeavesData, items, gen_vars
  <2>2. /\ \A r \in Queues, y \in Items : IsIn(y, r)' <=> IsIn(y, r) /\ r # q
        /\ \A r \in Queues : Distinct(r) => Distinct(r)'
    BY <2>1, Emptied
  <2>. QED
    BY <2>1, <2>2, LastShrinks, Constants
<1>. QED
  BY <1>1, <1>2, StepKinds, LastGenerates, LastPolls, LastWorks, LastSinks DEF WorkerStep

LEMMA LastInvariance == ShmSpec => []LastApart
<1>1. ShmInit => LastApart
  <2>. SUFFICES ASSUME ShmInit PROVE LastApart
    OBVIOUS
  <2>1. /\ \A q \in Queues : DOMAIN queue[q] = {1} /\ queue[q][1] = NULL
        /\ \A w \in Workers : item[w] = NULL
        /\ sink_item = NULL /\ gen_item = NULL
    BY DEF ShmInit, Init
  <2>. QED
    BY <2>1, Constants DEF LastApart, LastHolds, InLastHands, IsIn, Distinct
<1>2. ShmInv /\ LastApart /\ [ShmNext]_shm_vars => LastApart'
  <2>. SUFFICES ASSUME ShmInv, LastApart, [ShmNext]_shm_vars PROVE LastApart'
    OBVIOUS
  <2>1. CASE Crashed
    <3>1. UNCHANGED shm_vars
      BY <2>1, NothingAfterCrash
    <3>. QED
      BY <3>1 DEF LastApart, LastHolds, InLastHands, IsIn, Distinct, shm_vars, vars, items, gen_vars
  <2>2. CASE Ready
    BY <2>2, LastStep
  <2>. QED
    BY <2>1, <2>2 DEF ShmInv, Ready
<1>. QED
  BY <1>1, <1>2, ShmInvariance, PTL DEF ShmSpec

LEMMA LastPlacesAre ==
  ASSUME NEW a \in Items, NEW h
  PROVE  h \in LastPlaces(a) <=>
           \/ \E k \in DOMAIN queue[2] : queue[2][k] = a /\ h = <<2, k>>
           \/ \E w \in Workers : w[1] = 3 /\ item[w] = a /\ h = w
           \/ \E k \in DOMAIN queue[3] : queue[3][k] = a /\ h = <<3, k>>
           \/ sink_item = a /\ h = "sink"
<1>. USE Constants
<1>1. ASSUME NEW q
      PROVE  h \in Entries(q, a) <=> \E k \in DOMAIN queue[q] : queue[q][k] = a /\ h = <<q, k>>
  BY DEF Entries
<1>2. h \in StagePlaces({3}, a) <=> h \in Entries(2, a) \/ h \in {w \in Workers : w[1] \in {3} /\ item[w] = a}
  <2>1. \A s \in {3} : stage_queue(s) = 2
    BY DEF stage_queue
  <2>2. {Entries(stage_queue(s), a) : s \in {3}} = {Entries(2, a)}
    BY <2>1
  <2>3. UNION {Entries(stage_queue(s), a) : s \in {3}} = Entries(2, a)
    BY <2>2
  <2>. QED
    BY <2>3 DEF StagePlaces
<1>3. h \in LastPlaces(a) <=>
        h \in StagePlaces({3}, a) \/ h \in Entries(3, a) \/ (sink_item = a /\ h = "sink")
  BY DEF LastPlaces
<1>4. h \in {w \in Workers : w[1] \in {3} /\ item[w] = a}
        <=> \E w \in Workers : w[1] = 3 /\ item[w] = a /\ h = w
  OBVIOUS
<1>. QED
  BY <1>1, <1>2, <1>3, <1>4

LEMMA LastApartOwns == LastApart => LastStageOwns
<1>. SUFFICES ASSUME LastApart, NEW a \in Items
              PROVE  /\ Cardinality(LastPlaces(a)) <= 1
                     /\ LastPlaces(a) # {} => a \in heap /\ gen_item # a
                     /\ gen_item = a => a \in heap
  BY DEF LastStageOwns
<1>. USE Constants
<1>1. ASSUME NEW g \in LastPlaces(a), NEW h \in LastPlaces(a)
      PROVE  g = h
  <2>1. CASE IsIn(a, 2)
    <3>1. ~InLastHands(a) /\ ~IsIn(a, 3) /\ sink_item # a
      BY <2>1 DEF LastApart
    <3>2. PICK k \in DOMAIN queue[2] : queue[2][k] = a /\ g = <<2, k>>
      BY <3>1, LastPlacesAre DEF InLastHands, IsIn
    <3>3. PICK l \in DOMAIN queue[2] : queue[2][l] = a /\ h = <<2, l>>
      BY <3>1, LastPlacesAre DEF InLastHands, IsIn
    <3>. QED
      BY <3>2, <3>3 DEF LastApart, Distinct
  <2>2. CASE IsIn(a, 3)
    <3>1. ~InLastHands(a) /\ ~IsIn(a, 2) /\ sink_item # a
      BY <2>2 DEF LastApart
    <3>2. PICK k \in DOMAIN queue[3] : queue[3][k] = a /\ g = <<3, k>>
      BY <3>1, LastPlacesAre DEF InLastHands, IsIn
    <3>3. PICK l \in DOMAIN queue[3] : queue[3][l] = a /\ h = <<3, l>>
      BY <3>1, LastPlacesAre DEF InLastHands, IsIn
    <3>. QED
      BY <3>2, <3>3 DEF LastApart, Distinct
  <2>3. CASE InLastHands(a)
    <3>1. ~IsIn(a, 2) /\ ~IsIn(a, 3) /\ sink_item # a
      BY <2>3 DEF LastApart
    <3>2. PICK v \in Workers : v[1] = 3 /\ item[v] = a /\ g = v
      BY <3>1, LastPlacesAre DEF IsIn
    <3>3. PICK w \in Workers : w[1] = 3 /\ item[w] = a /\ h = w
      BY <3>1, LastPlacesAre DEF IsIn
    <3>. QED
      BY <3>2, <3>3 DEF LastApart
  <2>4. CASE ~IsIn(a, 2) /\ ~IsIn(a, 3) /\ ~InLastHands(a)
    BY <2>4, LastPlacesAre DEF IsIn, InLastHands
  <2>. QED
    BY <2>1, <2>2, <2>3, <2>4
<1>2. Cardinality(LastPlaces(a)) <= 1
  BY <1>1, P!AtMostOne, PipelineAssumed, SameCardinality
<1>3. LastPlaces(a) # {} => LastHolds(a)
  BY LastPlacesAre DEF LastHolds, InLastHands, IsIn
<1>. QED
  BY <1>2, <1>3 DEF LastApart

\* What the queue of the last stage has accepted is a live item, on its way to
\* the sink once, and no longer the generator's: the generator's free and the
\* sink's never meet (mt-pipeline-shm.c:107, 153-167, 209).
THEOREM LastStageKeepsItems == ShmSpec => []LastStageOwns
BY LastInvariance, LastApartOwns, PTL

-----------------------------------------------------------------------------
(* MarksInv: the marks of an item, until a queue is found full.             *)

Marks == StagesApart /\ MarkedOnce /\ MarksInOrder

LEMMA StageQueues ==
  /\ \A s \in Stages : stage_queue(s) \in Queues /\ stage_queue(s) # 3
  /\ \A r, s \in Stages : stage_queue(r) = stage_queue(s) => r = s
  /\ 3 \in Queues
BY Constants DEF stage_queue

\* A step that sets no mark, and after which the stages have the items they
\* had before.
LEMMA MarkedStays ==
  ASSUME MarkedOnce, stamps' = stamps, UNCHANGED gen_vars,
         \A s \in Stages, a \in Items : Pending(s, a)' <=> Pending(s, a),
         \A a \in Items : a \in heap' <=> a \in heap /\ ~(a \notin heap' /\ stamps[a] = Stages),
         destroyed' = {} => destroyed = {}
  PROVE  MarkedOnce'
<1>1. ASSUME NEW s \in Stages, NEW a \in Items
      PROVE  ToCome(s, a)' <=> ToCome(s, a)
  BY DEF ToCome, gen_vars
<1>2. ASSUME NEW s \in Stages, NEW a \in Items
      PROVE  /\ Pending(s, a)' => a \in heap' /\ s \notin stamps'[a] /\ ~ToCome(s, a)'
             /\ ToCome(s, a)' => s \notin stamps'[a]
             /\ a \in heap' /\ destroyed' = {} => s \in stamps'[a] \/ Pending(s, a)' \/ ToCome(s, a)'
  BY <1>1 DEF MarkedOnce
<1>. QED
  BY <1>2 DEF MarkedOnce

LEMMA OrderStays ==
  ASSUME MarksInOrder, stamps' = stamps,
         \A w \in Workers : worker'[w] = "process" /\ w[1] > 1 =>
           w[1] - 1 \in stamps[item'[w]] \/ (worker[w] = "process" /\ item'[w] = item[w]),
         \A w \in Workers : worker'[w] = "forward" => worker[w] = "forward" /\ item'[w] = item[w],
         \A a \in Items : IsIn(a, 3)' \/ sink_item' = a =>
           IsIn(a, 3) \/ sink_item = a \/ stamps[a] = Stages
  PROVE  MarksInOrder'
<1>1. \A a \in Items : \A s \in stamps'[a] : s > 1 => s - 1 \in stamps'[a]
  BY DEF MarksInOrder
<1>2. \A w \in Workers : worker'[w] = "process" /\ w[1] > 1 => w[1] - 1 \in stamps'[item'[w]]
  BY DEF MarksInOrder
<1>3. \A w \in Workers : worker'[w] = "forward" => stamps'[item'[w]] = Stages
  BY DEF MarksInOrder
<1>4. \A a \in Items : IsIn(a, 3)' \/ sink_item' = a => stamps'[a] = Stages
  BY Constants DEF MarksInOrder
<1>. QED
  BY <1>1, <1>2, <1>3, <1>4, Constants DEF MarksInOrder

\* Whose hands hold an item, as MarkedOnce needs it.
LEMMA HandsArePending ==
  ASSUME ShmInv, Marks, NEW w \in Workers, worker[w] \in {"wait", "process"}
  PROVE  /\ w[1] \in Stages /\ item[w] \in Items /\ InHands(w[1], item[w]) /\ item[w] \in heap
         /\ w[1] \notin stamps[item[w]] /\ ~IsIn(item[w], stage_queue(w[1]))
<1>1. item \in [Workers -> Items \cup {NULL}]
  BY SameSets DEF ShmInv, P!TypeOK
<1>2. w[1] \in Stages /\ item[w] \in Items
  BY <1>1, Constants DEF ShmInv, HandsFull
<1>3. InHands(w[1], item[w])
  BY <1>2 DEF InHands
<1>. QED
  BY <1>2, <1>3 DEF Marks, StagesApart, MarkedOnce, Pending

LEMMA MarksQuiet ==
  ASSUME Ready, Marks, Quiet
  PROVE  Marks'
<1>. USE Constants
<1>0. UNCHANGED <<queue, destroyed, heap, stamps, item, sink_item, gen_vars>>
  BY DEF Quiet, gen_vars
<1>1. \A q, a : IsIn(a, q)' <=> IsIn(a, q)
  BY <1>0 DEF IsIn
<1>2. \A s \in Stages, a \in Items : InHands(s, a)' <=> InHands(s, a)
  BY <1>0 DEF Quiet, InHands
<1>3. StagesApart'
  BY <1>0, <1>1, <1>2 DEF Marks, StagesApart, Distinct
<1>4. \A s \in Stages, a \in Items : Pending(s, a)' <=> Pending(s, a)
  BY <1>1, <1>2 DEF Pending
<1>5. MarkedOnce'
  BY <1>0, <1>4, MarkedStays DEF Marks
<1>6. ASSUME NEW w \in Workers, worker'[w] = "process", worker[w] # "process", w[1] > 1
      PROVE  w[1] - 1 \in stamps[item[w]]
  <2>1. worker[w] = "wait" /\ TRUE \in StepsOk(item[w], w[1] - 1)
    BY <1>6 DEF Quiet, PreviousStage
  <2>2. item[w] \in heap
    BY <2>1, HandsArePending, ReadyIsInv
  <2>3. TRUE \in {w[1] - 1 \in stamps[item[w]]}
    BY <2>1, <2>2, Zenon DEF StepsOk
  <2>. QED
    BY <2>3, Zenon
<1>7. MarksInOrder'
  <2>1. \A w \in Workers : worker'[w] = "process" /\ w[1] > 1 =>
           w[1] - 1 \in stamps[item'[w]] \/ (worker[w] = "process" /\ item'[w] = item[w])
    BY <1>0, <1>6
  <2>2. \A w \in Workers : worker'[w] = "forward" => worker[w] = "forward" /\ item'[w] = item[w]
    BY <1>0 DEF Quiet
  <2>. QED
    BY <1>0, <1>1, <2>1, <2>2, OrderStays DEF Marks
<1>. QED
  BY <1>3, <1>5, <1>7 DEF Marks

LEMMA MarksDestroy ==
  ASSUME Ready, Marks, NEW q \in Queues, DestroyStep(q)
  PROVE  Marks'
<1>. USE Constants
<1>0. /\ P!TypeOK /\ queue' = [queue EXCEPT ![q] = <<>>]
      /\ UNCHANGED <<stamps, heap, worker, item, sink_item, gen_vars>>
      /\ destroyed' = destroyed \cup {q}
  BY DEF Ready, P!ControlInv, DestroyStep, DestroyQueue, LeavesData, items, threads
<1>1. /\ \A r \in Queues, y \in Items : IsIn(y, r)' <=> IsIn(y, r) /\ r # q
      /\ \A r \in Queues : Distinct(r) => Distinct(r)'
  BY <1>0, Emptied
<1>2. \A s \in Stages, a \in Items : InHands(s, a)' <=> InHands(s, a)
  BY <1>0 DEF InHands
<1>3. StagesApart'
  BY <1>0, <1>1, <1>2, StageQueues DEF Marks, StagesApart
<1>4. \A s \in Stages, a \in Items : Pending(s, a)' => Pending(s, a)
  BY <1>1, <1>2, StageQueues DEF Pending
<1>5. ASSUME NEW s \in Stages, NEW a \in Items
      PROVE  /\ Pending(s, a)' => a \in heap' /\ s \notin stamps'[a] /\ ~ToCome(s, a)'
             /\ ToCome(s, a)' => s \notin stamps'[a]
             /\ destroyed' # {}
  <2>1. ToCome(s, a)' <=> ToCome(s, a)
    BY <1>0 DEF ToCome, gen_vars
  <2>. QED
    BY <1>0, <1>4, <2>1 DEF Marks, MarkedOnce
<1>6. MarkedOnce'
  BY <1>5 DEF MarkedOnce
<1>7. MarksInOrder'
  BY <1>0, <1>1, StageQueues, OrderStays DEF Marks
<1>. QED
  BY <1>3, <1>6, <1>7 DEF Marks

LEMMA MarksNewItem ==
  ASSUME Ready, LastApart, Marks, NewItem
  PROVE  Marks'
<1>. USE Constants
<1>0. /\ UNCHANGED <<queue, worker, item, sink_item, destroyed>> /\ gen_item = NULL /\ j' = 1
      /\ stamps \in [Items -> SUBSET Stages] /\ item \in [Workers -> Items \cup {NULL}]
  BY SameSets DEF NewItem, Ready, P!ControlInv, P!TypeOK, HandsFull
<1>1. PICK a \in Items \ heap : /\ gen_item' = a /\ heap' = heap \cup {a}
                                /\ stamps' = [stamps EXCEPT ![a] = {}]
  BY DEF NewItem
<1>2. stamps'[a] = {} /\ \A y \in Items : y # a => stamps'[y] = stamps[y]
  BY <1>0, <1>1
<1>3. \A q, y : IsIn(y, q)' <=> IsIn(y, q)
  BY <1>0 DEF IsIn
<1>4. \A s \in Stages, y \in Items : /\ InHands(s, y)' <=> InHands(s, y)
                                     /\ Pending(s, y)' <=> Pending(s, y)
  BY <1>0, <1>3 DEF InHands, Pending
<1>5. StagesApart'
  BY <1>0, <1>3, <1>4 DEF Marks, StagesApart, Distinct
<1>6. ASSUME NEW s \in Stages, NEW y \in Items
      PROVE  /\ Pending(s, y)' => y \in heap' /\ s \notin stamps'[y] /\ ~ToCome(s, y)'
             /\ ToCome(s, y)' => s \notin stamps'[y]
             /\ y \in heap' /\ destroyed' = {} => s \in stamps'[y] \/ Pending(s, y)' \/ ToCome(s, y)'
  <2>1. ToCome(s, y)' <=> y = a
    BY <1>0, <1>1 DEF ToCome
  <2>2. ~ToCome(s, y)
    BY <1>0 DEF ToCome
  <2>3. CASE y = a
    BY <1>1, <1>2, <1>4, <2>1, <2>3 DEF Marks, MarkedOnce
  <2>4. CASE y # a
    BY <1>0, <1>1, <1>2, <1>4, <2>1, <2>2, <2>4 DEF Marks, MarkedOnce
  <2>. QED
    BY <2>3, <2>4
<1>7. MarkedOnce'
  BY <1>6 DEF MarkedOnce
<1>8. ~IsIn(a, 3) /\ sink_item # a /\ \A w \in Workers : worker[w] \in {"process", "forward"} => item[w] # a
  <2>1. ~LastHolds(a)
    BY <1>1 DEF LastApart
  <2>2. \A w \in Workers : worker[w] = "forward" => item[w] # a
    BY <2>1 DEF LastHolds, InLastHands, Ready, HandsFull
  <2>3. \A w \in Workers : worker[w] = "process" => item[w] # a
    BY <1>1, HandsArePending, ReadyIsInv
  <2>. QED
    BY <2>1, <2>2, <2>3 DEF LastHolds
<1>9. MarksInOrder'
  <2>1. \A y \in Items : \A s \in stamps'[y] : s > 1 => s - 1 \in stamps'[y]
    BY <1>2 DEF Marks, MarksInOrder
  <2>2. \A w \in Workers : worker[w] \in {"process", "forward"} => item[w] \in Items
    BY <1>0 DEF Ready, HandsFull
  <2>3. \A w \in Workers : worker'[w] = "process" /\ w[1] > 1 => w[1] - 1 \in stamps'[item'[w]]
    <3>. SUFFICES ASSUME NEW w \in Workers, worker[w] = "process", w[1] > 1
                  PROVE  w[1] - 1 \in stamps'[item[w]]
      BY <1>0
    <3>1. item[w] \in Items /\ item[w] # a
      BY <1>8, <2>2
    <3>2. w[1] - 1 \in stamps[item[w]]
      BY DEF Marks, MarksInOrder
    <3>. QED
      BY <1>2, <3>1, <3>2
  <2>4. \A w \in Workers : worker'[w] = "forward" => stamps'[item'[w]] = Stages
    <3>. SUFFICES ASSUME NEW w \in Workers, worker[w] = "forward"
                  PROVE  stamps'[item[w]] = Stages
      BY <1>0
    <3>1. item[w] \in Items /\ item[w] # a
      BY <1>8, <2>2
    <3>2. stamps[item[w]] = Stages
      BY DEF Marks, MarksInOrder
    <3>. QED
      BY <1>2, <3>1, <3>2
  <2>5. \A y \in Items : IsIn(y, 3)' \/ sink_item' = y => stamps'[y] = Stages
    BY <1>0, <1>2, <1>3, <1>8 DEF Marks, MarksInOrder
  <2>. QED
    BY <2>1, <2>3, <2>4, <2>5 DEF MarksInOrder
<1>. QED
  BY <1>5, <1>7, <1>9 DEF Marks

LEMMA MarksPublish ==
  ASSUME Ready, LastApart, Marks, PublishItem, drops' = drops
  PROVE  Marks'
<1>. USE Constants
<1>0. /\ P!TypeOK /\ HasRoom(stage_queue(j)) /\ j \in 1 .. 3 /\ gen_item \in Items \cup {NULL}
      /\ UNCHANGED <<heap, stamps, worker, item, sink_item, destroyed>>
      /\ gen_item' = (IF j < 3 THEN gen_item ELSE NULL)
      /\ j < 3 => j' = j + 1
  <2>1. drops \in Nat
    BY DEF Ready, P!ControlInv, P!TypeOK
  <2>2. P!TypeOK /\ j \in 1 .. 3 /\ gen_item \in Items \cup {NULL}
    BY DEF Ready, P!ControlInv, ShmTypes
  <2>3. HasRoom(stage_queue(j))
    BY <2>1 DEF PublishItem
  <2>. QED
    BY <2>2, <2>3 DEF PublishItem
<1>1. \A s \in Stages, y \in Items : InHands(s, y)' <=> InHands(s, y)
  BY <1>0 DEF InHands
<1>2. ASSUME NEW s \in Stages, NEW y \in Items
      PROVE  ToCome(s, y)' <=> ToCome(s, y) /\ s # j
  <2>1. CASE j < 3
    BY <1>0, <2>1 DEF ToCome
  <2>2. CASE j = 3
    BY <1>0, <2>2 DEF ToCome
  <2>. QED
    BY <1>0, <2>1, <2>2
<1>3. CASE gen_item = NULL
  <2>1. queue' = queue
    BY <1>0, <1>3 DEF PublishItem
  <2>2. \A q, y : IsIn(y, q)' <=> IsIn(y, q)
    BY <2>1 DEF IsIn
  <2>3. StagesApart'
    BY <1>0, <1>1, <2>1, <2>2 DEF Marks, StagesApart, Distinct
  <2>4. \A s \in Stages, y \in Items : Pending(s, y)' <=> Pending(s, y)
    BY <1>1, <2>2 DEF Pending
  <2>5. \A s \in Stages, y \in Items : ~ToCome(s, y)
    BY <1>3 DEF ToCome
  <2>6. ASSUME NEW s \in Stages, NEW y \in Items
        PROVE  /\ Pending(s, y)' => y \in heap' /\ s \notin stamps'[y] /\ ~ToCome(s, y)'
               /\ ToCome(s, y)' => s \notin stamps'[y]
               /\ y \in heap' /\ destroyed' = {} => s \in stamps'[y] \/ Pending(s, y)' \/ ToCome(s, y)'
    BY <1>0, <1>2, <2>4, <2>5 DEF Marks, MarkedOnce
  <2>7. MarkedOnce'
    BY <2>6 DEF MarkedOnce
  <2>8. MarksInOrder'
    BY <1>0, <2>2, OrderStays DEF Marks
  <2>. QED
    BY <2>3, <2>7, <2>8 DEF Marks
<1>4. CASE gen_item # NULL
  <2>0. PICK q : q = stage_queue(j)
    OBVIOUS
  <2>1. q \in Queues /\ q # 3 /\ gen_item \in Items /\ Enqueue(q, gen_item)
    BY <1>0, <1>4, <2>0, StageQueues DEF PublishItem
  <2>2. /\ \A r \in Queues, y \in Items : IsIn(y, r)' <=> IsIn(y, r) \/ (r = q /\ y = gen_item)
        /\ \A r \in Queues : Distinct(r) /\ ~(r = q /\ IsIn(gen_item, r)) => Distinct(r)'
    BY <1>0, <2>1, Enqueued
  <2>3. \A s \in Stages, y \in Items : Pending(s, y)' <=> Pending(s, y) \/ (s = j /\ y = gen_item)
    BY <1>0, <1>1, <2>0, <2>2, StageQueues DEF Pending
  <2>4. ToCome(j, gen_item) /\ gen_item \in heap
    BY <1>0, <2>1 DEF ToCome, LastApart
  <2>5. ~Pending(j, gen_item) /\ j \notin stamps[gen_item]
    BY <1>0, <2>1, <2>4 DEF Marks, MarkedOnce
  <2>6. ~IsIn(gen_item, q) /\ ~InHands(j, gen_item)
    BY <2>0, <2>5 DEF Pending
  <2>7. StagesApart'
    <3>1. \A s \in Stages : Distinct(stage_queue(s))'
      BY <2>2, <2>6, StageQueues DEF Marks, StagesApart
    <3>2. ASSUME NEW s \in Stages, NEW y \in Items, InHands(s, y)'
          PROVE  ~IsIn(y, stage_queue(s))'
      BY <1>0, <1>1, <2>0, <2>2, <2>6, <3>2, StageQueues DEF Marks, StagesApart
    <3>. QED
      BY <1>0, <3>1, <3>2 DEF Marks, StagesApart, stage_queue
  <2>8. ASSUME NEW s \in Stages, NEW y \in Items
        PROVE  /\ Pending(s, y)' => y \in heap' /\ s \notin stamps'[y] /\ ~ToCome(s, y)'
               /\ ToCome(s, y)' => s \notin stamps'[y]
               /\ y \in heap' /\ destroyed' = {} => s \in stamps'[y] \/ Pending(s, y)' \/ ToCome(s, y)'
    <3>1. CASE s = j /\ y = gen_item
      BY <1>0, <1>2, <2>3, <2>4, <2>5, <3>1
    <3>2. CASE ~(s = j /\ y = gen_item)
      <4>1. ToCome(s, y)' <=> ToCome(s, y)
        BY <1>2, <3>2 DEF ToCome
      <4>. QED
        BY <1>0, <2>3, <3>2, <4>1 DEF Marks, MarkedOnce
    <3>. QED
      BY <3>1, <3>2
  <2>9. MarkedOnce'
    BY <2>8 DEF MarkedOnce
  <2>10. MarksInOrder'
    BY <1>0, <2>1, <2>2, StageQueues, OrderStays DEF Marks
  <2>. QED
    BY <2>7, <2>9, <2>10 DEF Marks
<1>. QED
  BY <1>3, <1>4

LEMMA MarksPoll ==
  ASSUME Ready, LastApart, Marks, NEW w \in Workers, ShmPoll(w)
  PROVE  Marks'
<1>. USE Constants
<1>0. PICK q, x : q = stage_queue(w[1]) /\ x = Front(q)
  OBVIOUS
<1>1. /\ P!TypeOK /\ UNCHANGED <<heap, stamps, destroyed, sink_item, gen_vars>>
      /\ w[1] \in Stages /\ q \in Queues /\ q # 3 /\ Dequeue(q)
      /\ worker \in [Workers -> WorkerLabels] /\ item \in [Workers -> Items \cup {NULL}]
  BY <1>0, StageQueues, SameSets DEF Ready, P!ControlInv, P!TypeOK, ShmTypes, ShmPoll, items
<1>2. item' = [item EXCEPT ![w] = x] /\ item'[w] = x
  BY <1>0, <1>1 DEF ShmPoll
<1>3. PICK l \in {"check", "process", "wait"} :
        /\ l = IF x = NULL THEN "check" ELSE IF w[1] = 1 THEN "process" ELSE "wait"
        /\ worker' = [worker EXCEPT ![w] = l]
  BY <1>2 DEF ShmPoll, WorkerGoto
<1>4. item[w] = NULL
  BY DEF Ready, HandsFull, ShmPoll, WorkerAt
<1>5. /\ x # NULL => x \in Items /\ IsIn(x, q)
      /\ \A r \in Queues, y \in Items : IsIn(y, r)' => IsIn(y, r)
      /\ \A r \in Queues, y \in Items : IsIn(y, r) /\ ~(r = q /\ y = x) => IsIn(y, r)'
      /\ Distinct(q) => \A y \in Items : y = x => ~IsIn(y, q)'
      /\ \A r \in Queues : Distinct(r) => Distinct(r)'
  BY <1>0, <1>1, Dequeued
<1>6. \A s \in Stages, y \in Items : InHands(s, y)' <=> InHands(s, y) \/ (s = w[1] /\ y = x)
  <2>1. \A v \in Workers : v # w => item'[v] = item[v] /\ worker'[v] = worker[v]
    BY <1>1, <1>2, <1>3
  <2>2. worker'[w] # "forward"
    BY <1>1, <1>3
  <2>. QED
    BY <1>2, <1>4, <2>1, <2>2 DEF InHands
<1>7. x # NULL => ~InHands(w[1], x) /\ \A v \in Workers : v[1] = w[1] => item[v] # x
  <2>. SUFFICES ASSUME x # NULL, NEW v \in Workers, v[1] = w[1], item[v] = x PROVE FALSE
    BY DEF InHands
  <2>1. CASE worker[v] = "forward"
    <3>1. v[1] = 3 /\ q = 2
      BY <1>0, <2>1 DEF Ready, HandsFull
    <3>2. InLastHands(x) /\ IsIn(x, 2) /\ x \in Items
      BY <1>5, <3>1 DEF InLastHands
    <3>. QED
      BY <3>2 DEF LastApart
  <2>2. CASE worker[v] # "forward"
    <3>1. InHands(w[1], x) /\ IsIn(x, stage_queue(w[1])) /\ x \in Items
      BY <1>0, <1>5, <2>2 DEF InHands
    <3>. QED
      BY <1>1, <3>1 DEF Marks, StagesApart
  <2>. QED
    BY <2>1, <2>2
<1>8. StagesApart'
  <2>1. \A s \in Stages : Distinct(stage_queue(s))'
    BY <1>5, StageQueues DEF Marks, StagesApart
  <2>2. ASSUME NEW s \in Stages, NEW y \in Items, InHands(s, y)'
        PROVE  ~IsIn(y, stage_queue(s))'
    <3>1. CASE s = w[1] /\ y = x
      BY <1>0, <1>1, <1>5, <3>1 DEF Marks, StagesApart
    <3>2. CASE ~(s = w[1] /\ y = x)
      BY <1>5, <1>6, <2>2, <3>2, StageQueues DEF Marks, StagesApart
    <3>. QED
      BY <3>1, <3>2
  <2>3. ASSUME NEW u \in Workers, NEW v \in Workers, u[1] = v[1], item'[u] # NULL,
               item'[u] = item'[v]
        PROVE  u = v
    <3>1. CASE u = w \/ v = w
      BY <1>1, <1>2, <1>7, <2>3, <3>1
    <3>2. CASE u # w /\ v # w
      BY <1>1, <1>2, <2>3, <3>2 DEF Marks, StagesApart
    <3>. QED
      BY <3>1, <3>2
  <2>. QED
    BY <2>1, <2>2, <2>3 DEF StagesApart, stage_queue
<1>9. \A s \in Stages, y \in Items : Pending(s, y)' <=> Pending(s, y)
  <2>. SUFFICES ASSUME NEW s \in Stages, NEW y \in Items
                PROVE  Pending(s, y)' <=> Pending(s, y)
    OBVIOUS
  <2>1. CASE s = w[1] /\ y = x
    BY <1>0, <1>5, <1>6, <2>1 DEF Pending
  <2>2. CASE ~(s = w[1] /\ y = x)
    <3>1. IsIn(y, stage_queue(s))' <=> IsIn(y, stage_queue(s))
      BY <1>0, <1>1, <1>5, <2>2, StageQueues
    <3>2. (stage_queue(s))' = stage_queue(s)
      BY DEF stage_queue
    <3>. QED
      BY <1>6, <2>2, <3>1, <3>2 DEF Pending
  <2>. QED
    BY <2>1, <2>2
<1>10. MarkedOnce'
  BY <1>1, <1>9, MarkedStays DEF Marks
<1>11. MarksInOrder'
  <2>1. \A v \in Workers : worker'[v] = "process" /\ v[1] > 1 =>
           v[1] - 1 \in stamps[item'[v]] \/ (worker[v] = "process" /\ item'[v] = item[v])
    BY <1>1, <1>2, <1>3
  <2>2. \A v \in Workers : worker'[v] = "forward" => worker[v] = "forward" /\ item'[v] = item[v]
    BY <1>1, <1>2, <1>3
  <2>3. \A y \in Items : IsIn(y, 3)' \/ sink_item' = y => IsIn(y, 3) \/ sink_item = y
    BY <1>1, <1>5
  <2>. QED
    BY <1>1, <2>1, <2>2, <2>3, OrderStays DEF Marks
<1>. QED
  BY <1>8, <1>10, <1>11 DEF Marks

LEMMA MarksMark ==
  ASSUME Ready, Marks, NEW w \in Workers, MarkItem(w)
  PROVE  Marks'
<1>. USE Constants
<1>0. PICK x, s : x = item[w] /\ s = w[1]
  OBVIOUS
<1>1. /\ UNCHANGED <<queue, heap, destroyed, sink_item, gen_vars>> /\ worker[w] = "process"
      /\ stamps \in [Items -> SUBSET Stages] /\ item \in [Workers -> Items \cup {NULL}]
      /\ worker \in [Workers -> WorkerLabels]
  BY SameSets DEF MarkItem, WorkerAt, Ready, P!ControlInv, P!TypeOK, ShmTypes
<1>2. /\ s \in Stages /\ x \in Items /\ InHands(s, x) /\ x \in heap /\ s \notin stamps[x]
      /\ ~IsIn(x, stage_queue(s))
  BY <1>0, <1>1, HandsArePending, ReadyIsInv
<1>3. stamps' = [stamps EXCEPT ![x] = @ \cup {s}]
  BY <1>0, <1>2 DEF MarkItem
<1>4. stamps'[x] = stamps[x] \cup {s} /\ \A y \in Items : y # x => stamps'[y] = stamps[y]
  BY <1>1, <1>2, <1>3
<1>5. /\ \A v \in Workers : v # w => item'[v] = item[v] /\ worker'[v] = worker[v]
      /\ \/ s = 3 /\ item'[w] = x /\ worker'[w] = "forward"
         \/ s # 3 /\ item'[w] = NULL /\ worker'[w] = "check"
  BY <1>0, <1>1, <1>2 DEF MarkItem, WorkerGoto
<1>6. \A q, y : IsIn(y, q)' <=> IsIn(y, q)
  BY <1>1 DEF IsIn
<1>7. \A v \in Workers : v[1] = s /\ item[v] = x => v = w
  BY <1>0, <1>2 DEF Marks, StagesApart
<1>8. ASSUME NEW r \in Stages, NEW y \in Items
      PROVE  /\ InHands(r, y)' <=> InHands(r, y) /\ ~(r = s /\ y = x)
             /\ Pending(r, y)' <=> Pending(r, y) /\ ~(r = s /\ y = x)
  <2>1. InHands(r, y)' <=> InHands(r, y) /\ ~(r = s /\ y = x)
    <3>1. CASE r = s /\ y = x
      BY <1>0, <1>5, <1>7, <3>1 DEF InHands
    <3>2. CASE ~(r = s /\ y = x)
      BY <1>0, <1>5, <3>2 DEF InHands
    <3>. QED
      BY <3>1, <3>2
  <2>2. (stage_queue(r))' = stage_queue(r)
    BY DEF stage_queue
  <2>. QED
    BY <1>2, <1>6, <2>1, <2>2 DEF Pending
<1>9. StagesApart'
  <2>1. \A r \in Stages : Distinct(stage_queue(r))'
    BY <1>1 DEF Marks, StagesApart, Distinct
  <2>2. \A r \in Stages, y \in Items : InHands(r, y)' => ~IsIn(y, stage_queue(r))'
    BY <1>6, <1>8 DEF Marks, StagesApart
  <2>3. ASSUME NEW u \in Workers, NEW v \in Workers, u[1] = v[1], item'[u] # NULL,
               item'[u] = item'[v]
        PROVE  u = v
    <3>1. item'[u] = item[u] /\ item'[v] = item[v]
      BY <1>0, <1>5, <2>3
    <3>. QED
      BY <2>3, <3>1 DEF Marks, StagesApart
  <2>. QED
    BY <2>1, <2>2, <2>3 DEF StagesApart, stage_queue
<1>10. ASSUME NEW r \in Stages, NEW y \in Items
       PROVE  /\ Pending(r, y)' => y \in heap' /\ r \notin stamps'[y] /\ ~ToCome(r, y)'
              /\ ToCome(r, y)' => r \notin stamps'[y]
              /\ y \in heap' /\ destroyed' = {} => r \in stamps'[y] \/ Pending(r, y)' \/ ToCome(r, y)'
  <2>1. ToCome(r, y)' <=> ToCome(r, y)
    BY <1>1 DEF ToCome, gen_vars
  <2>2. CASE r = s /\ y = x
    <3>1. Pending(s, x)
      BY <1>2 DEF Pending
    <3>. QED
      BY <1>1, <1>2, <1>4, <1>8, <2>1, <2>2, <3>1 DEF Marks, MarkedOnce
  <2>3. CASE ~(r = s /\ y = x)
    <3>1. r \in stamps'[y] <=> r \in stamps[y]
      BY <1>2, <1>4, <2>3
    <3>. QED
      BY <1>1, <1>8, <2>1, <2>3, <3>1 DEF Marks, MarkedOnce
  <2>. QED
    BY <2>2, <2>3
<1>11. MarkedOnce'
  BY <1>10 DEF MarkedOnce
<1>12. MarksInOrder'
  <2>0. s > 1 => s - 1 \in stamps[x]
    BY <1>0, <1>1, <1>2 DEF Marks, MarksInOrder
  <2>1. ASSUME NEW y \in Items, NEW r \in stamps'[y], r > 1
        PROVE  r - 1 \in stamps'[y]
    <3>1. CASE y = x /\ r = s
      BY <1>4, <2>0, <2>1, <3>1
    <3>2. CASE ~(y = x /\ r = s)
      <4>1. r \in stamps[y]
        BY <1>4, <3>2
      <4>2. r - 1 \in stamps[y]
        BY <2>1, <4>1 DEF Marks, MarksInOrder
      <4>. QED
        BY <1>4, <4>2
    <3>. QED
      BY <3>1, <3>2
  <2>2. \A y \in Items : stamps[y] \subseteq stamps'[y] /\ stamps'[y] \subseteq Stages
    BY <1>1, <1>2, <1>4
  <2>3. ASSUME NEW v \in Workers, worker'[v] = "process", v[1] > 1
        PROVE  v[1] - 1 \in stamps'[item'[v]]
    <3>1. v # w /\ worker[v] = "process" /\ item'[v] = item[v]
      BY <1>5, <2>3
    <3>2. item[v] \in Items
      BY <1>1, <3>1 DEF Ready, HandsFull
    <3>3. v[1] - 1 \in stamps[item[v]]
      BY <2>3, <3>1 DEF Marks, MarksInOrder
    <3>. QED
      BY <2>2, <3>1, <3>2, <3>3
  <2>4. ASSUME NEW v \in Workers, worker'[v] = "forward"
        PROVE  stamps'[item'[v]] = Stages
    <3>1. CASE v = w
      <4>1. s = 3 /\ item'[v] = x
        BY <1>5, <2>4, <3>1
      <4>2. 2 \in stamps[x]
        BY <2>0, <4>1
      <4>3. 1 \in stamps[x]
        BY <1>2, <4>2 DEF Marks, MarksInOrder
      <4>4. stamps'[x] \subseteq Stages
        BY <1>2, <2>2
      <4>. QED
        BY <1>4, <4>1, <4>2, <4>3, <4>4
    <3>2. CASE v # w
      <4>1. worker[v] = "forward" /\ item'[v] = item[v]
        BY <1>5, <2>4, <3>2
      <4>2. item[v] \in Items
        BY <1>1, <4>1 DEF Ready, HandsFull
      <4>3. stamps[item[v]] = Stages
        BY <4>1 DEF Marks, MarksInOrder
      <4>. QED
        BY <2>2, <4>1, <4>2, <4>3
    <3>. QED
      BY <3>1, <3>2
  <2>5. ASSUME NEW y \in Items, IsIn(y, 3)' \/ sink_item' = y
        PROVE  stamps'[y] = Stages
    <3>1. stamps[y] = Stages
      BY <1>1, <1>6, <2>5 DEF Marks, MarksInOrder
    <3>. QED
      BY <2>2, <3>1
  <2>. QED
    BY <2>1, <2>3, <2>4, <2>5 DEF MarksInOrder
<1>. QED
  BY <1>9, <1>11, <1>12 DEF Marks

LEMMA MarksForward ==
  ASSUME Ready, Marks, NEW w \in Workers, SendToSink(w) \/ LoseItem(w)
  PROVE  Marks'
<1>. USE Constants
<1>0. PICK x : x = item[w]
  OBVIOUS
<1>1. /\ P!TypeOK /\ UNCHANGED <<heap, stamps, destroyed, sink_item, gen_vars>>
      /\ worker[w] = "forward" /\ w[1] = 3 /\ x \in Items
      /\ stamps[x] = Stages
      /\ \A v \in Workers : v # w => item'[v] = item[v] /\ worker'[v] = worker[v]
      /\ item'[w] = NULL /\ worker'[w] = "check"
  <2>1. /\ worker \in [Workers -> WorkerLabels] /\ item \in [Workers -> Items \cup {NULL}]
        /\ P!TypeOK
    BY SameSets DEF Ready, P!ControlInv, P!TypeOK, ShmTypes
  <2>2. /\ UNCHANGED <<heap, stamps, destroyed, sink_item, gen_vars>> /\ worker[w] = "forward"
        /\ item' = [item EXCEPT ![w] = NULL] /\ worker' = [worker EXCEPT ![w] = "check"]
    BY DEF SendToSink, LoseItem, WorkerAt, WorkerGoto, items
  <2>3. w[1] = 3 /\ item[w] \in Items /\ stamps[item[w]] = Stages
    BY <2>1, <2>2 DEF Ready, HandsFull, Marks, MarksInOrder
  <2>. QED
    BY <1>0, <2>1, <2>2, <2>3
<1>2. /\ \A q \in Queues, y \in Items : IsIn(y, q)' <=> IsIn(y, q) \/ (q = 3 /\ y = x /\ IsIn(y, q)')
      /\ \A q \in Queues : q # 3 => (Distinct(q) => Distinct(q)')
  <2>1. CASE Enqueue(3, x)
    BY <1>1, <2>1, Enqueued, StageQueues
  <2>2. CASE queue' = queue
    BY <2>2 DEF IsIn, Distinct
  <2>. QED
    BY <1>0, <2>1, <2>2 DEF SendToSink, LoseItem
<1>3. \A s \in Stages, y \in Items : InHands(s, y)' <=> InHands(s, y)
  BY <1>0, <1>1 DEF InHands
<1>4. \A s \in Stages, y \in Items : IsIn(y, stage_queue(s))' <=> IsIn(y, stage_queue(s))
  BY <1>2, StageQueues
<1>5. StagesApart'
  <2>1. \A s \in Stages : Distinct(stage_queue(s))'
    BY <1>2, StageQueues DEF Marks, StagesApart
  <2>2. \A s \in Stages, y \in Items : InHands(s, y)' => ~IsIn(y, stage_queue(s))'
    BY <1>3, <1>4 DEF Marks, StagesApart
  <2>3. \A u, v \in Workers :
          u[1] = v[1] /\ item'[u] # NULL /\ item'[u] = item'[v] => u = v
    BY <1>1 DEF Marks, StagesApart
  <2>. QED
    BY <2>1, <2>2, <2>3 DEF StagesApart, stage_queue
<1>6. \A s \in Stages, y \in Items : Pending(s, y)' <=> Pending(s, y)
  BY <1>3, <1>4 DEF Pending, stage_queue
<1>7. MarkedOnce'
  BY <1>1, <1>6, MarkedStays DEF Marks
<1>8. MarksInOrder'
  <2>1. \A v \in Workers : worker'[v] = "process" /\ v[1] > 1 =>
           v[1] - 1 \in stamps[item'[v]] \/ (worker[v] = "process" /\ item'[v] = item[v])
    BY <1>1
  <2>2. \A v \in Workers : worker'[v] = "forward" => worker[v] = "forward" /\ item'[v] = item[v]
    BY <1>1
  <2>3. \A y \in Items : IsIn(y, 3)' \/ sink_item' = y =>
          IsIn(y, 3) \/ sink_item = y \/ stamps[y] = Stages
    BY <1>1, <1>2, StageQueues
  <2>. QED
    BY <1>1, <2>1, <2>2, <2>3, OrderStays DEF Marks
<1>. QED
  BY <1>5, <1>7, <1>8 DEF Marks

LEMMA MarksSink ==
  ASSUME Ready, Marks, SinkStep
  PROVE  Marks'
<1>. USE Constants
<1>1. /\ P!TypeOK /\ UNCHANGED <<stamps, worker, item, destroyed, gen_vars>>
  BY DEF Ready, P!ControlInv, SinkStep, SinkPoll, SinkConsume, items
<1>2. PICK x : x = Front(3)
  OBVIOUS
<1>3. /\ \A q \in Queues, y \in Items : q # 3 => (IsIn(y, q)' <=> IsIn(y, q))
      /\ \A q \in Queues : Distinct(q) => Distinct(q)'
      /\ \A y \in Items : IsIn(y, 3)' => IsIn(y, 3)
      /\ \A y \in Items : sink_item' = y => IsIn(y, 3)
  <2>1. CASE SinkPoll
    <3>1. Dequeue(3) /\ sink_item' = x
      BY <1>2, <2>1 DEF SinkPoll
    <3>2. /\ x # NULL => x \in Items /\ IsIn(x, 3)
          /\ \A r \in Queues, y \in Items : IsIn(y, r)' => IsIn(y, r)
          /\ \A r \in Queues, y \in Items : IsIn(y, r) /\ ~(r = 3 /\ y = x) => IsIn(y, r)'
          /\ \A r \in Queues : Distinct(r) => Distinct(r)'
      BY <1>1, <1>2, <3>1, StageQueues, Dequeued
    <3>. QED
      BY <3>1, <3>2, StageQueues
  <2>2. CASE SinkConsume
    <3>1. queue' = queue /\ sink_item' = NULL
      BY <2>2 DEF SinkConsume
    <3>. QED
      BY <3>1 DEF IsIn, Distinct
  <2>. QED
    BY <2>1, <2>2 DEF SinkStep
<1>4. \A s \in Stages, y \in Items : InHands(s, y)' <=> InHands(s, y)
  BY <1>1 DEF InHands
<1>5. \A s \in Stages, y \in Items : IsIn(y, stage_queue(s))' <=> IsIn(y, stage_queue(s))
  BY <1>3, StageQueues
<1>6. StagesApart'
  <2>1. \A s \in Stages : Distinct(stage_queue(s))'
    BY <1>3, StageQueues DEF Marks, StagesApart
  <2>2. \A s \in Stages, y \in Items : InHands(s, y)' => ~IsIn(y, stage_queue(s))'
    BY <1>4, <1>5 DEF Marks, StagesApart
  <2>. QED
    BY <1>1, <2>1, <2>2 DEF Marks, StagesApart, stage_queue
<1>7. \A s \in Stages, y \in Items : Pending(s, y)' <=> Pending(s, y)
  BY <1>4, <1>5 DEF Pending, stage_queue
<1>8. \A y \in Items : y \in heap' <=> y \in heap /\ ~(y \notin heap' /\ stamps[y] = Stages)
  <2>1. CASE SinkPoll
    BY <2>1 DEF SinkPoll, items
  <2>2. CASE SinkConsume
    <3>1. heap' = heap \ {sink_item}
      BY <2>2 DEF SinkConsume
    <3>. QED
      BY <3>1 DEF Marks, MarksInOrder
  <2>. QED
    BY <2>1, <2>2 DEF SinkStep
<1>9. MarkedOnce'
  BY <1>1, <1>7, <1>8, MarkedStays DEF Marks
<1>10. MarksInOrder'
  BY <1>1, <1>3, OrderStays DEF Marks
<1>. QED
  BY <1>6, <1>9, <1>10 DEF Marks

LEMMA DropsGrow ==
  ASSUME Ready, [ShmNext]_shm_vars
  PROVE  /\ drops' = 0 => drops = 0
         /\ drops' = drops \/ PublishItem
<1>1. drops \in Nat
  BY DEF Ready, P!ControlInv, P!TypeOK
<1>2. drops' = drops \/ (PublishItem /\ drops' = drops + 1)
  <2>1. ASSUME NEW q \in Queues, DestroyStep(q)
        PROVE  drops' = drops
    BY <2>1 DEF DestroyStep, DestroyQueue, LeavesData
  <2>2. ASSUME NEW w \in Workers, WorkerStep(w)
        PROVE  drops' = drops
    BY <2>2 DEF WorkerStep, ShmPoll, MarkItem, SendToSink, LoseItem, counts
  <2>3. PublishItem => drops' = drops \/ drops' = drops + 1
    BY DEF PublishItem
  <2>. QED
    BY <2>1, <2>2, <2>3, StepKinds
       DEF Quiet, NewItem, SinkStep, SinkPoll, SinkConsume, counts
<1>. QED
  BY <1>1, <1>2

LEMMA MarksStep ==
  ASSUME Ready, LastApart, MarksInv, [ShmNext]_shm_vars
  PROVE  MarksInv'
<1>. SUFFICES ASSUME drops' = 0
              PROVE  Marks'
  BY DEF MarksInv, Marks
<1>1. drops = 0 /\ Marks
  BY DropsGrow DEF MarksInv, Marks
<1>. QED
  BY <1>1, StepKinds, MarksQuiet, MarksDestroy, MarksNewItem, MarksPublish, MarksPoll, MarksMark,
     MarksForward, MarksSink
     DEF WorkerStep

LEMMA MarksInvariance == ShmSpec => []MarksInv
<1>1. ShmInit => MarksInv
  <2>. SUFFICES ASSUME ShmInit PROVE MarksInv
    OBVIOUS
  <2>1. /\ \A q \in Queues : DOMAIN queue[q] = {1} /\ queue[q][1] = NULL
        /\ \A w \in Workers : item[w] = NULL /\ worker[w] = "none"
        /\ \A a \in Items : stamps[a] = {}
        /\ sink_item = NULL /\ gen_item = NULL /\ heap = {}
    BY DEF ShmInit, Init
  <2>2. StagesApart
    BY <2>1, Constants DEF StagesApart, InHands, IsIn, Distinct
  <2>3. MarkedOnce
    BY <2>1, Constants, StageQueues DEF MarkedOnce, Pending, ToCome, InHands, IsIn
  <2>4. MarksInOrder
    BY <2>1, Constants DEF MarksInOrder, IsIn
  <2>. QED
    BY <2>2, <2>3, <2>4 DEF MarksInv
<1>2. ShmInv /\ LastApart /\ MarksInv /\ [ShmNext]_shm_vars => MarksInv'
  <2>. SUFFICES ASSUME ShmInv, LastApart, MarksInv, [ShmNext]_shm_vars PROVE MarksInv'
    OBVIOUS
  <2>1. CASE Crashed
    <3>1. UNCHANGED shm_vars
      BY <2>1, NothingAfterCrash
    <3>. QED
      BY <3>1
         DEF MarksInv, StagesApart, MarkedOnce, MarksInOrder, Pending, ToCome, InHands, IsIn,
             Distinct, stage_queue, shm_vars, vars, items, counts, control, threads, gen_vars
  <2>2. CASE Ready
    BY <2>2, MarksStep
  <2>. QED
    BY <2>1, <2>2 DEF ShmInv, Ready
<1>. QED
  BY <1>1, <1>2, ShmInvariance, LastInvariance, PTL DEF ShmSpec

\* The places of an item in a queue or the hands of a stage in S.
LEMMA StagePlacesAre ==
  ASSUME NEW S \in SUBSET Stages, NEW a \in Items
  PROVE  /\ StagePlaces(S, a) # {} <=>
              \/ \E s \in S : IsIn(a, stage_queue(s))
              \/ \E w \in Workers : w[1] \in S /\ item[w] = a
<1>1. ASSUME NEW h, h \in StagePlaces(S, a)
      PROVE  \/ \E s \in S : IsIn(a, stage_queue(s))
             \/ \E w \in Workers : w[1] \in S /\ item[w] = a
  <2>1. \/ \E s \in S : h \in Entries(stage_queue(s), a)
        \/ \E w \in Workers : w[1] \in S /\ item[w] = a
    BY <1>1 DEF StagePlaces
  <2>2. \A s \in S : h \in Entries(stage_queue(s), a) => IsIn(a, stage_queue(s))
    BY DEF Entries, IsIn
  <2>. QED
    BY <2>1, <2>2
<1>2. ASSUME NEW s \in S, IsIn(a, stage_queue(s))
      PROVE  \E h : h \in StagePlaces(S, a)
  <2>1. PICK k \in DOMAIN queue[stage_queue(s)] : queue[stage_queue(s)][k] = a
    BY <1>2 DEF IsIn
  <2>2. <<stage_queue(s), k>> \in Entries(stage_queue(s), a)
    BY <2>1 DEF Entries
  <2>. QED
    BY <2>2 DEF StagePlaces
<1>3. ASSUME NEW w \in Workers, w[1] \in S, item[w] = a
      PROVE  w \in StagePlaces(S, a)
  BY <1>3 DEF StagePlaces
<1>. QED
  BY <1>1, <1>2, <1>3

LEMMA MarksGiveLive ==
  ASSUME ShmInv, LastApart, MarksInv
  PROVE  LiveUntilDrop
<1>. SUFFICES ASSUME drops = 0, NEW a \in Items, StagePlaces(Stages, a) # {}
              PROVE  a \in heap
  BY DEF LiveUntilDrop
<1>. USE Constants
<1>1. Marks
  BY DEF MarksInv, Marks
<1>2. ASSUME NEW s \in Stages, IsIn(a, stage_queue(s)) \/ InHands(s, a)
      PROVE  a \in heap
  BY <1>1, <1>2 DEF Marks, MarkedOnce, Pending
<1>3. ASSUME NEW w \in Workers, item[w] = a
      PROVE  a \in heap
  <2>1. CASE worker[w] = "forward"
    BY <1>3, <2>1 DEF LastApart, LastHolds, InLastHands, ShmInv, HandsFull
  <2>2. CASE worker[w] # "forward"
    BY <1>2, <1>3, <2>2 DEF InHands
  <2>. QED
    BY <2>1, <2>2
<1>4. \/ \E s \in Stages : IsIn(a, stage_queue(s))
      \/ \E w \in Workers : w[1] \in Stages /\ item[w] = a
  BY StagePlacesAre
<1>. QED
  BY <1>2, <1>3, <1>4

LEMMA MarksGiveOrder ==
  ASSUME ShmInv, MarksInv
  PROVE  StagesInOrder
<1>. SUFFICES ASSUME drops = 0
              PROVE  /\ \A w \in Workers : worker[w] = "process" => stamps[item[w]] = 1 .. w[1] - 1
                     /\ sinker = "consume" => stamps[sink_item] = Stages
  BY DEF StagesInOrder
<1>. USE Constants
<1>0. Marks
  BY DEF MarksInv, Marks
<1>1. ASSUME NEW w \in Workers, worker[w] = "process"
      PROVE  stamps[item[w]] = 1 .. w[1] - 1
  <2>0. PICK a, s : a = item[w] /\ s = w[1]
    OBVIOUS
  <2>1. s \in 1 .. 3 /\ a \in Items /\ s \notin stamps[a]
    BY <1>0, <1>1, <2>0, HandsArePending
  <2>2. stamps[a] \subseteq 1 .. 3
    BY <2>1, SameSets DEF ShmInv, P!TypeOK
  <2>3. s > 1 => s - 1 \in stamps[a]
    BY <1>0, <1>1, <2>0 DEF Marks, MarksInOrder
  <2>4. (2 \in stamps[a] => 1 \in stamps[a]) /\ (3 \in stamps[a] => 2 \in stamps[a])
    <3>1. \A r \in stamps[a] : r > 1 => r - 1 \in stamps[a]
      BY <1>0, <2>1 DEF Marks, MarksInOrder
    <3>. QED
      BY <3>1
  <2>5. CASE s = 1
    BY <2>0, <2>1, <2>2, <2>4, <2>5
  <2>6. CASE s = 2
    BY <2>0, <2>1, <2>2, <2>3, <2>4, <2>6
  <2>7. CASE s = 3
    BY <2>0, <2>1, <2>2, <2>3, <2>4, <2>7
  <2>. QED
    BY <2>1, <2>5, <2>6, <2>7
<1>2. ASSUME sinker = "consume"
      PROVE  stamps[sink_item] = Stages
  <2>1. sink_item \in Items
    BY <1>2, SameSets DEF ShmInv, P!TypeOK, HandsFull
  <2>. QED
    BY <1>0, <2>1 DEF Marks, MarksInOrder
<1>. QED
  BY <1>1, <1>2

LEMMA MarksGiveEnd ==
  ASSUME ShmInv, MarksInv
  PROVE  MarksCome
<1>. SUFFICES ASSUME drops = 0, NEW w \in Workers, worker[w] = "wait",
                     PreviousStage(w) \notin stamps[item[w]]
              PROVE  StagePlaces(1 .. w[1] - 1, item[w]) # {}
  BY DEF MarksCome
<1>. USE Constants
<1>0. PICK a, s : a = item[w] /\ s = w[1] - 1
  OBVIOUS
<1>1. Marks
  BY DEF MarksInv, Marks
<1>2. /\ w[1] \in Stages /\ a \in Items /\ a \in heap /\ InHands(w[1], a)
      /\ w[1] > 1
  BY <1>0, <1>1, HandsArePending DEF ShmInv, HandsFull
<1>3. s \in Stages /\ s \in 1 .. w[1] - 1 /\ s \notin stamps[a] /\ 1 .. w[1] - 1 \subseteq Stages
  BY <1>0, <1>2 DEF PreviousStage
<1>4. destroyed = {}
  BY DEF ShmInv, UsersGone
<1>5. ~ToCome(s, a)
  <2>1. ~ToCome(w[1], a)
    BY <1>1, <1>2 DEF Marks, MarkedOnce, Pending
  <2>. QED
    BY <1>0, <1>2, <2>1 DEF ToCome, ShmInv, ShmTypes
<1>6. Pending(s, a)
  BY <1>1, <1>2, <1>3, <1>4, <1>5 DEF Marks, MarkedOnce
<1>7. \/ \E r \in 1 .. w[1] - 1 : IsIn(a, stage_queue(r))
      \/ \E v \in Workers : v[1] \in 1 .. w[1] - 1 /\ item[v] = a
  BY <1>3, <1>6 DEF Pending, InHands
<1>8. StagePlaces(1 .. w[1] - 1, a) # {}
  <2>. DEFINE S == 1 .. w[1] - 1
  <2>1. S \subseteq Stages /\ a \in Items
    BY <1>2, <1>3
  <2>2. \/ \E r \in S : IsIn(a, stage_queue(r))
        \/ \E v \in Workers : v[1] \in S /\ item[v] = a
    BY <1>7
  <2>. HIDE DEF S
  <2>3. StagePlaces(S, a) # {}
    BY <2>1, <2>2, StagePlacesAre
  <2>. QED
    BY <2>3 DEF S
<1>. QED
  BY <1>0, <1>8

\* Until a queue is found full, the sink frees no item that is in the queue
\* or the hands of a stage (mt-pipeline-shm.c:78-103, 209).
THEOREM NoItemFreedInUse == ShmSpec => []LiveUntilDrop
BY ShmInvariance, LastInvariance, MarksInvariance, MarksGiveLive, PTL

\* Until a queue is found full, a stage works on an item only after the
\* stages before it, and the sink reads finished items only
\* (mt-pipeline-shm.c:80-94, 207-208).
THEOREM ItemsWorkedInOrder == ShmSpec => []StagesInOrder
BY ShmInvariance, MarksInvariance, MarksGiveOrder, PTL

\* Until a queue is found full, a stage waits only for a mark that is set or
\* that a stage with the item has yet to set (mt-pipeline-shm.c:80-101).
THEOREM WaitsForComingMarks == ShmSpec => []MarksCome
BY ShmInvariance, MarksInvariance, MarksGiveEnd, PTL

-----------------------------------------------------------------------------
(* CountsInv.                                                               *)

LEMMA ShmFinite ==
  ASSUME P!TypeOK
  PROVE  /\ IsFiniteSet(Forwarding) /\ IsFiniteSet(InSinkQueue)
         /\ IsFiniteSet(Unfinished) /\ IsFiniteSet(LeakedItems)
         /\ Cardinality(Forwarding) \in Nat /\ Cardinality(InSinkQueue) \in Nat
         /\ Cardinality(Unfinished) \in Nat /\ Cardinality(LeakedItems) \in Nat
         /\ AtSink \in {0, 1} /\ Publishing \in {0, 1}
         /\ forwarded[3] \in Nat /\ dropped[3] \in Nat /\ processed \in Nat
         /\ tx \in Nat /\ drops \in Nat
<1>1. IsFiniteSet(Items)
  BY PipelineAssumption, FS_Interval DEF Items
<1>2. IsFiniteSet(Workers)
  <2>1. IsFiniteSet(Stages)
    BY PipelineAssumption, FS_Interval DEF Stages
  <2>. QED
    BY <2>1, PipelineAssumption, FS_Product DEF Workers
<1>3. /\ Forwarding \in SUBSET Workers /\ InSinkQueue \in SUBSET Items
      /\ Unfinished \in SUBSET Items
  BY DEF Forwarding, InSinkQueue, Unfinished
<1>4. LeakedItems \in SUBSET Items
  BY SameSets DEF P!TypeOK, LeakedItems
<1>5. /\ IsFiniteSet(Forwarding) /\ IsFiniteSet(InSinkQueue)
      /\ IsFiniteSet(Unfinished) /\ IsFiniteSet(LeakedItems)
  BY <1>1, <1>2, <1>3, <1>4, FS_Subset
<1>6. /\ forwarded[3] \in Nat /\ dropped[3] \in Nat /\ processed \in Nat
      /\ tx \in Nat /\ drops \in Nat
  <2>1. 3 \in P!Stages
    BY SameSets, Constants
  <2>. QED
    BY <2>1 DEF P!TypeOK
<1>. QED
  BY <1>5, <1>6, FS_CardinalityType DEF AtSink, Publishing

\* The sets that are counted, by their elements.
CountedSets ==
  /\ \A a : a \in Unfinished <=> a \in Items /\ (IsIn(a, 2) \/ InHands(3, a))
  /\ \A a : a \in InSinkQueue <=> a \in Items /\ IsIn(a, 3)
  /\ \A a : a \in LeakedItems <=> a \in heap /\ a # gen_item /\ ~LastHolds(a)
  /\ \A a : LastHolds(a) <=> IsIn(a, 2) \/ InLastHands(a) \/ IsIn(a, 3) \/ sink_item = a

LEMMA CountedSetsAre == CountedSets
BY Constants DEF CountedSets, Unfinished, InSinkQueue, LeakedItems, LastHolds, Pending

LEMMA CountedSetsNext == CountedSets'
BY CountedSetsAre, PTL

\* Nothing moves from the queue of the last stage on.
LEMMA SetsStay ==
  ASSUME \A a \in Items : (IsIn(a, 2)' <=> IsIn(a, 2)) /\ (IsIn(a, 3)' <=> IsIn(a, 3)),
         \A a \in Items : InHands(3, a)' <=> InHands(3, a)
  PROVE  /\ Unfinished' = Unfinished /\ InSinkQueue' = InSinkQueue
         /\ (\A a \in Items : InLastHands(a)' <=> InLastHands(a)) /\ sink_item' = sink_item =>
              \A a \in Items : LastHolds(a)' <=> LastHolds(a)
<1>1. /\ \A a : a \in Unfinished' <=> a \in Unfinished
      /\ \A a : a \in InSinkQueue' <=> a \in InSinkQueue
  BY CountedSetsAre, CountedSetsNext DEF CountedSets
<1>2. Unfinished' = Unfinished /\ InSinkQueue' = InSinkQueue
  BY <1>1
<1>. QED
  BY <1>2, CountedSetsAre, CountedSetsNext DEF CountedSets

\* The allocated items, and those held, stay, except for such as are held.
LEMMA LeakStays ==
  ASSUME \A a \in Items :
           a \in heap' /\ a # gen_item' /\ ~LastHolds(a)' <=> a \in heap /\ a # gen_item /\ ~LastHolds(a),
         heap \subseteq Items, heap' \subseteq Items
  PROVE  LeakedItems' = LeakedItems
<1>1. \A a : a \in LeakedItems' <=> a \in LeakedItems
  BY CountedSetsAre, CountedSetsNext DEF CountedSets
<1>. QED
  BY <1>1

LEMMA CountsStay ==
  ASSUME Counts, UNCHANGED <<tx, drops, forwarded, dropped, processed>>,
         Forwarding' = Forwarding, InSinkQueue' = InSinkQueue, AtSink' = AtSink,
         Unfinished' = Unfinished, Publishing' = Publishing, LeakedItems' = LeakedItems
  PROVE  Counts'
BY DEF Counts

LEMMA CountsQuiet ==
  ASSUME P!TypeOK, Counts, Quiet
  PROVE  Counts'
<1>. USE Constants
<1>0. /\ UNCHANGED <<queue, heap, tx, drops, forwarded, dropped, processed, item, sink_item, gen_item>>
      /\ heap \subseteq Items
  BY SameSets DEF Quiet, P!TypeOK
<1>1. /\ Forwarding' = Forwarding
      /\ \A s \in Stages, a \in Items : InHands(s, a)' <=> InHands(s, a)
      /\ \A a \in Items : InLastHands(a)' <=> InLastHands(a)
  BY <1>0 DEF Quiet, Forwarding, InHands, InLastHands
<1>2. \A a, q : IsIn(a, q)' <=> IsIn(a, q)
  BY <1>0 DEF IsIn
<1>3. AtSink' = AtSink /\ Publishing' = Publishing
  BY <1>0 DEF AtSink, Publishing
<1>4. /\ Unfinished' = Unfinished /\ InSinkQueue' = InSinkQueue
      /\ \A a \in Items : LastHolds(a)' <=> LastHolds(a)
  BY <1>0, <1>1, <1>2, SetsStay
<1>5. LeakedItems' = LeakedItems
  BY <1>0, <1>4, LeakStays
<1>. QED
  BY <1>0, <1>1, <1>3, <1>4, <1>5, CountsStay

LEMMA CountsGenerate ==
  ASSUME Ready, LastApart, Counts, NewItem \/ PublishItem
  PROVE  Counts'
<1>. USE Constants
<1>0. /\ P!TypeOK /\ UNCHANGED <<worker, item, sink_item, forwarded, dropped, processed>>
      /\ j \in 1 .. 3 /\ gen_item \in Items \cup {NULL} /\ heap \subseteq Items
  BY SameSets DEF Ready, P!ControlInv, P!TypeOK, NewItem, PublishItem, ShmTypes
<1>1. Forwarding' = Forwarding /\ AtSink' = AtSink
  BY <1>0 DEF Forwarding, AtSink
<1>2. \A a \in Items : /\ InHands(3, a)' <=> InHands(3, a)
                       /\ InLastHands(a)' <=> InLastHands(a)
  BY <1>0 DEF InHands, InLastHands
<1>3. ASSUME \A y \in Items : (IsIn(y, 2)' <=> IsIn(y, 2)) /\ (IsIn(y, 3)' <=> IsIn(y, 3))
      PROVE  /\ InSinkQueue' = InSinkQueue /\ Unfinished' = Unfinished
             /\ \A a \in Items : LastHolds(a)' <=> LastHolds(a)
  BY <1>0, <1>2, <1>3, SetsStay
<1>4. CASE NewItem
  <2>1. PICK a \in Items \ heap : gen_item' = a /\ heap' = heap \cup {a}
    BY <1>4 DEF NewItem
  <2>2. queue' = queue /\ gen_item = NULL /\ tx' = tx + 1 /\ drops' = drops
    BY <1>4 DEF NewItem, Ready, HandsFull
  <2>3. Publishing' = 1 /\ Publishing = 0
    BY <2>1, <2>2 DEF Publishing
  <2>4. \A y, q : IsIn(y, q)' <=> IsIn(y, q)
    BY <2>2 DEF IsIn
  <2>5. LeakedItems' = LeakedItems
    BY <1>0, <1>3, <2>1, <2>2, <2>4, LeakStays
  <2>. QED
    BY <1>0, <1>1, <1>3, <2>2, <2>3, <2>4, <2>5, ShmFinite DEF Counts
<1>5. CASE PublishItem /\ HasRoom(stage_queue(j)) /\ gen_item # NULL /\ j = 3
  <2>1. /\ Enqueue(2, gen_item) /\ gen_item' = NULL /\ UNCHANGED <<heap, tx, drops>>
        /\ gen_item \in Items
    BY <1>0, <1>5 DEF PublishItem
  <2>2. \A y \in Items : /\ IsIn(y, 2)' <=> IsIn(y, 2) \/ y = gen_item
                         /\ IsIn(y, 3)' <=> IsIn(y, 3)
    <3>1. \A q \in Queues, y \in Items : IsIn(y, q)' <=> IsIn(y, q) \/ (q = 2 /\ y = gen_item)
      BY <1>0, <2>1, Enqueued
    <3>2. 2 \in Queues /\ 3 \in Queues
      OBVIOUS
    <3>. QED
      BY <3>1, <3>2
  <2>3. ~LastHolds(gen_item)
    BY <2>1 DEF LastApart
  <2>4. ~IsIn(gen_item, 2) /\ ~InHands(3, gen_item)
    BY <2>3 DEF LastHolds, InLastHands, InHands
  <2>5. Unfinished' = Unfinished \cup {gen_item} /\ gen_item \notin Unfinished
    <3>1. \A y : y \in Unfinished' <=> y \in Unfinished \/ y = gen_item
      BY <1>2, <2>1, <2>2, CountedSetsAre, CountedSetsNext DEF CountedSets
    <3>2. gen_item \notin Unfinished
      BY <2>4, CountedSetsAre DEF CountedSets
    <3>. QED
      BY <3>1, <3>2
  <2>6. Cardinality(Unfinished') = Cardinality(Unfinished) + 1
    BY <1>0, <2>5, ShmFinite, FS_AddElement
  <2>7. InSinkQueue' = InSinkQueue
    <3>1. \A y : y \in InSinkQueue' <=> y \in InSinkQueue
      BY <2>2, CountedSetsAre, CountedSetsNext DEF CountedSets
    <3>. QED
      BY <3>1
  <2>8. LeakedItems' = LeakedItems
    <3>1. \A y \in Items : LastHolds(y)' <=> LastHolds(y) \/ y = gen_item
      BY <1>0, <1>2, <2>2, CountedSetsAre, CountedSetsNext DEF CountedSets
    <3>. QED
      BY <1>0, <2>1, <2>3, <3>1, LeakStays
  <2>9. Publishing' = 0 /\ Publishing = 1
    BY <1>5, <2>1 DEF Publishing
  <2>. QED
    BY <1>0, <1>1, <2>1, <2>6, <2>7, <2>8, <2>9, ShmFinite DEF Counts
<1>6. CASE PublishItem /\ HasRoom(stage_queue(j)) /\ ~(gen_item # NULL /\ j = 3)
  <2>1. gen_item' = gen_item /\ UNCHANGED <<heap, tx, drops>>
    BY <1>0, <1>6 DEF PublishItem
  <2>2. \A y \in Items : (IsIn(y, 2)' <=> IsIn(y, 2)) /\ (IsIn(y, 3)' <=> IsIn(y, 3))
    <3>1. CASE queue' = queue
      BY <3>1 DEF IsIn
    <3>2. CASE gen_item \in Items /\ Enqueue(stage_queue(j), gen_item) /\ j < 3
      <4>1. stage_queue(j) \in Queues /\ stage_queue(j) # 2 /\ stage_queue(j) # 3
        BY <1>0, <3>2 DEF stage_queue
      <4>. QED
        BY <1>0, <3>2, <4>1, Enqueued
    <3>. QED
      BY <1>0, <1>6, <3>1, <3>2 DEF PublishItem
  <2>3. LeakedItems' = LeakedItems
    BY <1>0, <1>3, <2>1, <2>2, LeakStays
  <2>4. Publishing' = Publishing
    BY <2>1 DEF Publishing
  <2>. QED
    BY <1>0, <1>1, <1>3, <2>1, <2>2, <2>3, <2>4, CountsStay
<1>7. CASE PublishItem /\ ~HasRoom(stage_queue(j))
  <2>1. /\ queue' = queue /\ heap' = heap \ {gen_item} /\ gen_item' = NULL
        /\ tx' = tx /\ drops' = drops + 1
    BY <1>0, <1>7 DEF PublishItem, AfterFree
  <2>2. \A y, q : IsIn(y, q)' <=> IsIn(y, q)
    BY <2>1 DEF IsIn
  <2>3. LeakedItems' = LeakedItems
    BY <1>0, <1>3, <2>1, <2>2, LeakStays
  <2>4. Publishing' = 0
    BY <2>1 DEF Publishing
  <2>. QED
    BY <1>0, <1>1, <1>3, <2>1, <2>2, <2>3, <2>4, ShmFinite DEF Counts
<1>. QED
  BY <1>4, <1>5, <1>6, <1>7

LEMMA CountsPoll ==
  ASSUME Ready, LastApart, Counts, NEW w \in Workers, ShmPoll(w)
  PROVE  Counts'
<1>. USE Constants
<1>0. PICK q, x : q = stage_queue(w[1]) /\ x = Front(q)
  OBVIOUS
<1>1. /\ P!TypeOK /\ UNCHANGED <<heap, tx, drops, forwarded, dropped, processed, sink_item, gen_item>>
      /\ w[1] \in Stages /\ q \in Queues /\ q # 3 /\ Dequeue(q) /\ (q = 2 <=> w[1] = 3)
      /\ worker \in [Workers -> WorkerLabels] /\ item \in [Workers -> Items \cup {NULL}]
      /\ heap \subseteq Items
  <2>1. UNCHANGED <<heap, tx, drops, forwarded, dropped, processed, sink_item, gen_item>>
    BY DEF ShmPoll, items, counts, gen_vars
  <2>2. w[1] \in Stages
    BY SameSets
  <2>3. q \in Queues /\ q # 3 /\ (q = 2 <=> w[1] = 3)
    BY <1>0, <2>2 DEF stage_queue
  <2>4. P!TypeOK /\ ShmTypes
    BY DEF Ready, P!ControlInv
  <2>5. /\ worker \in [Workers -> WorkerLabels] /\ item \in [Workers -> Items \cup {NULL}]
        /\ heap \subseteq Items
    BY <2>4, SameSets DEF P!TypeOK, ShmTypes
  <2>6. Dequeue(q)
    BY <1>0 DEF ShmPoll
  <2>. QED
    BY <2>1, <2>2, <2>3, <2>4, <2>5, <2>6
<1>2. item' = [item EXCEPT ![w] = x] /\ item'[w] = x
  BY <1>0, <1>1 DEF ShmPoll
<1>3. worker[w] = "poll" /\ item[w] = NULL
  BY DEF Ready, HandsFull, ShmPoll, WorkerAt
<1>4. PICK l \in {"check", "process", "wait"} : worker' = [worker EXCEPT ![w] = l]
  BY <1>2 DEF ShmPoll, WorkerGoto
<1>5. /\ \A v \in Workers : v # w => item'[v] = item[v] /\ worker'[v] = worker[v]
      /\ worker'[w] # "forward" /\ worker[w] # "forward"
  BY <1>1, <1>2, <1>3, <1>4
<1>6. /\ x # NULL => x \in Items /\ IsIn(x, q)
      /\ \A y \in Items : IsIn(y, 3)' <=> IsIn(y, 3)
      /\ \A y \in Items : IsIn(y, 2)' => IsIn(y, 2)
      /\ \A y \in Items : IsIn(y, 2) /\ ~(q = 2 /\ y = x) => IsIn(y, 2)'
      /\ q = 2 => \A y \in Items : y = x => ~IsIn(y, 2)'
  <2>1. /\ x # NULL => x \in Items /\ IsIn(x, q)
        /\ \A r \in Queues, y \in Items : IsIn(y, r)' => IsIn(y, r)
        /\ \A r \in Queues, y \in Items : IsIn(y, r) /\ ~(r = q /\ y = x) => IsIn(y, r)'
        /\ Distinct(q) => \A y \in Items : y = x => ~IsIn(y, q)'
    BY <1>0, <1>1, Dequeued
  <2>2. 2 \in Queues /\ 3 \in Queues
    OBVIOUS
  <2>3. q = 2 => Distinct(q)
    BY DEF LastApart
  <2>. QED
    BY <1>1, <2>1, <2>2, <2>3
<1>7. Forwarding' = Forwarding
  BY <1>5 DEF Forwarding
<1>8. ASSUME NEW y \in Items
      PROVE  /\ InHands(3, y)' <=> InHands(3, y) \/ (q = 2 /\ y = x)
             /\ InLastHands(y)' <=> InLastHands(y) \/ (q = 2 /\ y = x)
  <2>1. InHands(3, y)' <=> InHands(3, y) \/ (w[1] = 3 /\ y = x)
    BY <1>2, <1>3, <1>5 DEF InHands
  <2>2. InLastHands(y)' <=> InLastHands(y) \/ (w[1] = 3 /\ y = x)
    BY <1>2, <1>3, <1>5 DEF InLastHands
  <2>. QED
    BY <1>1, <2>1, <2>2
<1>9. Unfinished' = Unfinished /\ InSinkQueue' = InSinkQueue
  <2>1. \A y : y \in Unfinished' <=> y \in Unfinished
    BY <1>6, <1>8, CountedSetsAre, CountedSetsNext DEF CountedSets
  <2>2. \A y : y \in InSinkQueue' <=> y \in InSinkQueue
    BY <1>6, CountedSetsAre, CountedSetsNext DEF CountedSets
  <2>. QED
    BY <2>1, <2>2
<1>10. LeakedItems' = LeakedItems
  <2>1. \A y \in Items : LastHolds(y)' <=> LastHolds(y)
    BY <1>1, <1>6, <1>8, CountedSetsAre, CountedSetsNext DEF CountedSets
  <2>. QED
    BY <1>1, <2>1, LeakStays
<1>11. AtSink' = AtSink /\ Publishing' = Publishing
  BY <1>1 DEF AtSink, Publishing
<1>. QED
  BY <1>1, <1>7, <1>9, <1>10, <1>11, CountsStay

LEMMA CountsMark ==
  ASSUME Ready, LastApart, Counts, NEW w \in Workers, MarkItem(w)
  PROVE  Counts'
<1>. USE Constants
<1>0. PICK x : x = item[w]
  OBVIOUS
<1>1. /\ P!TypeOK /\ UNCHANGED <<queue, heap, tx, drops, dropped, processed, sink_item, gen_item>>
      /\ worker[w] = "process" /\ worker \in [Workers -> WorkerLabels]
      /\ item \in [Workers -> Items \cup {NULL}] /\ heap \subseteq Items /\ w[1] \in Stages
      /\ forwarded \in [Stages -> Nat]
  BY SameSets DEF MarkItem, WorkerAt, Ready, P!ControlInv, P!TypeOK, ShmTypes, gen_vars
<1>2. /\ forwarded' = [forwarded EXCEPT ![w[1]] = @ + 1] /\ x \in Items
      /\ \A v \in Workers : v # w => item'[v] = item[v] /\ worker'[v] = worker[v]
      /\ \/ w[1] = 3 /\ item'[w] = x /\ worker'[w] = "forward"
         \/ w[1] # 3 /\ item'[w] = NULL /\ worker'[w] = "check"
  BY <1>0, <1>1 DEF MarkItem, WorkerGoto, Ready, HandsFull
<1>3. \A y, q : IsIn(y, q)' <=> IsIn(y, q)
  BY <1>1 DEF IsIn
<1>4. AtSink' = AtSink /\ Publishing' = Publishing
  BY <1>1 DEF AtSink, Publishing
<1>5. \A y \in Items : InLastHands(y)' <=> InLastHands(y)
  BY <1>0, <1>2 DEF InLastHands
<1>6. InSinkQueue' = InSinkQueue
  <2>1. \A y : y \in InSinkQueue' <=> y \in InSinkQueue
    BY <1>3, CountedSetsAre, CountedSetsNext DEF CountedSets
  <2>. QED
    BY <2>1
<1>7. LeakedItems' = LeakedItems
  <2>1. \A y \in Items : LastHolds(y)' <=> LastHolds(y)
    BY <1>1, <1>3, <1>5, CountedSetsAre, CountedSetsNext DEF CountedSets
  <2>. QED
    BY <1>1, <2>1, LeakStays
<1>8. CASE w[1] # 3
  <2>1. Forwarding' = Forwarding
    BY <1>1, <1>2, <1>8 DEF Forwarding
  <2>2. \A y \in Items : InHands(3, y)' <=> InHands(3, y)
    BY <1>2, <1>8 DEF InHands
  <2>3. Unfinished' = Unfinished
    BY <1>3, <2>2, SetsStay
  <2>4. forwarded'[3] = forwarded[3]
    BY <1>1, <1>2, <1>8
  <2>. QED
    BY <1>1, <1>4, <1>6, <1>7, <2>1, <2>3, <2>4 DEF Counts
<1>9. CASE w[1] = 3
  <2>1. Forwarding' = Forwarding \cup {w} /\ w \notin Forwarding
    BY <1>1, <1>2, <1>9 DEF Forwarding
  <2>2. Cardinality(Forwarding') = Cardinality(Forwarding) + 1
    BY <1>1, <2>1, ShmFinite, FS_AddElement
  <2>3. ~IsIn(x, 2)
    BY <1>0, <1>2, <1>9 DEF LastApart, InLastHands
  <2>4. \A v \in Workers : v[1] = 3 /\ item[v] = x => v = w
    BY <1>0, <1>2, <1>9 DEF LastApart
  <2>5. \A y \in Items : InHands(3, y)' <=> InHands(3, y) /\ y # x
    BY <1>0, <1>1, <1>2, <1>9, <2>4 DEF InHands
  <2>6. InHands(3, x)
    BY <1>0, <1>1, <1>9 DEF InHands
  <2>7. Unfinished' = Unfinished \ {x} /\ x \in Unfinished
    <3>1. \A y : y \in Unfinished' <=> y \in Unfinished /\ y # x
      BY <1>3, <2>3, <2>5, CountedSetsAre, CountedSetsNext DEF CountedSets
    <3>2. x \in Unfinished
      BY <1>2, <2>6, CountedSetsAre DEF CountedSets
    <3>. QED
      BY <3>1, <3>2
  <2>8. Cardinality(Unfinished') = Cardinality(Unfinished) - 1
    BY <1>1, <2>7, ShmFinite, FS_RemoveElement
  <2>9. forwarded'[3] = forwarded[3] + 1
    BY <1>1, <1>2, <1>9
  <2>. QED
    BY <1>1, <1>4, <1>6, <1>7, <2>2, <2>8, <2>9, ShmFinite DEF Counts
<1>. QED
  BY <1>8, <1>9

LEMMA CountsForward ==
  ASSUME Ready, LastApart, Counts, NEW w \in Workers, SendToSink(w) \/ LoseItem(w)
  PROVE  Counts'
<1>. USE Constants
<1>0. PICK x : x = item[w]
  OBVIOUS
<1>1. /\ P!TypeOK /\ UNCHANGED <<heap, tx, drops, forwarded, processed, sink_item, gen_item>>
      /\ worker[w] = "forward" /\ worker \in [Workers -> WorkerLabels]
      /\ item \in [Workers -> Items \cup {NULL}] /\ heap \subseteq Items
      /\ dropped \in [Stages -> Nat]
  BY SameSets
     DEF SendToSink, LoseItem, WorkerAt, Ready, P!ControlInv, P!TypeOK, ShmTypes, gen_vars, items,
         counts
<1>2. /\ w[1] = 3 /\ x \in Items /\ item'[w] = NULL /\ worker'[w] = "check"
      /\ \A v \in Workers : v # w => item'[v] = item[v] /\ worker'[v] = worker[v]
  BY <1>0, <1>1 DEF SendToSink, LoseItem, WorkerGoto, Ready, HandsFull
<1>3. Forwarding' = Forwarding \ {w} /\ w \in Forwarding
  BY <1>1, <1>2 DEF Forwarding
<1>4. Cardinality(Forwarding') = Cardinality(Forwarding) - 1
  BY <1>1, <1>3, ShmFinite, FS_RemoveElement
<1>5. AtSink' = AtSink /\ Publishing' = Publishing
  BY <1>1 DEF AtSink, Publishing
<1>6. \A y \in Items : InHands(3, y)' <=> InHands(3, y)
  BY <1>1, <1>2 DEF InHands
<1>7. InLastHands(x) /\ \A y \in Items : InLastHands(y)' <=> InLastHands(y) /\ y # x
  <2>1. \A v \in Workers : v[1] = 3 /\ item[v] = x => v = w
    BY <1>0, <1>2 DEF LastApart
  <2>. QED
    BY <1>0, <1>2, <2>1 DEF InLastHands
<1>8. x \in heap /\ gen_item # x /\ ~IsIn(x, 2) /\ ~IsIn(x, 3) /\ sink_item # x
  BY <1>2, <1>7 DEF LastApart, LastHolds
<1>9. CASE SendToSink(w)
  <2>1. \A y \in Items : /\ IsIn(y, 3)' <=> IsIn(y, 3) \/ y = x
                         /\ IsIn(y, 2)' <=> IsIn(y, 2)
    <3>1. Enqueue(3, x)
      BY <1>0, <1>9 DEF SendToSink
    <3>2. 2 \in Queues /\ 3 \in Queues
      OBVIOUS
    <3>. QED
      BY <1>1, <1>2, <3>1, <3>2, Enqueued
  <2>2. InSinkQueue' = InSinkQueue \cup {x} /\ x \notin InSinkQueue
    <3>1. \A y : y \in InSinkQueue' <=> y \in InSinkQueue \/ y = x
      BY <1>2, <2>1, CountedSetsAre, CountedSetsNext DEF CountedSets
    <3>2. x \notin InSinkQueue
      BY <1>8, CountedSetsAre DEF CountedSets
    <3>. QED
      BY <3>1, <3>2
  <2>3. Cardinality(InSinkQueue') = Cardinality(InSinkQueue) + 1
    BY <1>1, <2>2, ShmFinite, FS_AddElement
  <2>4. Unfinished' = Unfinished
    <3>1. \A y : y \in Unfinished' <=> y \in Unfinished
      BY <1>6, <2>1, CountedSetsAre, CountedSetsNext DEF CountedSets
    <3>. QED
      BY <3>1
  <2>5. LeakedItems' = LeakedItems
    <3>1. \A y \in Items : LastHolds(y)' <=> LastHolds(y)
      BY <1>1, <1>7, <2>1, CountedSetsAre, CountedSetsNext DEF CountedSets
    <3>. QED
      BY <1>1, <3>1, LeakStays
  <2>6. dropped' = dropped
    BY <1>9 DEF SendToSink, counts
  <2>. QED
    BY <1>1, <1>4, <1>5, <2>3, <2>4, <2>5, <2>6, ShmFinite DEF Counts
<1>10. CASE LoseItem(w)
  <2>1. queue' = queue /\ dropped'[3] = dropped[3] + 1
    BY <1>1, <1>2, <1>10 DEF LoseItem
  <2>2. \A y, q : IsIn(y, q)' <=> IsIn(y, q)
    BY <2>1 DEF IsIn
  <2>3. Unfinished' = Unfinished /\ InSinkQueue' = InSinkQueue
    BY <1>6, <2>2, SetsStay
  <2>4. LeakedItems' = LeakedItems \cup {x} /\ x \notin LeakedItems
    <3>1. \A y \in Items : LastHolds(y)' <=> LastHolds(y) /\ y # x
      BY <1>1, <1>7, <1>8, <2>2, CountedSetsAre, CountedSetsNext DEF CountedSets
    <3>2. \A y : y \in LeakedItems' <=> y \in LeakedItems \/ y = x
      BY <1>1, <1>8, <3>1, CountedSetsAre, CountedSetsNext DEF CountedSets
    <3>3. x \notin LeakedItems
      BY <1>7, CountedSetsAre DEF CountedSets
    <3>. QED
      BY <3>2, <3>3
  <2>5. Cardinality(LeakedItems') = Cardinality(LeakedItems) + 1
    BY <1>1, <2>4, ShmFinite, FS_AddElement
  <2>. QED
    BY <1>1, <1>4, <1>5, <2>1, <2>3, <2>5, ShmFinite DEF Counts
<1>. QED
  BY <1>9, <1>10

LEMMA CountsSink ==
  ASSUME Ready, LastApart, Counts, SinkStep
  PROVE  Counts'
<1>. USE Constants
<1>1. /\ P!TypeOK /\ UNCHANGED <<tx, drops, forwarded, dropped, worker, item, gen_item>>
      /\ heap \subseteq Items /\ sink_item \in Items \cup {NULL}
  BY SameSets
     DEF Ready, P!ControlInv, P!TypeOK, SinkStep, SinkPoll, SinkConsume, items, counts, gen_vars
<1>2. Forwarding' = Forwarding /\ Publishing' = Publishing
  BY <1>1 DEF Forwarding, Publishing
<1>3. \A y \in Items : (InHands(3, y)' <=> InHands(3, y)) /\ (InLastHands(y)' <=> InLastHands(y))
  BY <1>1 DEF InHands, InLastHands
<1>4. CASE SinkPoll
  <2>0. PICK x : x = Front(3)
    OBVIOUS
  <2>1. /\ Dequeue(3) /\ sink_item' = x /\ sink_item = NULL /\ UNCHANGED <<heap, processed>>
    BY <1>4, <2>0 DEF SinkPoll, items, counts, Ready, HandsFull
  <2>2. /\ x # NULL => x \in Items /\ IsIn(x, 3)
        /\ \A y \in Items : IsIn(y, 2)' <=> IsIn(y, 2)
        /\ \A y \in Items : IsIn(y, 3)' <=> IsIn(y, 3) /\ y # x
    <3>1. /\ x # NULL => x \in Items /\ IsIn(x, 3)
          /\ \A r \in Queues, y \in Items : IsIn(y, r)' => IsIn(y, r)
          /\ \A r \in Queues, y \in Items : IsIn(y, r) /\ ~(r = 3 /\ y = x) => IsIn(y, r)'
          /\ Distinct(3) => \A y \in Items : y = x => ~IsIn(y, 3)'
      BY <1>1, <2>0, <2>1, Dequeued, StageQueues
    <3>2. 2 \in Queues /\ 3 \in Queues /\ Distinct(3)
      BY DEF LastApart
    <3>. QED
      BY <3>1, <3>2
  <2>3. Unfinished' = Unfinished
    <3>1. \A y : y \in Unfinished' <=> y \in Unfinished
      BY <1>3, <2>2, CountedSetsAre, CountedSetsNext DEF CountedSets
    <3>. QED
      BY <3>1
  <2>4. LeakedItems' = LeakedItems
    <3>1. \A y \in Items : LastHolds(y)' <=> LastHolds(y)
      BY <1>3, <2>1, <2>2, CountedSetsAre, CountedSetsNext DEF CountedSets
    <3>. QED
      BY <1>1, <2>1, <3>1, LeakStays
  <2>5. AtSink = 0 /\ AtSink' = (IF x = NULL THEN 0 ELSE 1)
    BY <2>1 DEF AtSink
  <2>6. \A y : y \in InSinkQueue' <=> y \in InSinkQueue /\ y # x
    BY <2>2, CountedSetsAre, CountedSetsNext DEF CountedSets
  <2>7. x \in InSinkQueue <=> x # NULL
    BY <2>2, CountedSetsAre DEF CountedSets
  <2>8. InSinkQueue' = InSinkQueue \ {x}
    BY <2>6
  <2>9. Cardinality(InSinkQueue') =
          IF x = NULL THEN Cardinality(InSinkQueue) ELSE Cardinality(InSinkQueue) - 1
    BY <1>1, <2>7, <2>8, ShmFinite, FS_RemoveElement
  <2>. QED
    BY <1>1, <1>2, <2>1, <2>3, <2>4, <2>5, <2>9, ShmFinite DEF Counts
<1>5. CASE SinkConsume
  <2>1. /\ queue' = queue /\ heap' = heap \ {sink_item} /\ sink_item' = NULL
        /\ processed' = processed + 1 /\ sink_item # NULL
    BY <1>5 DEF SinkConsume, Ready, HandsFull
  <2>2. \A y, q : IsIn(y, q)' <=> IsIn(y, q)
    BY <2>1 DEF IsIn
  <2>3. Unfinished' = Unfinished /\ InSinkQueue' = InSinkQueue
    BY <1>3, <2>2, SetsStay
  <2>4. LeakedItems' = LeakedItems
    <3>1. \A y \in Items : y # sink_item => (LastHolds(y)' <=> LastHolds(y))
      BY <1>3, <2>1, <2>2, CountedSetsAre, CountedSetsNext DEF CountedSets
    <3>2. sink_item \in Items => LastHolds(sink_item)
      BY DEF LastHolds
    <3>. QED
      BY <1>1, <2>1, <3>1, <3>2, LeakStays
  <2>5. AtSink = 1 /\ AtSink' = 0
    BY <2>1 DEF AtSink
  <2>. QED
    BY <1>1, <1>2, <2>1, <2>3, <2>4, <2>5, ShmFinite DEF Counts
<1>. QED
  BY <1>4, <1>5 DEF SinkStep

LEMMA CountsStep ==
  ASSUME Ready, LastApart, CountsInv, [ShmNext]_shm_vars
  PROVE  CountsInv'
<1>. SUFFICES ASSUME destroyed' = {}
              PROVE  Counts'
  BY DEF CountsInv
<1>1. ASSUME NEW q \in Queues, DestroyStep(q)
      PROVE  FALSE
  BY <1>1 DEF DestroyStep, DestroyQueue
<1>2. CASE Quiet
  BY <1>2, CountsQuiet DEF Quiet, CountsInv, Ready, P!ControlInv
<1>3. CASE NewItem \/ PublishItem
  BY <1>3, CountsGenerate DEF NewItem, PublishItem, CountsInv
<1>4. CASE SinkStep
  BY <1>4, CountsSink DEF SinkStep, SinkPoll, SinkConsume, CountsInv
<1>5. ASSUME NEW w \in Workers, WorkerStep(w)
      PROVE  Counts'
  <2>1. destroyed = {}
    BY <1>5 DEF WorkerStep, ShmPoll, MarkItem, SendToSink, LoseItem
  <2>. QED
    BY <1>5, <2>1, CountsPoll, CountsMark, CountsForward DEF WorkerStep, CountsInv
<1>. QED
  BY <1>1, <1>2, <1>3, <1>4, <1>5, StepKinds

LEMMA CountsInvariance == ShmSpec => []CountsInv
<1>1. ShmInit => CountsInv
  <2>. SUFFICES ASSUME ShmInit PROVE Counts
    BY DEF CountsInv
  <2>1. /\ \A q \in Queues : DOMAIN queue[q] = {1} /\ queue[q][1] = NULL
        /\ \A w \in Workers : item[w] = NULL /\ worker[w] = "none"
        /\ sink_item = NULL /\ gen_item = NULL /\ heap = {}
        /\ tx = 0 /\ drops = 0 /\ processed = 0
    BY DEF ShmInit, Init
  <2>2. forwarded[3] = 0 /\ dropped[3] = 0
    BY Constants DEF ShmInit, Init
  <2>3. Forwarding = {} /\ InSinkQueue = {} /\ LeakedItems = {}
    BY <2>1, Constants DEF Forwarding, InSinkQueue, LeakedItems, IsIn
  <2>4. AtSink = 0 /\ Publishing = 0
    BY <2>1 DEF AtSink, Publishing
  <2>5. P!TypeOK
    BY ShmStart DEF ShmInv
  <2>6. Cardinality(Unfinished) \in Nat
    BY <2>5, ShmFinite
  <2>. QED
    BY <2>1, <2>2, <2>3, <2>4, <2>6, Constants, FS_EmptySet DEF Counts
<1>2. ShmInv /\ LastApart /\ CountsInv /\ [ShmNext]_shm_vars => CountsInv'
  <2>. SUFFICES ASSUME ShmInv, LastApart, CountsInv, [ShmNext]_shm_vars PROVE CountsInv'
    OBVIOUS
  <2>1. CASE Crashed
    <3>1. UNCHANGED shm_vars
      BY <2>1, NothingAfterCrash
    <3>2. Quiet /\ destroyed' = destroyed
      BY <3>1 DEF Quiet, shm_vars, vars, items, counts, control, threads, gen_vars
    <3>. QED
      BY <3>2, CountsQuiet DEF CountsInv, ShmInv
  <2>2. CASE Ready
    BY <2>2, CountsStep
  <2>. QED
    BY <2>1, <2>2 DEF ShmInv, Ready
<1>. QED
  BY <1>1, <1>2, ShmInvariance, LastInvariance, PTL DEF ShmSpec

\* As many entries as items in the queue to the sink.
LEMMA SinkQueueCounts ==
  ASSUME P!TypeOK, LastApart
  PROVE  Cardinality({p \in DOMAIN queue[3] : queue[3][p] # NULL}) = Cardinality(InSinkQueue)
<1>. DEFINE E == {p \in DOMAIN queue[3] : queue[3][p] # NULL}
            S == {x \in Items : IsIn(x, 3)}
            f == [x \in S |-> CHOOSE p \in DOMAIN queue[3] : queue[3][p] = x]
<1>0. /\ S = InSinkQueue /\ IsFiniteSet(S)
      /\ \A p \in DOMAIN queue[3] : queue[3][p] \in Items \cup {NULL}
      /\ NULL \notin Items /\ Distinct(3)
  <2>1. \A p \in DOMAIN queue[3] : queue[3][p] \in P!Entry
    BY P!QueueIsSeq, PipelineAssumed, StageQueues, SameSets DEF P!TypeOK
  <2>2. S = InSinkQueue
    BY Constants DEF InSinkQueue
  <2>. QED
    BY <2>1, <2>2, SameSets, ShmFinite, Constants DEF P!Entry, LastApart
<1>1. \A p \in E : queue[3][p] \in S
  BY <1>0 DEF IsIn
<1>2. \A x \in S : f[x] \in E /\ queue[3][f[x]] = x
  BY <1>0 DEF IsIn
<1>3. \A p \in E : f[queue[3][p]] = p
  BY <1>0, <1>1, <1>2 DEF Distinct
<1>4. f \in Bijection(S, E)
  <2>1. \A x, y \in S : f[x] = f[y] => x = y
    <3>. HIDE DEF f
    <3>. QED
      BY <1>2
  <2>. HIDE DEF E, S
  <2>2. f \in [S -> E]
    BY <1>2
  <2>3. \A p \in E : \E x \in S : f[x] = p
    BY <1>1, <1>3
  <2>. HIDE DEF f
  <2>. QED
    BY <2>1, <2>2, <2>3 DEF Bijection, Injection, Surjection, IsInjective
<1>5. ExistsBijection(S, E)
  BY <1>4 DEF ExistsBijection
<1>6. Cardinality(E) = Cardinality(S)
  BY <1>0, <1>5, FS_Bijection
<1>. QED
  BY <1>0, <1>6

LEMMA CountsAddUp ==
  ASSUME ShmInv, LastApart, CountsInv
  PROVE  LastStageCounts
<1>. DEFINE unfinished ==
              {a \in Items : Entries(stage_queue(3), a) # {}
                 \/ \E w \in Workers : item[w] = a /\ w[1] = 3 /\ worker[w] # "forward"}
<1>. USE Constants
<1>. SUFFICES ASSUME destroyed = {}
              PROVE  /\ forwarded[3] =
                          dropped[3] + processed + Cardinality(Forwarding)
                            + Cardinality({p \in DOMAIN queue[3] : queue[3][p] # NULL}) + AtSink
                     /\ Cardinality(Leaked) = dropped[3]
                     /\ tx - drops <= forwarded[3] + Cardinality(unfinished)
                                        + (IF generator = "publish" THEN 1 ELSE 0)
  BY DEF LastStageCounts, Forwarding, AtSink
<1>1. Counts /\ P!TypeOK
  BY DEF CountsInv, ShmInv
<1>2. Leaked = LeakedItems
  <2>1. ASSUME NEW a \in Items
        PROVE  LastPlaces(a) # {} <=> LastHolds(a)
    <3>1. \A k \in DOMAIN queue[2] : queue[2][k] = a => <<2, k>> \in LastPlaces(a)
      BY LastPlacesAre
    <3>2. \A w \in Workers : w[1] = 3 /\ item[w] = a => w \in LastPlaces(a)
      BY LastPlacesAre
    <3>3. \A k \in DOMAIN queue[3] : queue[3][k] = a => <<3, k>> \in LastPlaces(a)
      BY LastPlacesAre
    <3>4. sink_item = a => "sink" \in LastPlaces(a)
      BY LastPlacesAre
    <3>5. LastHolds(a) => LastPlaces(a) # {}
      BY <3>1, <3>2, <3>3, <3>4 DEF LastHolds, InLastHands, IsIn
    <3>6. ASSUME NEW h, h \in LastPlaces(a)
          PROVE  LastHolds(a)
      BY <3>6, LastPlacesAre DEF LastHolds, InLastHands, IsIn
    <3>. QED
      BY <3>5, <3>6
  <2>2. heap \subseteq Items
    BY <1>1, SameSets DEF P!TypeOK
  <2>. QED
    BY <2>1, <2>2 DEF Leaked, LeakedItems
<1>3. unfinished = Unfinished
  <2>1. ASSUME NEW a \in Items
        PROVE  Entries(2, a) # {} <=> IsIn(a, 2)
    BY DEF Entries, IsIn
  <2>2. \A a : a \in unfinished <=> a \in Unfinished
    BY <2>1, CountedSetsAre DEF CountedSets, InHands
  <2>. HIDE DEF unfinished
  <2>. QED
    BY <2>2
<1>4. Publishing <= (IF generator = "publish" THEN 1 ELSE 0)
  BY DEF ShmInv, HandsFull, Publishing
<1>5. Cardinality({p \in DOMAIN queue[3] : queue[3][p] # NULL}) = Cardinality(InSinkQueue)
  BY <1>1, SinkQueueCounts
<1>. HIDE DEF unfinished
<1>. QED
  BY <1>1, <1>2, <1>3, <1>4, <1>5, ShmFinite DEF Counts

\* Every item that the last stage has finished is on its way to the sink,
\* processed or dropped; those it dropped, and no others, are never freed
\* (mt-pipeline-shm.c:105-110, 200).
THEOREM LastStageAddsUp == ShmSpec => []LastStageCounts
BY ShmInvariance, LastInvariance, CountsInvariance, CountsAddUp, PTL

=============================================================================

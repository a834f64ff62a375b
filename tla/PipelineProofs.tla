--------------------------- MODULE PipelineProofs ---------------------------
(***************************************************************************)
(* The invariants of PipelineProps hold in every behaviour of Pipeline,    *)
(* for any number of stages, threads and items, any queue size and batch:  *)
(* first the control and the shutdown, then the items and the counts.      *)
(***************************************************************************)
EXTENDS PipelineProps, SequenceTheorems, FiniteSetTheorems, TLAPS

-----------------------------------------------------------------------------
(* The queue operations. *)

Entry == Items \cup {NULL}

LEMMA QueueIsSeq ==
  ASSUME TypeOK, NEW q \in Queues
  PROVE  /\ queue[q] \in Seq(Entry)
         /\ Len(queue[q]) \in Nat
         /\ DOMAIN queue[q] = 1 .. Len(queue[q])
         /\ \A k \in 1 .. Len(queue[q]) : queue[q][k] \in Entry
BY LenProperties, ElementOfSeq DEF TypeOK, Entry

\* enqueue adds one entry behind the others and leaves the other queues alone.
LEMMA EnqueueEntries ==
  ASSUME TypeOK, NEW q \in Queues, NEW x \in Entry, Enqueue(q, x)
  PROVE  /\ queue' \in [Queues -> Seq(Entry)]
         /\ \A r \in Queues : r # q => queue'[r] = queue[r]
         /\ Len(queue'[q]) = Len(queue[q]) + 1
         /\ DOMAIN queue'[q] = 1 .. Len(queue[q]) + 1
         /\ \A k \in 1 .. Len(queue[q]) : queue'[q][k] = queue[q][k]
         /\ queue'[q][Len(queue[q]) + 1] = x
<1>1. queue \in [Queues -> Seq(Entry)] /\ queue'[q] = Append(queue[q], x)
  BY DEF TypeOK, Entry, Enqueue
<1>2. /\ queue'[q] \in Seq(Entry)
      /\ Len(queue'[q]) = Len(queue[q]) + 1
      /\ \A k \in 1 .. Len(queue[q]) : queue'[q][k] = queue[q][k]
      /\ queue'[q][Len(queue[q]) + 1] = x
  BY <1>1, QueueIsSeq, AppendProperties
<1>3. DOMAIN queue'[q] = 1 .. Len(queue[q]) + 1
  BY <1>2, LenProperties
<1>4. queue' \in [Queues -> Seq(Entry)] /\ \A r \in Queues : r # q => queue'[r] = queue[r]
  BY <1>1, <1>2 DEF Enqueue
<1>. QED
  BY <1>2, <1>3, <1>4

\* dequeue takes the first entry, if there is one.
LEMMA DequeueEntries ==
  ASSUME TypeOK, NEW q \in Queues, Dequeue(q)
  PROVE  /\ queue' \in [Queues -> Seq(Entry)]
         /\ \A r \in Queues : r # q => queue'[r] = queue[r]
         /\ Front(q) \in Entry
         /\ queue[q] = <<>> => queue' = queue /\ Front(q) = NULL
         /\ queue[q] # <<>> =>
              /\ 1 \in DOMAIN queue[q] /\ Front(q) = queue[q][1]
              /\ Len(queue'[q]) = Len(queue[q]) - 1
              /\ DOMAIN queue'[q] = 1 .. Len(queue[q]) - 1
              /\ \A k \in 1 .. Len(queue[q]) - 1 : queue'[q][k] = queue[q][k + 1]
<1>1. /\ queue \in [Queues -> Seq(Entry)]
      /\ queue'[q] = IF queue[q] = <<>> THEN queue[q] ELSE Tail(queue[q])
      /\ \A r \in Queues : r # q => queue'[r] = queue[r]
  BY DEF TypeOK, Entry, Dequeue
<1>2. CASE queue[q] = <<>>
  BY <1>1, <1>2 DEF Dequeue, Front, Entry
<1>3. CASE queue[q] # <<>>
  <2>1. queue'[q] = Tail(queue[q])
    BY <1>1, <1>3
  <2>2. /\ queue'[q] \in Seq(Entry)
        /\ Len(queue'[q]) = Len(queue[q]) - 1
        /\ \A k \in 1 .. Len(queue'[q]) : queue'[q][k] = queue[q][k + 1]
        /\ Front(q) = queue[q][1] /\ Front(q) \in Entry
    BY <1>3, <2>1, QueueIsSeq, HeadTailProperties DEF Front
  <2>3. DOMAIN queue'[q] = 1 .. Len(queue[q]) - 1
    BY <2>2, LenProperties
  <2>4. 1 \in DOMAIN queue[q]
    BY <1>3, QueueIsSeq, EmptySeq
  <2>5. queue' \in [Queues -> Seq(Entry)]
    BY <1>1, <2>2 DEF Dequeue
  <2>. QED
    BY <1>1, <1>3, <2>2, <2>3, <2>4, <2>5
<1>. QED
  BY <1>2, <1>3

-----------------------------------------------------------------------------
(* Control: types, threads and the point main has reached. *)

\* The point main is at.
LEMMA MainPointsAre ==
  /\ \A p \in {"generator", "sink", "join generator", "join sink"} : <<p, 0>> \in MainPoints
  /\ \A p \in {"start", "threads", "stop", "join"}, s \in Stages : <<p, s>> \in MainPoints
  /\ \A q \in Queues : <<"destroy", q>> \in MainPoints
  /\ \A r \in {0, 1} : <<"return", r>> \in MainPoints
BY DEF MainPoints

LEMMA PhaseNow ==
  ASSUME NEW p, NEW n, main = <<p, n>>
  PROVE  /\ main[1] = p /\ main[2] = n
         /\ Stopping <=> p \in {"stop", "join", "destroy"} \/ (p = "return" /\ n = 0)
         /\ TearingDown <=> p = "destroy" \/ (p = "return" /\ n = 0)
BY DEF Stopping, TearingDown

LEMMA PhaseNext ==
  ASSUME NEW p, NEW n, main' = <<p, n>>
  PROVE  /\ main'[1] = p /\ main'[2] = n
         /\ Stopping' <=> p \in {"stop", "join", "destroy"} \/ (p = "return" /\ n = 0)
         /\ TearingDown' <=> p = "destroy" \/ (p = "return" /\ n = 0)
BY DEF Stopping, TearingDown

LEMMA ControlInit == Init => ControlInv
<1>. SUFFICES ASSUME Init PROVE ControlInv
  OBVIOUS
<1>1. <<NULL>> \in Seq(Entry)
  BY DEF Entry
<1>2. main \in MainPoints
  BY DEF Init, MainPoints
<1>3. TypeOK
  BY <1>1, <1>2, PipelineAssumption DEF Init, TypeOK, Entry
<1>. QED
  BY <1>3 DEF Init, ControlInv, JoinedThreadsEnded, StartedStagesRun, BatchFits, Stopping, TearingDown

LEMMA ControlGenerator ==
  ASSUME ControlInv, Generator
  PROVE  ControlInv'
<1>1. CASE GeneratorBatch
  <2>1. TypeOK' /\ BatchFits'
    BY <1>1, PipelineAssumption DEF GeneratorBatch, ControlInv, TypeOK, items, counts, BatchFits
  <2>2. JoinedThreadsEnded' /\ StartedStagesRun'
    BY <1>1 DEF GeneratorBatch, ControlInv, items, counts, JoinedThreadsEnded, StartedStagesRun,
                Stopping, TearingDown
  <2>. QED
    BY <2>1, <2>2 DEF ControlInv
<1>2. CASE GenerateItem
  <2>1. tx \in Items /\ i \in 0 .. BatchSize - 1
    BY <1>2, PipelineAssumption DEF GenerateItem, MoreInBatch, ControlInv, TypeOK, BatchFits, Items
  <2>2. queue' \in [Queues -> Seq(Items \cup {NULL})] /\ heap' \in SUBSET Items
    <3>1. CASE HasRoom(0)
      <4>1. 0 \in Queues /\ tx \in Entry /\ Enqueue(0, tx) /\ heap' = heap \cup {tx}
        BY <1>2, <2>1, <3>1, PipelineAssumption DEF GenerateItem, Entry, Queues
      <4>2. queue' \in [Queues -> Seq(Entry)]
        BY <4>1, EnqueueEntries DEF ControlInv
      <4>. QED
        BY <2>1, <4>1, <4>2 DEF ControlInv, TypeOK, Entry
    <3>2. CASE ~HasRoom(0)
      BY <1>2, <3>2 DEF GenerateItem, ControlInv, TypeOK
    <3>. QED
      BY <3>1, <3>2
  <2>3. TypeOK' /\ BatchFits'
    BY <1>2, <2>1, <2>2, PipelineAssumption
       DEF GenerateItem, control, threads, ControlInv, TypeOK, BatchFits
  <2>4. JoinedThreadsEnded' /\ StartedStagesRun'
    BY <1>2 DEF GenerateItem, control, threads, ControlInv, JoinedThreadsEnded, StartedStagesRun,
                Stopping, TearingDown
  <2>. QED
    BY <2>3, <2>4 DEF ControlInv
<1>3. CASE GeneratorBatchEnd \/ GeneratorExit
  <2>1. TypeOK' /\ BatchFits'
    BY <1>3 DEF GeneratorBatchEnd, GeneratorExit, ControlInv, TypeOK, items, counts, BatchFits
  <2>2. JoinedThreadsEnded' /\ StartedStagesRun'
    BY <1>3 DEF GeneratorBatchEnd, GeneratorExit, ControlInv, JoinedThreadsEnded,
                StartedStagesRun, Stopping, TearingDown
  <2>. QED
    BY <2>1, <2>2 DEF ControlInv
<1>. QED
  BY <1>1, <1>2, <1>3 DEF Generator

\* A worker ends only when main has reset its flag, after the generator and
\* the sink have ended.
LEMMA ControlWorker ==
  ASSUME ControlInv, NEW w \in Workers, Worker(w)
  PROVE  ControlInv'
<1>0. w[1] \in Stages /\ w[1] - 1 \in Queues /\ w[1] \in Queues
  BY PipelineAssumption DEF Workers, Stages, Queues
<1>1. ~TearingDown
  <2>1. worker[w] # "exited"
    BY DEF Worker, WorkerCheck, WorkerPoll, WorkerProcess, WorkerForward, WorkerDrop, WorkerAt
  <2>. QED
    BY <2>1 DEF ControlInv, JoinedThreadsEnded
<1>2. CASE WorkerCheck(w)
  <2>1. TypeOK' /\ BatchFits'
    BY <1>2 DEF WorkerCheck, WorkerGoto, ControlInv, TypeOK, items, counts, BatchFits
  <2>2. JoinedThreadsEnded' /\ StartedStagesRun'
    BY <1>2 DEF WorkerCheck, WorkerAt, WorkerGoto, ControlInv, TypeOK, JoinedThreadsEnded,
                StartedStagesRun, Stopping, TearingDown
  <2>. QED
    BY <2>1, <2>2 DEF ControlInv
<1>3. CASE WorkerPoll(w)
  <2>1. queue' \in [Queues -> Seq(Entry)] /\ Front(w[1] - 1) \in Entry
    BY <1>0, <1>3, DequeueEntries DEF WorkerPoll, input_queue, ControlInv
  <2>2. TypeOK' /\ BatchFits'
    BY <1>3, <2>1 DEF WorkerPoll, WorkerGoto, AfterPoll, input_queue, ControlInv, TypeOK, items,
                      counts, BatchFits, Entry
  <2>3. JoinedThreadsEnded' /\ StartedStagesRun'
    BY <1>1, <1>3 DEF WorkerPoll, WorkerAt, WorkerGoto, AfterPoll, ControlInv, TypeOK,
                      JoinedThreadsEnded, StartedStagesRun, Stopping, TearingDown
  <2>. QED
    BY <2>2, <2>3 DEF ControlInv
<1>4. CASE WorkerProcess(w)
  <2>1. TypeOK' /\ BatchFits'
    BY <1>0, <1>4 DEF WorkerProcess, WorkerGoto, ControlInv, TypeOK, counts, BatchFits
  <2>2. JoinedThreadsEnded' /\ StartedStagesRun'
    BY <1>1, <1>4 DEF WorkerProcess, WorkerAt, WorkerGoto, ControlInv, TypeOK,
                      JoinedThreadsEnded, StartedStagesRun, Stopping, TearingDown
  <2>. QED
    BY <2>1, <2>2 DEF ControlInv
<1>5. CASE WorkerForward(w)
  <2>1. queue' \in [Queues -> Seq(Entry)]
    <3>1. item[w] \in Entry
      BY DEF ControlInv, TypeOK, Entry
    <3>. QED
      BY <1>0, <1>5, <3>1, EnqueueEntries DEF WorkerForward, output_queue, ControlInv
  <2>2. TypeOK' /\ BatchFits'
    BY <1>0, <1>5, <2>1 DEF WorkerForward, WorkerGoto, ControlInv, TypeOK, items, BatchFits, Entry
  <2>3. JoinedThreadsEnded' /\ StartedStagesRun'
    BY <1>1, <1>5 DEF WorkerForward, WorkerAt, WorkerGoto, ControlInv, TypeOK,
                      JoinedThreadsEnded, StartedStagesRun, Stopping, TearingDown
  <2>. QED
    BY <2>2, <2>3 DEF ControlInv
<1>6. CASE WorkerDrop(w)
  <2>1. TypeOK' /\ BatchFits'
    BY <1>0, <1>6 DEF WorkerDrop, WorkerGoto, ControlInv, TypeOK, BatchFits
  <2>2. JoinedThreadsEnded' /\ StartedStagesRun'
    BY <1>1, <1>6 DEF WorkerDrop, WorkerAt, WorkerGoto, ControlInv, TypeOK,
                      JoinedThreadsEnded, StartedStagesRun, Stopping, TearingDown
  <2>. QED
    BY <2>1, <2>2 DEF ControlInv
<1>. QED
  BY <1>2, <1>3, <1>4, <1>5, <1>6 DEF Worker

LEMMA ControlSink ==
  ASSUME ControlInv, Sink
  PROVE  ControlInv'
<1>1. ~Stopping
  BY DEF Sink, SinkCheck, SinkPoll, SinkConsume, ControlInv, JoinedThreadsEnded
<1>2. CASE SinkCheck
  <2>1. TypeOK' /\ BatchFits'
    BY <1>2 DEF SinkCheck, ControlInv, TypeOK, items, counts, BatchFits
  <2>2. JoinedThreadsEnded' /\ StartedStagesRun'
    BY <1>1, <1>2 DEF SinkCheck, ControlInv, JoinedThreadsEnded, StartedStagesRun, Stopping, TearingDown
  <2>. QED
    BY <2>1, <2>2 DEF ControlInv
<1>3. CASE SinkPoll
  <2>1. queue' \in [Queues -> Seq(Entry)] /\ Front(NStages) \in Entry
    BY <1>3, DequeueEntries, PipelineAssumption DEF SinkPoll, ControlInv, Queues
  <2>2. TypeOK' /\ BatchFits'
    BY <1>3, <2>1 DEF SinkPoll, ControlInv, TypeOK, items, counts, BatchFits, Entry
  <2>3. JoinedThreadsEnded' /\ StartedStagesRun'
    BY <1>1, <1>3 DEF SinkPoll, ControlInv, JoinedThreadsEnded, StartedStagesRun, Stopping, TearingDown
  <2>. QED
    BY <2>2, <2>3 DEF ControlInv
<1>4. CASE SinkConsume
  <2>1. TypeOK' /\ BatchFits'
    BY <1>4 DEF SinkConsume, ControlInv, TypeOK, BatchFits
  <2>2. JoinedThreadsEnded' /\ StartedStagesRun'
    BY <1>1, <1>4 DEF SinkConsume, ControlInv, JoinedThreadsEnded, StartedStagesRun, Stopping,
                      TearingDown
  <2>. QED
    BY <2>1, <2>2 DEF ControlInv
<1>. QED
  BY <1>2, <1>3, <1>4 DEF Sink

\* main creates the threads, each stage's after setting its flag.
LEMMA ControlStart ==
  ASSUME ControlInv,
         \/ CreateGenerator \/ CreateSink
         \/ \E s \in Stages : StartStage(s) \/ StageStarted(s)
         \/ \E w \in Workers : CreateWorker(w)
  PROVE  ControlInv'
<1>1. CASE CreateGenerator
  <2>1. main = <<"generator", 0>> /\ main' = <<"sink", 0>>
    BY <1>1 DEF CreateGenerator, MainAt, MainGoto
  <2>2. TypeOK' /\ BatchFits'
    BY <1>1, <2>1, MainPointsAre
       DEF CreateGenerator, LeavesData, ControlInv, TypeOK, items, BatchFits
  <2>3. JoinedThreadsEnded'
    BY <1>1, PhaseNow, PhaseNext, <2>1 DEF CreateGenerator, ControlInv, JoinedThreadsEnded
  <2>4. StartedStagesRun'
    BY <1>1, PhaseNow, PhaseNext, <2>1 DEF CreateGenerator, ControlInv, StartedStagesRun
  <2>. QED
    BY <2>2, <2>3, <2>4 DEF ControlInv
<1>2. CASE CreateSink
  <2>1. main = <<"sink", 0>> /\ main' = <<"start", 1>>
    BY <1>2 DEF CreateSink, MainAt, MainGoto
  <2>2. TypeOK' /\ BatchFits'
    <3>1. 1 \in Stages
      BY PipelineAssumption DEF Stages
    <3>2. main' \in MainPoints
      BY <2>1, <3>1, MainPointsAre
    <3>. QED
      BY <1>2, <3>2 DEF CreateSink, LeavesData, ControlInv, TypeOK, items, BatchFits
  <2>3. JoinedThreadsEnded'
    BY <1>2, PhaseNow, PhaseNext, <2>1 DEF CreateSink, ControlInv, JoinedThreadsEnded
  <2>4. StartedStagesRun'
    BY <1>2, PhaseNow, PhaseNext, <2>1 DEF CreateSink, ControlInv, StartedStagesRun
  <2>. QED
    BY <2>2, <2>3, <2>4 DEF ControlInv
<1>3. ASSUME NEW s \in Stages, StartStage(s)
      PROVE  ControlInv'
  <2>1. main = <<"start", s>> /\ main' = <<"threads", s>>
    BY <1>3 DEF StartStage, MainAt, MainGoto
  <2>2. TypeOK' /\ BatchFits'
    BY <1>3, <2>1, MainPointsAre
       DEF StartStage, SetRunning, LeavesData, ControlInv, TypeOK, items, threads, BatchFits
  <2>3. JoinedThreadsEnded'
    BY <1>3, PhaseNow, PhaseNext, <2>1 DEF StartStage, threads, ControlInv, JoinedThreadsEnded
  <2>4. StartedStagesRun'
    BY <1>3, PhaseNow, PhaseNext, <2>1
       DEF StartStage, SetRunning, threads, ControlInv, TypeOK, StartedStagesRun
  <2>. QED
    BY <2>2, <2>3, <2>4 DEF ControlInv
<1>4. ASSUME NEW s \in Stages, StageStarted(s)
      PROVE  ControlInv'
  <2>0. s + 1 \in Stages \/ ~(s < NStages)
    BY PipelineAssumption DEF Stages
  <2>1. \/ main = <<"threads", s>> /\ s + 1 \in Stages /\ main' = <<"start", s + 1>>
        \/ main = <<"threads", s>> /\ main' = <<"join generator", 0>>
    BY <1>4, <2>0 DEF StageStarted, MainAt, MainGoto
  <2>2. TypeOK' /\ BatchFits'
    <3>1. main' \in MainPoints
      BY <2>1, MainPointsAre
    <3>. QED
      BY <1>4, <3>1 DEF StageStarted, LeavesData, ControlInv, TypeOK, items, threads, BatchFits
  <2>3. main'[1] \in {"start", "join generator"} /\ ~Stopping' /\ ~TearingDown'
    <3>1. CASE main' = <<"start", s + 1>>
      BY <3>1, PhaseNext
    <3>2. CASE main' = <<"join generator", 0>>
      BY <3>2, PhaseNext
    <3>. QED
      BY <2>1, <3>1, <3>2
  <2>4. /\ ~Stopping /\ ~TearingDown /\ ~Stopping' /\ ~TearingDown'
        /\ main'[1] \notin {"join", "join sink", "threads"}
    <3>0. main = <<"threads", s>>
      BY <1>4 DEF StageStarted, MainAt
    <3>1. ~Stopping /\ ~TearingDown
      BY <3>0, PhaseNow
    <3>. QED
      BY <2>3, <3>1
  <2>5. JoinedThreadsEnded'
    BY <1>4, <2>4 DEF StageStarted, threads, ControlInv, JoinedThreadsEnded
  <2>6. StartedStagesRun'
    BY <1>4, <2>4 DEF StageStarted, threads, ControlInv, StartedStagesRun
  <2>. QED
    BY <2>2, <2>5, <2>6 DEF ControlInv
<1>5. ASSUME NEW w \in Workers, CreateWorker(w)
      PROVE  ControlInv'
  <2>1. TypeOK' /\ BatchFits'
    BY <1>5 DEF CreateWorker, WorkerGoto, LeavesData, ControlInv, TypeOK, items, BatchFits
  <2>2. JoinedThreadsEnded' /\ StartedStagesRun'
    BY <1>5 DEF CreateWorker, WorkerGoto, MainAt, ControlInv, TypeOK, JoinedThreadsEnded,
                StartedStagesRun, Stopping, TearingDown
  <2>. QED
    BY <2>1, <2>2 DEF ControlInv
<1>. QED
  BY <1>1, <1>2, <1>3, <1>4, <1>5

\* main joins the generator and the sink, then stops and joins the stages.
LEMMA ControlStop ==
  ASSUME ControlInv,
         JoinGenerator \/ JoinSink \/ \E s \in Stages : StopStage(s) \/ JoinStage(s)
  PROVE  ControlInv'
<1>1. CASE JoinGenerator
  <2>1. main = <<"join generator", 0>> /\ main' = <<"join sink", 0>>
    BY <1>1 DEF JoinGenerator, MainAt, MainGoto
  <2>2. TypeOK' /\ BatchFits'
    BY <1>1, <2>1, MainPointsAre
       DEF JoinGenerator, LeavesData, ControlInv, TypeOK, items, threads, BatchFits
  <2>3. JoinedThreadsEnded'
    BY <1>1, PhaseNow, PhaseNext, <2>1 DEF JoinGenerator, threads, ControlInv, JoinedThreadsEnded
  <2>4. StartedStagesRun'
    BY <1>1, PhaseNow, PhaseNext, <2>1 DEF JoinGenerator, threads, ControlInv, StartedStagesRun
  <2>. QED
    BY <2>2, <2>3, <2>4 DEF ControlInv
<1>2. CASE JoinSink
  <2>1. main = <<"join sink", 0>> /\ main' = <<"stop", 1>>
    BY <1>2 DEF JoinSink, MainAt, MainGoto
  <2>2. TypeOK' /\ BatchFits'
    <3>1. 1 \in Stages
      BY PipelineAssumption DEF Stages
    <3>2. main' \in MainPoints
      BY <2>1, <3>1, MainPointsAre
    <3>. QED
      BY <1>2, <3>2 DEF JoinSink, LeavesData, ControlInv, TypeOK, items, threads, BatchFits
  <2>3. JoinedThreadsEnded'
    BY <1>2, PhaseNow, PhaseNext, <2>1 DEF JoinSink, threads, ControlInv, JoinedThreadsEnded
  <2>4. StartedStagesRun'
    BY <1>2, PhaseNow, PhaseNext, <2>1 DEF JoinSink, threads, ControlInv, StartedStagesRun
  <2>. QED
    BY <2>2, <2>3, <2>4 DEF ControlInv
<1>3. ASSUME NEW s \in Stages, StopStage(s)
      PROVE  ControlInv'
  <2>0. s + 1 \in Stages \/ ~(s < NStages)
    BY PipelineAssumption DEF Stages
  <2>1. \/ main = <<"stop", s>> /\ s + 1 \in Stages /\ main' = <<"stop", s + 1>>
        \/ main = <<"stop", s>> /\ main' = <<"join", 1>>
    BY <1>3, <2>0 DEF StopStage, MainAt, MainGoto
  <2>2. TypeOK' /\ BatchFits'
    <3>1. 1 \in Stages
      BY PipelineAssumption DEF Stages
    <3>2. main' \in MainPoints
      BY <2>1, <3>1, MainPointsAre
    <3>. QED
      BY <1>3, <3>2 DEF StopStage, SetRunning, LeavesData, ControlInv, TypeOK, items, threads,
                        BatchFits
  <2>3. Stopping /\ ~TearingDown /\ Stopping' /\ ~TearingDown'
    BY <2>1, PhaseNow, PhaseNext
  <2>4. /\ main'[1] = "join" => main'[2] = 1
        /\ main'[1] # "threads"
    BY <2>1
  <2>5. \A w \in Workers : ~(w[1] < 1)
    BY DEF Workers, Stages
  <2>6. JoinedThreadsEnded'
    BY <1>3, <2>3, <2>4, <2>5 DEF StopStage, threads, ControlInv, JoinedThreadsEnded
  <2>7. StartedStagesRun'
    BY <1>3, <2>3, <2>4 DEF StopStage, threads, ControlInv, StartedStagesRun
  <2>. QED
    BY <2>2, <2>6, <2>7 DEF ControlInv
<1>4. ASSUME NEW s \in Stages, JoinStage(s)
      PROVE  ControlInv'
  <2>0. s + 1 \in Stages \/ (s = NStages /\ ~(s < NStages))
    BY PipelineAssumption DEF Stages
  <2>1. \/ main = <<"join", s>> /\ s + 1 \in Stages /\ main' = <<"join", s + 1>>
        \/ main = <<"join", s>> /\ s = NStages /\ main' = <<"destroy", 0>>
    BY <1>4, <2>0, PipelineAssumption DEF JoinStage, MainAt, MainGoto, Stages
  <2>2. TypeOK' /\ BatchFits'
    <3>1. 0 \in Queues
      BY PipelineAssumption DEF Queues
    <3>2. main' \in MainPoints
      BY <2>1, <3>1, MainPointsAre
    <3>. QED
      BY <1>4, <3>2 DEF JoinStage, LeavesData, ControlInv, TypeOK, items, threads, BatchFits
  <2>3. /\ main[1] = "join" /\ main[2] = s
        /\ Stopping /\ ~TearingDown /\ Stopping'
    BY <2>1, PhaseNow, PhaseNext
  <2>4. /\ main'[1] = "join" => main'[2] = s + 1
        /\ TearingDown' => s = NStages
        /\ main'[1] # "threads"
    BY <2>1, PhaseNext
  <2>5. ASSUME NEW w \in Workers, w[1] < s + 1
        PROVE  worker[w] = "exited"
    <3>1. CASE w[1] = s
      BY <1>4, <3>1 DEF JoinStage, AllExited, Workers
    <3>2. CASE w[1] < s
      BY <2>3, <3>2 DEF ControlInv, JoinedThreadsEnded
    <3>. QED
      BY <2>5, <3>1, <3>2 DEF Workers, Stages
  <2>6. JoinedThreadsEnded'
    <3>1. s = NStages => \A w \in Workers : w[1] < s + 1
      BY PipelineAssumption DEF Workers, Stages
    <3>. QED
      BY <1>4, <2>3, <2>4, <2>5, <3>1 DEF JoinStage, threads, ControlInv, JoinedThreadsEnded
  <2>7. StartedStagesRun'
    BY <1>4, <2>3, <2>4 DEF JoinStage, threads, ControlInv, StartedStagesRun
  <2>. QED
    BY <2>2, <2>6, <2>7 DEF ControlInv
<1>. QED
  BY <1>1, <1>2, <1>3, <1>4

LEMMA ControlDestroy ==
  ASSUME ControlInv, NEW q \in Queues, DestroyQueue(q)
  PROVE  ControlInv'
<1>0. q + 1 \in Queues \/ ~(q < NStages)
  BY PipelineAssumption DEF Queues
<1>1. \/ main = <<"destroy", q>> /\ q + 1 \in Queues /\ main' = <<"destroy", q + 1>>
      \/ main = <<"destroy", q>> /\ main' = <<"return", 0>>
  BY <1>0 DEF DestroyQueue, MainAt, MainGoto
<1>2. main' \in MainPoints
  BY <1>1, MainPointsAre
<1>3. drained' \in Nat
  <2>1. DOMAIN queue[q] = 1 .. Len(queue[q]) /\ Len(queue[q]) \in Nat
    BY QueueIsSeq DEF ControlInv
  <2>2. IsFiniteSet(1 .. Len(queue[q]))
    BY <2>1, FS_Interval
  <2>3. Cardinality({p \in DOMAIN queue[q] : queue[q][p] # NULL}) \in Nat
    BY <2>1, <2>2, FS_Subset, FS_CardinalityType
  <2>. QED
    BY <2>3 DEF DestroyQueue, ControlInv, TypeOK
<1>4. queue' \in [Queues -> Seq(Items \cup {NULL})]
  BY DEF DestroyQueue, ControlInv, TypeOK
<1>5. TypeOK' /\ BatchFits'
  BY <1>2, <1>3, <1>4 DEF DestroyQueue, LeavesData, ControlInv, TypeOK, items, threads, BatchFits
<1>6. Stopping /\ TearingDown /\ Stopping' /\ TearingDown'
  BY <1>1, PhaseNow, PhaseNext
<1>7. main'[1] \notin {"join sink", "join", "threads"}
  <2>1. main'[1] \in {"destroy", "return"}
    BY <1>1, PhaseNext
  <2>. QED
    BY <2>1
<1>8. JoinedThreadsEnded'
  BY <1>6, <1>7 DEF DestroyQueue, threads, ControlInv, JoinedThreadsEnded
<1>9. StartedStagesRun'
  BY <1>6, <1>7 DEF DestroyQueue, threads, ControlInv, StartedStagesRun
<1>. QED
  BY <1>5, <1>8, <1>9 DEF ControlInv

\* main returns early, before it has stopped anything.
LEMMA ControlFails ==
  ASSUME ControlInv, CreateFails
  PROVE  ControlInv'
<1>1. main' = <<"return", 1>>
  BY DEF CreateFails, MainGoto
<1>2. ~Stopping /\ ~TearingDown /\ ~Stopping' /\ ~TearingDown'
  BY <1>1, PhaseNow, PhaseNext DEF CreateFails, MainAt
<1>3. TypeOK' /\ BatchFits'
  BY <1>1, MainPointsAre DEF CreateFails, LeavesData, ControlInv, TypeOK, items, threads, BatchFits
<1>4. main'[1] \notin {"join sink", "join", "threads"}
  BY <1>1
<1>5. JoinedThreadsEnded'
  BY <1>2, <1>4 DEF CreateFails, threads, ControlInv, JoinedThreadsEnded
<1>6. StartedStagesRun'
  BY <1>2, <1>4 DEF CreateFails, threads, ControlInv, StartedStagesRun
<1>. QED
  BY <1>3, <1>5, <1>6 DEF ControlInv

LEMMA ControlUnchanged ==
  ASSUME ControlInv, UNCHANGED <<queue, destroyed, items, counts, is_running, control,
                                 i, item, sink_item>>,
         expired' \in SUBSET {"generator", "sink"}
  PROVE  ControlInv'
BY DEF items, counts, control, threads, ControlInv, TypeOK, JoinedThreadsEnded,
       StartedStagesRun, BatchFits, Stopping, TearingDown

LEMMA ControlExpire ==
  ASSUME ControlInv, NEW thread \in {"generator", "sink"}, Expire(thread)
  PROVE  ControlInv'
BY ControlUnchanged DEF Expire, ControlInv, TypeOK

LEMMA ControlMain ==
  ASSUME ControlInv, Main
  PROVE  ControlInv'
BY ControlStart, ControlStop, ControlDestroy DEF Main

LEMMA ControlStep == ControlInv /\ [Next]_vars => ControlInv'
<1>1. ASSUME ControlInv, UNCHANGED vars
      PROVE  ControlInv'
  BY <1>1, ControlUnchanged DEF vars, ControlInv, TypeOK
<1>. QED
  BY <1>1, ControlMain, ControlFails, ControlGenerator, ControlSink, ControlWorker, ControlExpire
     DEF Next, Terminated

LEMMA SinkStep == SinkNotBefore /\ [Next]_vars => SinkNotBefore'
<1>. SUFFICES ASSUME SinkNotBefore, [Next]_vars, main'[1] \in {"generator", "sink"}
              PROVE  sinker' = "none"
  BY DEF SinkNotBefore
<1>1. CASE Main
  <2>1. CASE CreateGenerator
    BY <2>1 DEF CreateGenerator, MainAt, SinkNotBefore
  <2>2. CASE CreateSink \/ JoinGenerator \/ JoinSink
    <3>1. CASE main' = <<"start", 1>>
      BY <3>1, PhaseNext
    <3>2. CASE main' = <<"join sink", 0>>
      BY <3>2, PhaseNext
    <3>3. CASE main' = <<"stop", 1>>
      BY <3>3, PhaseNext
    <3>. QED
      BY <2>2, <3>1, <3>2, <3>3 DEF CreateSink, JoinGenerator, JoinSink, MainGoto
  <2>3. ASSUME NEW s \in Stages, StartStage(s)
        PROVE  FALSE
    BY <2>3 DEF StartStage, MainGoto
  <2>4. ASSUME NEW s \in Stages, StageStarted(s) \/ StopStage(s) \/ JoinStage(s)
        PROVE  FALSE
    <3>1. PICK p \in {"start", "join generator", "stop", "join", "destroy"}, n \in Int :
            main' = <<p, n>>
      <4>1. s + 1 \in Int /\ 0 \in Int /\ 1 \in Int
        BY DEF Stages
      <4>. QED
        BY <2>4, <4>1 DEF StageStarted, StopStage, JoinStage, MainGoto
    <3>. QED
      BY <3>1, PhaseNext
  <2>5. ASSUME NEW w \in Workers, CreateWorker(w)
        PROVE  sinker' = "none"
    BY <2>5 DEF CreateWorker, SinkNotBefore
  <2>6. ASSUME NEW q \in Queues, DestroyQueue(q)
        PROVE  FALSE
    <3>1. PICK p \in {"destroy", "return"}, n \in Int : main' = <<p, n>>
      <4>1. q + 1 \in Int /\ 0 \in Int
        BY DEF Queues
      <4>. QED
        BY <2>6, <4>1 DEF DestroyQueue, MainGoto
    <3>. QED
      BY <3>1, PhaseNext
  <2>. QED
    BY <1>1, <2>1, <2>2, <2>3, <2>4, <2>5, <2>6 DEF Main
<1>2. CASE CreateFails
  BY <1>2 DEF CreateFails, MainGoto
<1>3. CASE Generator
  BY <1>3 DEF Generator, GeneratorBatch, GenerateItem, GeneratorBatchEnd, GeneratorExit,
              control, threads, SinkNotBefore
<1>4. CASE Sink
  BY <1>4 DEF Sink, SinkCheck, SinkPoll, SinkConsume, SinkNotBefore
<1>5. ASSUME NEW w \in Workers, Worker(w)
      PROVE  sinker' = "none"
  BY <1>5 DEF Worker, WorkerCheck, WorkerPoll, WorkerProcess, WorkerForward, WorkerDrop, SinkNotBefore
<1>6. ASSUME NEW thread \in {"generator", "sink"}, Expire(thread)
      PROVE  sinker' = "none"
  BY <1>6 DEF Expire, control, threads, SinkNotBefore
<1>7. CASE UNCHANGED vars
  BY <1>7 DEF vars, control, threads, SinkNotBefore
<1>. QED
  BY <1>1, <1>2, <1>3, <1>4, <1>5, <1>6, <1>7 DEF Next, Terminated

LEMMA SinkInvariance == Spec => []SinkNotBefore
<1>1. Init => SinkNotBefore
  BY DEF Init, SinkNotBefore
<1>. QED
  BY <1>1, SinkStep, PTL DEF Spec

LEMMA ControlInvariance == Spec => []ControlInv
BY ControlInit, ControlStep, PTL DEF Spec

\* An entry is added where there is room; dequeue and destroy_queue take away.
LEMMA QueuesFitStep == ControlInv /\ QueuesFit /\ [Next]_vars => QueuesFit'
<1>. SUFFICES ASSUME ControlInv, QueuesFit, [Next]_vars
              PROVE  QueuesFit'
  OBVIOUS
<1>0. TypeOK /\ Capacity \in Nat /\ Capacity >= 2
  BY PipelineAssumption DEF ControlInv
<1>1. ASSUME NEW q \in Queues, NEW x \in Entry, Enqueue(q, x), HasRoom(q)
      PROVE  QueuesFit'
  <2>1. Len(queue[q]) \in Nat /\ Len(queue[q]) < Capacity - 1
    BY <1>0, <1>1, QueueIsSeq DEF HasRoom
  <2>2. Len(queue'[q]) = Len(queue[q]) + 1 /\ \A r \in Queues : r # q => queue'[r] = queue[r]
    BY <1>0, <1>1, EnqueueEntries
  <2>. QED
    BY <1>0, <2>1, <2>2 DEF QueuesFit
<1>2. ASSUME NEW q \in Queues, Dequeue(q)
      PROVE  QueuesFit'
  <2>1. Len(queue[q]) \in Nat
    BY <1>0, QueueIsSeq
  <2>2. /\ \A r \in Queues : r # q => queue'[r] = queue[r]
        /\ queue' = queue \/ Len(queue'[q]) = Len(queue[q]) - 1
    BY <1>0, <1>2, DequeueEntries
  <2>. QED
    BY <1>0, <2>1, <2>2 DEF QueuesFit
<1>3. CASE queue' = queue
  BY <1>3 DEF QueuesFit
<1>4. ASSUME NEW q \in Queues, DestroyQueue(q)
      PROVE  QueuesFit'
  <2>1. /\ \A r \in Queues : r # q => queue'[r] = queue[r]
        /\ queue'[q] = <<>>
    BY <1>0, <1>4 DEF DestroyQueue, TypeOK
  <2>2. Len(queue'[q]) = 0
    BY <2>1, EmptySeq
  <2>. QED
    BY <1>0, <2>1, <2>2 DEF QueuesFit
<1>5. CASE GenerateItem
  <2>1. tx \in Entry /\ 0 \in Queues
    BY <1>5, PipelineAssumption
       DEF GenerateItem, MoreInBatch, ControlInv, TypeOK, BatchFits, Items, Entry, Queues
  <2>2. (HasRoom(0) /\ Enqueue(0, tx)) \/ queue' = queue
    BY <1>5 DEF GenerateItem
  <2>. QED
    BY <1>1, <1>3, <2>1, <2>2
<1>6. ASSUME NEW w \in Workers, WorkerPoll(w) \/ WorkerForward(w)
      PROVE  QueuesFit'
  <2>1. input_queue(w[1]) \in Queues /\ output_queue(w[1]) \in Queues /\ item[w] \in Entry
    BY <1>0, PipelineAssumption
       DEF input_queue, output_queue, Workers, Stages, Queues, TypeOK, Entry
  <2>. QED
    BY <1>1, <1>2, <1>6, <2>1 DEF WorkerPoll, WorkerForward
<1>7. CASE SinkPoll
  <2>1. NStages \in Queues
    BY PipelineAssumption DEF Queues
  <2>. QED
    BY <1>2, <1>7, <2>1 DEF SinkPoll
<1>8. CASE Generator \/ Sink \/ \E w \in Workers : Worker(w)
  BY <1>3, <1>5, <1>6, <1>7, <1>8
     DEF Generator, GeneratorBatch, GeneratorBatchEnd, GeneratorExit, Sink, SinkCheck, SinkConsume,
         Worker, WorkerCheck, WorkerProcess, WorkerDrop
<1>9. CASE Main
  BY <1>3, <1>4, <1>9
     DEF Main, CreateGenerator, CreateSink, StartStage, StageStarted, CreateWorker, JoinGenerator,
         JoinSink, StopStage, JoinStage
<1>10. CASE CreateFails \/ (\E thread \in {"generator", "sink"} : Expire(thread)) \/ UNCHANGED vars
  BY <1>3, <1>10 DEF CreateFails, Expire, vars
<1>. QED
  BY <1>8, <1>9, <1>10 DEF Next, Terminated

LEMMA QueuesFitInit == Init => QueuesFit
<1>1. Len(<<NULL>>) = 1
  OBVIOUS
<1>. QED
  BY <1>1, PipelineAssumption DEF Init, QueuesFit

\* Every variable has its type in every reachable state, and no queue has more
\* entries than its ring buffer can hold (pipeline-app.c, queue.h:107-109).
THEOREM PipelineTypes == Spec => [](TypeOK /\ QueuesFit)
<1>1. ControlInv => TypeOK
  BY DEF ControlInv
<1>2. Spec => []QueuesFit
  BY QueuesFitInit, QueuesFitStep, ControlInvariance, PTL DEF Spec
<1>. QED
  BY <1>1, <1>2, ControlInvariance, PTL

LEMMA ShutdownInOrder ==
  ASSUME ControlInv
  PROVE  StagesRunToTheEnd /\ QueuesOutliveUsers
<1>1. StagesRunToTheEnd
  BY DEF ControlInv, JoinedThreadsEnded, StartedStagesRun, StagesRunToTheEnd
<1>2. ASSUME destroyed # {}
      PROVE  QueuesOutliveUsers
  <2>1. /\ generator = "exited" /\ sinker = "exited"
        /\ \A w \in Workers : worker[w] = "exited"
    BY <1>2 DEF ControlInv, JoinedThreadsEnded, Stopping, TearingDown
  <2>. QED
    BY <2>1 DEF QueuesOutliveUsers
<1>. QED
  BY <1>1, <1>2 DEF QueuesOutliveUsers

\* No thread of a stage ends before the generator and the sink have: only
\* main resets the flags, and it joins those two first (pipeline-app.c:323-327).
THEOREM NoStageGivesUp == Spec => []StagesRunToTheEnd
BY ControlInvariance, ShutdownInOrder, PTL

\* No thread operates on a queue that main has freed: main has joined every
\* thread before it frees the first (pipeline-app.c:323-352).
THEOREM NoQueueFreedInUse == Spec => []QueuesOutliveUsers
BY ControlInvariance, ShutdownInOrder, PTL

-----------------------------------------------------------------------------
(* Where the items are: in one place each, allocated exactly while they are *)
(* there, with the stamps of the stages they have passed.  First what the   *)
(* queue operations do to the set of items in each queue.                   *)

LEMMA ItemsNotNull == NULL \notin Items /\ Items \subseteq Nat
BY PipelineAssumption DEF Items

LEMMA EnqueueIsIn ==
  ASSUME TypeOK, NEW q \in Queues, NEW x \in Items, Enqueue(q, x)
  PROVE  \A r \in Queues, y \in Items : IsIn(y, r)' <=> IsIn(y, r) \/ (r = q /\ y = x)
<1>. DEFINE n == Len(queue[q])
<1>1. /\ n \in Nat /\ DOMAIN queue[q] = 1 .. n /\ DOMAIN queue'[q] = 1 .. n + 1
      /\ \A k \in 1 .. n : queue'[q][k] = queue[q][k]
      /\ queue'[q][n + 1] = x
      /\ \A r \in Queues : r # q => queue'[r] = queue[r]
  BY QueueIsSeq, EnqueueEntries DEF Entry
<1>2. 1 .. n + 1 = (1 .. n) \cup {n + 1}
  BY <1>1
<1>3. ASSUME NEW r \in Queues, NEW y \in Items, r # q
      PROVE  IsIn(y, r)' <=> IsIn(y, r)
  BY <1>1, <1>3 DEF IsIn
<1>4. ASSUME NEW y \in Items
      PROVE  IsIn(y, q)' <=> IsIn(y, q) \/ y = x
  BY <1>1, <1>2 DEF IsIn
<1>. QED
  BY <1>3, <1>4

LEMMA EnqueueDistinct ==
  ASSUME TypeOK, QueuesDistinct, NEW q \in Queues, NEW x \in Items, Enqueue(q, x),
         \A r \in Queues : ~IsIn(x, r)
  PROVE  QueuesDistinct'
<1>. DEFINE n == Len(queue[q])
<1>1. /\ n \in Nat /\ DOMAIN queue[q] = 1 .. n /\ DOMAIN queue'[q] = 1 .. n + 1
      /\ \A k \in 1 .. n : queue'[q][k] = queue[q][k]
      /\ queue'[q][n + 1] = x
      /\ \A r \in Queues : r # q => queue'[r] = queue[r]
  BY QueueIsSeq, EnqueueEntries DEF Entry
<1>2. 1 .. n + 1 = (1 .. n) \cup {n + 1}
  BY <1>1
<1>. SUFFICES ASSUME NEW r \in Queues, NEW s \in Queues,
                     NEW k \in DOMAIN queue'[r], NEW l \in DOMAIN queue'[s],
                     queue'[r][k] # NULL, queue'[r][k] = queue'[s][l]
              PROVE  r = s /\ k = l
  BY DEF QueuesDistinct
<1>3. \/ r = q /\ k = n + 1 /\ queue'[r][k] = x
      \/ k \in DOMAIN queue[r] /\ queue'[r][k] = queue[r][k] /\ queue[r][k] # x
  BY <1>1, <1>2 DEF IsIn
<1>4. \/ s = q /\ l = n + 1 /\ queue'[s][l] = x
      \/ l \in DOMAIN queue[s] /\ queue'[s][l] = queue[s][l] /\ queue[s][l] # x
  BY <1>1, <1>2 DEF IsIn
<1>. QED
  BY <1>3, <1>4 DEF QueuesDistinct

LEMMA DequeueIsIn ==
  ASSUME TypeOK, QueuesDistinct, NEW q \in Queues, Dequeue(q)
  PROVE  /\ Front(q) # NULL => Front(q) \in Items /\ IsIn(Front(q), q)
         /\ \A r \in Queues, y \in Items :
              IsIn(y, r)' <=> IsIn(y, r) /\ ~(r = q /\ y = Front(q))
         /\ QueuesDistinct'
<1>. DEFINE n == Len(queue[q])
<1>1. CASE queue[q] = <<>>
  <2>1. queue' = queue /\ Front(q) = NULL
    BY <1>1, DequeueEntries
  <2>. QED
    BY <2>1, ItemsNotNull DEF IsIn, QueuesDistinct
<1>2. CASE queue[q] # <<>>
  <2>1. /\ n \in Nat /\ DOMAIN queue[q] = 1 .. n
        /\ 1 \in DOMAIN queue[q] /\ Front(q) = queue[q][1] /\ Front(q) \in Entry
        /\ DOMAIN queue'[q] = 1 .. n - 1
        /\ \A k \in 1 .. n - 1 : queue'[q][k] = queue[q][k + 1]
        /\ \A r \in Queues : r # q => queue'[r] = queue[r]
    BY <1>2, QueueIsSeq, DequeueEntries
  <2>2. /\ \A k \in 1 .. n - 1 : k + 1 \in 1 .. n /\ k + 1 # 1
        /\ \A k \in 1 .. n : k = 1 \/ (k - 1 \in 1 .. n - 1 /\ (k - 1) + 1 = k)
    BY <2>1
  <2>3. Front(q) # NULL => Front(q) \in Items /\ IsIn(Front(q), q)
    BY <2>1 DEF IsIn, Entry
  <2>4. ASSUME NEW r \in Queues, NEW y \in Items, r # q
        PROVE  IsIn(y, r)' <=> IsIn(y, r)
    BY <2>1, <2>4 DEF IsIn
  <2>5. ASSUME NEW y \in Items, IsIn(y, q)'
        PROVE  IsIn(y, q) /\ y # Front(q)
    <3>1. PICK k \in 1 .. n - 1 : queue'[q][k] = y
      BY <2>1, <2>5 DEF IsIn
    <3>2. k + 1 \in DOMAIN queue[q] /\ k + 1 # 1 /\ queue[q][k + 1] = y
      BY <2>1, <2>2, <3>1
    <3>3. IsIn(y, q)
      BY <3>2 DEF IsIn
    <3>4. queue[q][1] # y
      BY <2>1, <3>2, ItemsNotNull DEF QueuesDistinct
    <3>. QED
      BY <2>1, <3>3, <3>4
  <2>6. ASSUME NEW y \in Items, IsIn(y, q), y # Front(q)
        PROVE  IsIn(y, q)'
    <3>1. PICK k \in 1 .. n : queue[q][k] = y
      BY <2>1, <2>6 DEF IsIn
    <3>2. k - 1 \in 1 .. n - 1 /\ (k - 1) + 1 = k
      BY <2>1, <2>2, <2>6, <3>1
    <3>3. queue'[q][k - 1] = y
      BY <2>1, <3>1, <3>2
    <3>. QED
      BY <2>1, <3>2, <3>3 DEF IsIn
  <2>7. QueuesDistinct'
    <3>. SUFFICES ASSUME NEW r \in Queues, NEW s \in Queues,
                         NEW k \in DOMAIN queue'[r], NEW l \in DOMAIN queue'[s],
                         queue'[r][k] # NULL, queue'[r][k] = queue'[s][l]
                  PROVE  r = s /\ k = l
      BY DEF QueuesDistinct
    <3>1. CASE r = q /\ s = q
      <4>1. /\ k \in 1 .. n - 1 /\ l \in 1 .. n - 1
            /\ queue'[r][k] = queue[r][k + 1] /\ queue'[s][l] = queue[s][l + 1]
            /\ k + 1 \in DOMAIN queue[r] /\ l + 1 \in DOMAIN queue[s]
        BY <2>1, <2>2, <3>1
      <4>2. queue[q][k + 1] # NULL /\ queue[q][k + 1] = queue[q][l + 1]
        BY <3>1, <4>1
      <4>3. k + 1 = l + 1
        BY <3>1, <4>1, <4>2 DEF QueuesDistinct
      <4>. QED
        BY <3>1, <4>1, <4>3
    <3>2. CASE r = q /\ s # q
      <4>1. /\ queue'[r][k] = queue[r][k + 1] /\ k + 1 \in DOMAIN queue[r]
            /\ queue'[s] = queue[s]
        BY <2>1, <2>2, <3>2
      <4>. QED
        BY <3>2, <4>1 DEF QueuesDistinct
    <3>3. CASE r # q /\ s = q
      <4>1. /\ queue'[s][l] = queue[s][l + 1] /\ l + 1 \in DOMAIN queue[s]
            /\ queue'[r] = queue[r]
        BY <2>1, <2>2, <3>3
      <4>. QED
        BY <3>3, <4>1 DEF QueuesDistinct
    <3>4. CASE r # q /\ s # q
      BY <2>1, <3>4 DEF QueuesDistinct
    <3>. QED
      BY <3>1, <3>2, <3>3, <3>4
  <2>. QED
    BY <2>3, <2>4, <2>5, <2>6, <2>7
<1>. QED
  BY <1>1, <1>2

\* destroy_queue leaves nothing in its queue.
LEMMA EmptyIsIn ==
  ASSUME TypeOK, QueuesDistinct, NEW q \in Queues, queue' = [queue EXCEPT ![q] = <<>>]
  PROVE  /\ \A r \in Queues, y \in Items : IsIn(y, r)' <=> IsIn(y, r) /\ r # q
         /\ QueuesDistinct'
<1>1. /\ DOMAIN queue'[q] = {}
      /\ \A r \in Queues : r # q => queue'[r] = queue[r]
  BY DEF TypeOK
<1>. QED
  BY <1>1 DEF IsIn, QueuesDistinct

-----------------------------------------------------------------------------
(* ItemInv: where the items are.                                            *)

LEMMA ItemInit == Init => ItemInv
<1>. SUFFICES ASSUME Init PROVE ItemInv
  OBVIOUS
<1>1. /\ \A q \in Queues : DOMAIN queue[q] = {1} /\ queue[q][1] = NULL
      /\ \A w \in Workers : item[w] = NULL /\ worker[w] = "none"
      /\ sink_item = NULL /\ sinker = "none" /\ heap = {}
  BY DEF Init
<1>2. HandsFull /\ QueuesDistinct /\ HandsApart
  BY <1>1 DEF HandsFull, QueuesDistinct, HandsApart
<1>3. HeapIsHeld
  BY <1>1, ItemsNotNull DEF HeapIsHeld, Held, IsIn
<1>. QED
  BY <1>2, <1>3 DEF ItemInv

\* A step that only moves threads on keeps the items where they are.
LEMMA ItemsStay ==
  ASSUME ItemInv, UNCHANGED <<queue, destroyed, heap, tx, item, sink_item>>, HandsFull'
  PROVE  ItemInv'
BY DEF ItemInv, QueuesDistinct, HandsApart, HeapIsHeld, Held, IsIn

LEMMA ItemMain ==
  ASSUME ControlInv, SinkNotBefore, ItemInv,
         Main \/ CreateFails, ~ \E q \in Queues : DestroyQueue(q)
  PROVE  ItemInv'
<1>1. CASE CreateSink
  <2>1. sinker = "none" /\ sinker' = "check"
    BY <1>1 DEF CreateSink, MainAt, SinkNotBefore
  <2>2. HandsFull'
    BY <1>1, <2>1 DEF CreateSink, LeavesData, ItemInv, HandsFull
  <2>. QED
    BY <1>1, <2>2, ItemsStay DEF CreateSink, LeavesData, items
<1>2. ASSUME NEW w \in Workers, CreateWorker(w)
      PROVE  ItemInv'
  <2>1. HandsFull'
    BY <1>2 DEF CreateWorker, WorkerGoto, LeavesData, ControlInv, TypeOK, ItemInv, HandsFull
  <2>. QED
    BY <1>2, <2>1, ItemsStay DEF CreateWorker, LeavesData, items
<1>3. CASE CreateGenerator \/ JoinGenerator \/ JoinSink \/ CreateFails
  <2>1. UNCHANGED <<queue, destroyed, heap, tx, item, sink_item, sinker, worker>>
    BY <1>3 DEF CreateGenerator, JoinGenerator, JoinSink, CreateFails, LeavesData, items, threads
  <2>. QED
    BY <2>1, ItemsStay DEF ItemInv, HandsFull
<1>4. ASSUME NEW s \in Stages, StartStage(s) \/ StageStarted(s) \/ StopStage(s) \/ JoinStage(s)
      PROVE  ItemInv'
  <2>1. UNCHANGED <<queue, destroyed, heap, tx, item, sink_item, sinker, worker>>
    BY <1>4 DEF StartStage, StageStarted, StopStage, JoinStage, LeavesData, items, threads
  <2>. QED
    BY <2>1, ItemsStay DEF ItemInv, HandsFull
<1>. QED
  BY <1>1, <1>2, <1>3, <1>4 DEF Main

LEMMA ItemDestroy ==
  ASSUME ControlInv, ItemInv, NEW q \in Queues, DestroyQueue(q)
  PROVE  ItemInv'
<1>1. /\ queue' = [queue EXCEPT ![q] = <<>>] /\ destroyed' # {}
      /\ UNCHANGED <<heap, tx, item, sink_item, sinker, worker>>
  BY DEF DestroyQueue, LeavesData, items, threads
<1>2. /\ \A r \in Queues, y \in Items : IsIn(y, r)' => IsIn(y, r)
      /\ QueuesDistinct'
  BY <1>1, EmptyIsIn DEF ControlInv, ItemInv
<1>3. HandsFull'
  BY <1>1 DEF ItemInv, HandsFull
<1>4. HandsApart'
  BY <1>1, <1>2 DEF ItemInv, HandsApart, ControlInv, TypeOK
<1>5. HeapIsHeld'
  BY <1>1, <1>2 DEF ItemInv, HeapIsHeld, Held
<1>. QED
  BY <1>2, <1>3, <1>4, <1>5 DEF ItemInv

LEMMA ItemGenerator ==
  ASSUME ControlInv, ItemInv, Generator
  PROVE  ItemInv'
<1>1. CASE GeneratorBatch \/ GeneratorBatchEnd \/ GeneratorExit
  <2>1. UNCHANGED <<queue, destroyed, heap, tx, item, sink_item, sinker, worker>>
    BY <1>1 DEF GeneratorBatch, GeneratorBatchEnd, GeneratorExit, items, counts
  <2>. QED
    BY <2>1, ItemsStay DEF ItemInv, HandsFull
<1>2. CASE GenerateItem
  <2>1. tx \in Items /\ tx' = tx + 1
    BY <1>2, PipelineAssumption DEF GenerateItem, MoreInBatch, ControlInv, TypeOK, BatchFits, Items
  <2>2. ~Held(tx)
    BY <2>1 DEF ItemInv, HeapIsHeld, Items
  <2>3. UNCHANGED <<destroyed, item, sink_item, sinker, worker>>
    BY <1>2 DEF GenerateItem, control, threads
  <2>4. HandsFull'
    BY <2>3 DEF ItemInv, HandsFull
  <2>5. \A x \in Items : x < tx => x < tx'
    BY <2>1 DEF Items
  <2>6. CASE HasRoom(0)
    <3>1. 0 \in Queues /\ Enqueue(0, tx) /\ heap' = heap \cup {tx}
      BY <1>2, <2>6, PipelineAssumption DEF GenerateItem, Queues
    <3>2. /\ \A r \in Queues, y \in Items : IsIn(y, r)' <=> IsIn(y, r) \/ (r = 0 /\ y = tx)
          /\ QueuesDistinct'
      BY <2>1, <2>2, <3>1, EnqueueIsIn, EnqueueDistinct DEF ControlInv, ItemInv, Held
    <3>3. HandsApart'
      BY <2>2, <2>3, <3>2 DEF ItemInv, HandsApart, Held, ControlInv, TypeOK
    <3>4. \A y \in Items : Held(y)' <=> Held(y) \/ y = tx
      BY <2>3, <3>1, <3>2 DEF Held
    <3>5. tx < tx'
      BY <2>1 DEF Items
    <3>6. HeapIsHeld'
      BY <2>3, <2>5, <3>1, <3>4, <3>5 DEF ItemInv, HeapIsHeld
    <3>. QED
      BY <2>4, <3>2, <3>3, <3>6 DEF ItemInv
  <2>7. CASE ~HasRoom(0)
    <3>1. UNCHANGED <<queue, heap>>
      BY <1>2, <2>7 DEF GenerateItem
    <3>2. QueuesDistinct' /\ HandsApart'
      BY <2>3, <3>1 DEF ItemInv, QueuesDistinct, HandsApart, IsIn
    <3>3. \A y \in Items : Held(y)' <=> Held(y)
      BY <2>3, <3>1 DEF Held, IsIn
    <3>4. HeapIsHeld'
      BY <2>3, <2>5, <3>1, <3>3 DEF ItemInv, HeapIsHeld
    <3>. QED
      BY <2>4, <3>2, <3>4 DEF ItemInv
  <2>. QED
    BY <2>6, <2>7
<1>. QED
  BY <1>1, <1>2 DEF Generator

\* A worker takes an item out of its queue, passes it on or frees it.
LEMMA ItemPoll ==
  ASSUME ControlInv, ItemInv, NEW w \in Workers, WorkerPoll(w)
  PROVE  ItemInv'
<1>. DEFINE q == w[1] - 1
<1>0. PICK x : x = Front(q)
  OBVIOUS
<1>1. /\ worker[w] = "poll" /\ Dequeue(q) /\ item' = [item EXCEPT ![w] = x]
      /\ worker' = [worker EXCEPT ![w] = AfterPoll(x)]
      /\ UNCHANGED <<destroyed, heap, tx, sink_item, sinker>>
  BY <1>0 DEF WorkerPoll, WorkerAt, WorkerGoto, input_queue, items, counts, ControlInv, TypeOK
<1>2. q \in Queues
  BY PipelineAssumption DEF Workers, Stages, Queues
<1>3. /\ x # NULL => x \in Items /\ IsIn(x, q)
      /\ \A r \in Queues, y \in Items : IsIn(y, r)' <=> IsIn(y, r) /\ ~(r = q /\ y = x)
      /\ QueuesDistinct'
  BY <1>0, <1>1, <1>2, DequeueIsIn DEF ControlInv, ItemInv
<1>4. item[w] = NULL
  BY <1>1 DEF ItemInv, HandsFull
<1>5. HandsFull'
  BY <1>1, <1>4 DEF AfterPoll, ItemInv, HandsFull, ControlInv, TypeOK
<1>6. ASSUME x # NULL
      PROVE  \A r \in Queues : ~IsIn(x, r)'
  <2>1. \A r \in Queues : IsIn(x, r) => r = q
    BY <1>2, <1>3, <1>6 DEF IsIn, ItemInv, QueuesDistinct
  <2>. QED
    BY <1>3, <1>6, <2>1
<1>7. \A v \in Workers : item'[v] = IF v = w THEN x ELSE item[v]
  BY <1>1 DEF ControlInv, TypeOK
<1>8. HandsApart'
  <2>1. x # NULL => sink_item # x /\ \A v \in Workers : item[v] # x
    BY <1>2, <1>3 DEF ItemInv, HandsApart, ControlInv, TypeOK
  <2>2. ASSUME NEW v \in Workers, item'[v] # NULL
        PROVE  /\ \A r \in Queues : ~IsIn(item[v], r)'
               /\ \A u \in Workers : item'[u] = item'[v] => u = v
               /\ sink_item' # item'[v]
    <3>1. CASE v = w
      BY <1>1, <1>6, <1>7, <2>1, <2>2, <3>1
    <3>2. CASE v # w
      <4>1. item'[v] = item[v] /\ item[v] \in Items
        BY <1>7, <2>2, <3>2 DEF ControlInv, TypeOK
      <4>2. \A r \in Queues : ~IsIn(item[v], r)'
        BY <1>3, <2>2, <4>1 DEF ItemInv, HandsApart
      <4>. QED
        BY <1>1, <1>7, <2>1, <2>2, <4>1, <4>2 DEF ItemInv, HandsApart
    <3>. QED
      BY <3>1, <3>2
  <2>3. sink_item' # NULL => \A r \in Queues : ~IsIn(sink_item, r)'
    BY <1>1, <1>3 DEF ItemInv, HandsApart, ControlInv, TypeOK
  <2>. QED
    BY <2>2, <2>3 DEF HandsApart
<1>9. \A y \in Items : Held(y)' <=> Held(y)
  BY <1>1, <1>2, <1>3, <1>4, <1>7, ItemsNotNull DEF Held
<1>10. HeapIsHeld'
  BY <1>1, <1>9 DEF ItemInv, HeapIsHeld
<1>. QED
  BY <1>3, <1>5, <1>8, <1>10 DEF ItemInv

LEMMA ItemForward ==
  ASSUME ControlInv, ItemInv, NEW w \in Workers, WorkerForward(w)
  PROVE  ItemInv'
<1>. DEFINE q == w[1]
            x == item[w]
<1>1. /\ worker[w] = "forward" /\ Enqueue(q, x) /\ item' = [item EXCEPT ![w] = NULL]
      /\ worker' = [worker EXCEPT ![w] = "check"]
      /\ UNCHANGED <<destroyed, heap, tx, sink_item, sinker>>
  BY DEF WorkerForward, WorkerAt, WorkerGoto, output_queue, items
<1>2. q \in Queues
  BY PipelineAssumption DEF Workers, Stages, Queues
<1>3. /\ x # NULL /\ x \in Items /\ sink_item # x
      /\ \A r \in Queues : ~IsIn(x, r)
      /\ \A v \in Workers : item[v] = x => v = w
  BY <1>1 DEF ItemInv, HandsFull, HandsApart, ControlInv, TypeOK
<1>4. /\ \A r \in Queues, y \in Items : IsIn(y, r)' <=> IsIn(y, r) \/ (r = q /\ y = x)
      /\ QueuesDistinct'
  BY <1>1, <1>2, <1>3, EnqueueIsIn, EnqueueDistinct DEF ControlInv, ItemInv
<1>5. \A v \in Workers : item'[v] = IF v = w THEN NULL ELSE item[v]
  BY <1>1 DEF ControlInv, TypeOK
<1>6. HandsFull'
  BY <1>1, <1>5 DEF ItemInv, HandsFull, ControlInv, TypeOK
<1>7. HandsApart'
  BY <1>1, <1>3, <1>4, <1>5 DEF ItemInv, HandsApart, ControlInv, TypeOK
<1>8. \A y \in Items : Held(y)' <=> Held(y)
  BY <1>1, <1>2, <1>3, <1>4, <1>5, ItemsNotNull DEF Held
<1>9. HeapIsHeld'
  BY <1>1, <1>8 DEF ItemInv, HeapIsHeld
<1>. QED
  BY <1>4, <1>6, <1>7, <1>9 DEF ItemInv

LEMMA ItemDrop ==
  ASSUME ControlInv, ItemInv, NEW w \in Workers, WorkerDrop(w)
  PROVE  ItemInv'
<1>. DEFINE x == item[w]
<1>1. /\ worker[w] = "forward" /\ heap' = heap \ {x} /\ item' = [item EXCEPT ![w] = NULL]
      /\ worker' = [worker EXCEPT ![w] = "check"]
      /\ UNCHANGED <<queue, destroyed, tx, sink_item, sinker>>
  BY DEF WorkerDrop, WorkerAt, WorkerGoto
<1>2. /\ x # NULL /\ x \in Items /\ sink_item # x
      /\ \A r \in Queues : ~IsIn(x, r)
      /\ \A v \in Workers : item[v] = x => v = w
  BY <1>1 DEF ItemInv, HandsFull, HandsApart, ControlInv, TypeOK
<1>3. /\ \A r \in Queues, y \in Items : IsIn(y, r)' <=> IsIn(y, r)
      /\ QueuesDistinct'
  BY <1>1 DEF ItemInv, IsIn, QueuesDistinct
<1>4. \A v \in Workers : item'[v] = IF v = w THEN NULL ELSE item[v]
  BY <1>1 DEF ControlInv, TypeOK
<1>5. HandsFull'
  BY <1>1, <1>4 DEF ItemInv, HandsFull, ControlInv, TypeOK
<1>6. HandsApart'
  BY <1>1, <1>3, <1>4 DEF ItemInv, HandsApart, ControlInv, TypeOK
<1>7. \A y \in Items : Held(y)' <=> Held(y) /\ y # x
  BY <1>1, <1>2, <1>3, <1>4, ItemsNotNull DEF Held
<1>8. HeapIsHeld'
  BY <1>1, <1>7 DEF ItemInv, HeapIsHeld
<1>. QED
  BY <1>3, <1>5, <1>6, <1>8 DEF ItemInv

LEMMA ItemWorker ==
  ASSUME ControlInv, ItemInv, NEW w \in Workers, Worker(w)
  PROVE  ItemInv'
<1>1. CASE WorkerCheck(w)
  <2>1. HandsFull'
    BY <1>1 DEF WorkerCheck, WorkerAt, WorkerGoto, ItemInv, HandsFull, ControlInv, TypeOK
  <2>. QED
    BY <1>1, <2>1, ItemsStay DEF WorkerCheck, items, counts
<1>2. CASE WorkerProcess(w)
  <2>1. HandsFull'
    BY <1>2 DEF WorkerProcess, WorkerAt, WorkerGoto, ItemInv, HandsFull, ControlInv, TypeOK
  <2>. QED
    BY <1>2, <2>1, ItemsStay DEF WorkerProcess, counts
<1>. QED
  BY <1>1, <1>2, ItemPoll, ItemForward, ItemDrop DEF Worker

LEMMA ItemSink ==
  ASSUME ControlInv, ItemInv, Sink
  PROVE  ItemInv'
<1>1. CASE SinkCheck
  <2>1. HandsFull'
    BY <1>1 DEF SinkCheck, ItemInv, HandsFull
  <2>. QED
    BY <1>1, <2>1, ItemsStay DEF SinkCheck, items, counts
<1>2. CASE SinkPoll
  <2>. DEFINE q == NStages
  <2>0. PICK x : x = Front(q)
    OBVIOUS
  <2>1. /\ sinker = "poll" /\ Dequeue(q) /\ sink_item' = x
        /\ sinker' = IF x = NULL THEN "check" ELSE "consume"
        /\ UNCHANGED <<destroyed, heap, tx, item, worker>>
    BY <1>2, <2>0 DEF SinkPoll, items, counts
  <2>2. q \in Queues
    BY PipelineAssumption DEF Queues
  <2>3. /\ x # NULL => x \in Items /\ IsIn(x, q)
        /\ \A r \in Queues, y \in Items : IsIn(y, r)' <=> IsIn(y, r) /\ ~(r = q /\ y = x)
        /\ QueuesDistinct'
    BY <2>0, <2>1, <2>2, DequeueIsIn DEF ControlInv, ItemInv
  <2>4. sink_item = NULL
    BY <2>1 DEF ItemInv, HandsFull
  <2>5. HandsFull'
    BY <2>1 DEF ItemInv, HandsFull
  <2>6. ASSUME x # NULL
        PROVE  \A r \in Queues : ~IsIn(x, r)'
    <3>1. \A r \in Queues : IsIn(x, r) => r = q
      BY <2>2, <2>3, <2>6 DEF IsIn, ItemInv, QueuesDistinct
    <3>. QED
      BY <2>3, <2>6, <3>1
  <2>7. HandsApart'
    BY <2>1, <2>2, <2>3, <2>6 DEF ItemInv, HandsApart, ControlInv, TypeOK
  <2>8. \A y \in Items : Held(y)' <=> Held(y)
    BY <2>1, <2>2, <2>3, <2>4, ItemsNotNull DEF Held
  <2>9. HeapIsHeld'
    BY <2>1, <2>8 DEF ItemInv, HeapIsHeld
  <2>. QED
    BY <2>3, <2>5, <2>7, <2>9 DEF ItemInv
<1>3. CASE SinkConsume
  <2>1. /\ sinker = "consume" /\ heap' = heap \ {sink_item} /\ sink_item' = NULL
        /\ sinker' = "check"
        /\ UNCHANGED <<queue, destroyed, tx, item, worker>>
    BY <1>3 DEF SinkConsume
  <2>2. /\ sink_item # NULL
        /\ \A r \in Queues : ~IsIn(sink_item, r)
        /\ \A v \in Workers : item[v] # sink_item
    BY <2>1 DEF ItemInv, HandsFull, HandsApart
  <2>3. HandsFull'
    BY <2>1 DEF ItemInv, HandsFull
  <2>4. QueuesDistinct' /\ HandsApart' /\ \A r \in Queues, y \in Items : IsIn(y, r)' <=> IsIn(y, r)
    BY <2>1, ItemsNotNull DEF ItemInv, QueuesDistinct, HandsApart, IsIn
  <2>5. \A y \in Items : Held(y)' <=> Held(y) /\ y # sink_item
    BY <2>1, <2>2, <2>4, ItemsNotNull DEF Held
  <2>6. HeapIsHeld'
    BY <2>1, <2>5 DEF ItemInv, HeapIsHeld
  <2>. QED
    BY <2>3, <2>4, <2>6 DEF ItemInv
<1>. QED
  BY <1>1, <1>2, <1>3 DEF Sink

LEMMA ItemStep == ControlInv /\ SinkNotBefore /\ ItemInv /\ [Next]_vars => ItemInv'
<1>. SUFFICES ASSUME ControlInv, SinkNotBefore, ItemInv, [Next]_vars
              PROVE  ItemInv'
  OBVIOUS
<1>1. CASE UNCHANGED vars
  BY <1>1, ItemsStay DEF vars, items, counts, control, threads, ItemInv, HandsFull
<1>2. ASSUME NEW thread \in {"generator", "sink"}, Expire(thread)
      PROVE  ItemInv'
  BY <1>2, ItemsStay DEF Expire, items, counts, control, threads, ItemInv, HandsFull
<1>. QED
  BY <1>1, <1>2, ItemMain, ItemDestroy, ItemGenerator, ItemWorker, ItemSink DEF Next, Terminated

LEMMA ItemInvariance == Spec => []ItemInv
BY ItemInit, ItemStep, ControlInvariance, SinkInvariance, PTL DEF Spec

-----------------------------------------------------------------------------
\* A set all of whose elements are equal has at most one.
LEMMA AtMostOne ==
  ASSUME NEW S, \A a, b \in S : a = b
  PROVE  Cardinality(S) <= 1
<1>1. CASE S = {}
  BY <1>1, FS_EmptySet
<1>2. CASE S # {}
  <2>1. PICK a \in S : TRUE
    BY <1>2
  <2>2. S = {a}
    BY <2>1
  <2>. QED
    BY <2>2, FS_Singleton
<1>. QED
  BY <1>1, <1>2

LEMMA HoldersAre ==
  ASSUME NEW x \in Items, NEW h
  PROVE  h \in Holders(x) <=>
           \/ \E q \in Queues : \E k \in DOMAIN queue[q] : queue[q][k] = x /\ h = <<"queue", q, k>>
           \/ \E w \in Workers : item[w] = x /\ h = <<"stage", w>>
           \/ sink_item = x /\ h = <<"sink">>
<1>1. h \in QueueHolders(x)
        <=> \E q \in Queues : \E k \in DOMAIN queue[q] : queue[q][k] = x /\ h = <<"queue", q, k>>
  BY DEF QueueHolders
<1>2. h \in StageHolders(x) <=> \E w \in Workers : item[w] = x /\ h = <<"stage", w>>
  BY DEF StageHolders
<1>3. h \in SinkHolders(x) <=> sink_item = x /\ h = <<"sink">>
  BY DEF SinkHolders
<1>. QED
  BY <1>1, <1>2, <1>3 DEF Holders

LEMMA HoldersUnique ==
  ASSUME ControlInv, ItemInv
  PROVE  OneHolder
<1>. SUFFICES ASSUME NEW x \in Items
              PROVE  /\ Cardinality(Holders(x)) <= 1
                     /\ Holders(x) # {} <=> Held(x)
  BY DEF OneHolder, ItemInv, HeapIsHeld
<1>1. Holders(x) # {} <=> Held(x)
  <2>1. ASSUME Held(x)
        PROVE  \E h : h \in Holders(x)
    BY <2>1, HoldersAre DEF Held, IsIn
  <2>2. ASSUME NEW h, h \in Holders(x)
        PROVE  Held(x)
    BY <2>2, HoldersAre DEF Held, IsIn
  <2>. QED
    BY <2>1, <2>2
<1>2. ASSUME NEW a \in Holders(x), NEW b \in Holders(x)
      PROVE  a = b
  <2>1. x # NULL
    BY ItemsNotNull
  <2>2. CASE sink_item = x
    <3>1. /\ \A q \in Queues : ~IsIn(x, q)
          /\ \A w \in Workers : item[w] # x
      BY <2>1, <2>2 DEF ItemInv, HandsApart
    <3>. QED
      BY <3>1, HoldersAre DEF IsIn
  <2>3. CASE \E w \in Workers : item[w] = x
    <3>1. PICK w \in Workers : item[w] = x
      BY <2>3
    <3>2. /\ \A q \in Queues : ~IsIn(x, q)
          /\ \A v \in Workers : item[v] = x => v = w
          /\ sink_item # x
      BY <2>1, <3>1 DEF ItemInv, HandsApart
    <3>3. a = <<"stage", w>> /\ b = <<"stage", w>>
      BY <3>2, HoldersAre DEF IsIn
    <3>. QED
      BY <3>3
  <2>4. CASE sink_item # x /\ ~ \E w \in Workers : item[w] = x
    <3>1. PICK q \in Queues : \E k \in DOMAIN queue[q] : queue[q][k] = x /\ a = <<"queue", q, k>>
      BY <2>4, HoldersAre
    <3>2. PICK r \in Queues : \E l \in DOMAIN queue[r] : queue[r][l] = x /\ b = <<"queue", r, l>>
      BY <2>4, HoldersAre
    <3>3. PICK k \in DOMAIN queue[q] : queue[q][k] = x /\ a = <<"queue", q, k>>
      BY <3>1
    <3>4. PICK l \in DOMAIN queue[r] : queue[r][l] = x /\ b = <<"queue", r, l>>
      BY <3>2
    <3>5. q = r /\ k = l
      BY <2>1, <3>3, <3>4 DEF ItemInv, QueuesDistinct
    <3>. QED
      BY <3>3, <3>4, <3>5
  <2>. QED
    BY <2>2, <2>3, <2>4
<1>. QED
  BY <1>1, <1>2, AtMostOne

\* No item is in two places, every item that is anywhere is allocated, and
\* every allocated one is somewhere until the queues are destroyed: none is
\* touched by two threads, touched after its free, freed twice, or lost
\* (pipeline-app.c:58-71, 110-123, 153-161).
THEOREM NoItemShared == Spec => []OneHolder
BY ControlInvariance, ItemInvariance, HoldersUnique, PTL

-----------------------------------------------------------------------------
(* The stamps an item carries.                                              *)

\* A step that brings no item to a new place keeps the stamps right.
LEMMA StampsStay ==
  ASSUME TypeOK, StampsSoFar, UNCHANGED <<stamps, item, sink_item>>, tx' >= tx, tx' \in Nat,
         \A q \in Queues, x \in Items : IsIn(x, q)' => IsIn(x, q),
         \A w \in Workers : worker'[w] \in {"process", "forward"} => worker'[w] = worker[w],
         sinker' = "consume" => sinker = "consume"
  PROVE  StampsSoFar'
<1>1. \A x \in Items : x >= tx' => x >= tx
  BY ItemsNotNull DEF TypeOK
<1>. QED
  BY <1>1 DEF StampsSoFar

LEMMA StampsMain ==
  ASSUME ControlInv, SinkNotBefore, StampsSoFar, Main \/ CreateFails
  PROVE  StampsSoFar'
<1>1. ASSUME NEW q \in Queues, DestroyQueue(q)
      PROVE  StampsSoFar'
  <2>1. queue' = [queue EXCEPT ![q] = <<>>]
    BY <1>1 DEF DestroyQueue
  <2>2. \A r \in Queues, x \in Items : IsIn(x, r)' => IsIn(x, r)
    <3>1. /\ DOMAIN queue'[q] = {}
          /\ \A r \in Queues : r # q => queue'[r] = queue[r]
      BY <2>1 DEF ControlInv, TypeOK
    <3>. QED
      BY <3>1 DEF IsIn
  <2>3. UNCHANGED <<stamps, tx, item, sink_item, worker, sinker>>
    BY <1>1 DEF DestroyQueue, LeavesData, items, threads
  <2>. QED
    BY <2>2, <2>3, StampsStay DEF ControlInv, TypeOK
<1>2. ASSUME NEW w \in Workers, CreateWorker(w)
      PROVE  StampsSoFar'
  <2>1. UNCHANGED <<queue, stamps, tx, item, sink_item, sinker>>
    BY <1>2 DEF CreateWorker, LeavesData, items
  <2>2. \A v \in Workers : worker'[v] \in {"process", "forward"} => worker'[v] = worker[v]
    BY <1>2 DEF CreateWorker, WorkerGoto, ControlInv, TypeOK
  <2>. QED
    BY <2>1, <2>2, StampsStay DEF ControlInv, TypeOK, IsIn
<1>3. CASE CreateSink
  <2>1. /\ UNCHANGED <<queue, stamps, tx, item, sink_item, worker>>
        /\ sinker' = "check"
    BY <1>3 DEF CreateSink, LeavesData, items
  <2>. QED
    BY <2>1, StampsStay DEF ControlInv, TypeOK, IsIn
<1>4. CASE CreateGenerator \/ JoinGenerator \/ JoinSink \/ CreateFails
  <2>1. UNCHANGED <<queue, stamps, tx, item, sink_item, worker, sinker>>
    BY <1>4 DEF CreateGenerator, JoinGenerator, JoinSink, CreateFails, LeavesData, items, threads
  <2>. QED
    BY <2>1, StampsStay DEF ControlInv, TypeOK, IsIn
<1>5. ASSUME NEW s \in Stages, StartStage(s) \/ StageStarted(s) \/ StopStage(s) \/ JoinStage(s)
      PROVE  StampsSoFar'
  <2>1. UNCHANGED <<queue, stamps, tx, item, sink_item, worker, sinker>>
    BY <1>5 DEF StartStage, StageStarted, StopStage, JoinStage, LeavesData, items, threads
  <2>. QED
    BY <2>1, StampsStay DEF ControlInv, TypeOK, IsIn
<1>. QED
  BY <1>1, <1>2, <1>3, <1>4, <1>5 DEF Main

LEMMA StampsGenerator ==
  ASSUME ControlInv, StampsSoFar, Generator
  PROVE  StampsSoFar'
<1>1. UNCHANGED <<stamps, item, sink_item, worker, sinker>>
  BY DEF Generator, GeneratorBatch, GenerateItem, GeneratorBatchEnd, GeneratorExit, items,
         control, threads
<1>2. CASE GeneratorBatch \/ GeneratorBatchEnd \/ GeneratorExit
  <2>1. UNCHANGED <<queue, tx>>
    BY <1>2 DEF GeneratorBatch, GeneratorBatchEnd, GeneratorExit, counts
  <2>. QED
    BY <1>1, <2>1, StampsStay DEF ControlInv, TypeOK, IsIn
<1>3. CASE GenerateItem /\ ~HasRoom(0)
  <2>1. queue' = queue /\ tx' = tx + 1
    BY <1>3 DEF GenerateItem
  <2>2. tx' >= tx /\ tx' \in Nat
    BY <2>1 DEF ControlInv, TypeOK
  <2>. QED
    BY <1>1, <2>1, <2>2, StampsStay DEF ControlInv, IsIn
<1>4. CASE GenerateItem /\ HasRoom(0)
  <2>1. tx \in Items /\ tx' = tx + 1
    BY <1>4, PipelineAssumption DEF GenerateItem, MoreInBatch, ControlInv, TypeOK, BatchFits, Items
  <2>2. 0 \in Queues /\ Enqueue(0, tx)
    BY <1>4, PipelineAssumption DEF GenerateItem, Queues
  <2>3. \A r \in Queues, y \in Items : IsIn(y, r)' <=> IsIn(y, r) \/ (r = 0 /\ y = tx)
    BY <2>1, <2>2, EnqueueIsIn DEF ControlInv
  <2>4. stamps[tx] = {} /\ \A x \in Items : x >= tx' => x >= tx
    BY <2>1 DEF StampsSoFar, Items
  <2>5. 1 .. 0 = {}
    OBVIOUS
  <2>. QED
    BY <1>1, <2>3, <2>4, <2>5 DEF StampsSoFar
<1>. QED
  BY <1>2, <1>3, <1>4 DEF Generator

LEMMA StampsProcess ==
  ASSUME ControlInv, ItemInv, StampsSoFar, NEW w \in Workers, WorkerProcess(w)
  PROVE  StampsSoFar'
<1>. DEFINE x == item[w]
<1>1. /\ worker[w] = "process" /\ worker' = [worker EXCEPT ![w] = "forward"]
      /\ stamps' = [stamps EXCEPT ![x] = @ \cup {w[1]}]
      /\ UNCHANGED <<queue, tx, item, sink_item, sinker>>
  BY DEF WorkerProcess, WorkerAt, WorkerGoto, counts
<1>2. /\ x \in Items /\ x # NULL
      /\ \A r \in Queues : ~IsIn(x, r)
      /\ \A v \in Workers : item[v] = x => v = w
      /\ sink_item # x
  BY <1>1 DEF ItemInv, HandsFull, HandsApart, ControlInv, TypeOK
<1>3. x \in heap /\ x < tx
  BY <1>2 DEF ItemInv, HeapIsHeld, Held
<1>4. \A y \in Items : y # x => stamps'[y] = stamps[y]
  BY <1>1 DEF ControlInv, TypeOK
<1>5. stamps'[x] = 1 .. w[1]
  <2>1. stamps'[x] = (1 .. w[1] - 1) \cup {w[1]}
    BY <1>1, <1>2 DEF StampsSoFar, ControlInv, TypeOK
  <2>2. w[1] \in Nat \ {0}
    BY DEF Workers, Stages
  <2>. QED
    BY <2>1, <2>2
<1>6. \A y \in Items : y >= tx => y # x
  BY <1>2, <1>3, ItemsNotNull DEF ControlInv, TypeOK
<1>7. \A y \in Items : y >= tx => stamps'[y] = {}
  BY <1>4, <1>6 DEF StampsSoFar
<1>8. \A r \in Queues, y \in Items : IsIn(y, r)' => stamps'[y] = 1 .. r
  BY <1>1, <1>2, <1>4 DEF StampsSoFar, IsIn
<1>9. \A v \in Workers : v # w /\ worker'[v] \in {"process", "forward"} =>
        item[v] \in Items /\ item[v] # x /\ worker'[v] = worker[v]
  BY <1>1, <1>2 DEF ItemInv, HandsFull, ControlInv, TypeOK
<1>10. ASSUME NEW v \in Workers
       PROVE  /\ worker'[v] = "process" => stamps'[item[v]] = 1 .. v[1] - 1
              /\ worker'[v] = "forward" => stamps'[item[v]] = 1 .. v[1]
  <2>1. CASE v = w
    BY <1>1, <1>5, <2>1 DEF ControlInv, TypeOK
  <2>2. CASE v # w
    BY <1>4, <1>9, <2>2 DEF StampsSoFar
  <2>. QED
    BY <2>1, <2>2
<1>11. sinker' = "consume" => stamps'[sink_item] = Stages
  BY <1>1, <1>2, <1>4 DEF StampsSoFar, ItemInv, HandsFull, ControlInv, TypeOK
<1>. QED
  BY <1>1, <1>7, <1>8, <1>10, <1>11 DEF StampsSoFar

LEMMA StampsWorker ==
  ASSUME ControlInv, ItemInv, StampsSoFar, NEW w \in Workers, Worker(w)
  PROVE  StampsSoFar'
<1>1. CASE WorkerCheck(w)
  <2>1. UNCHANGED <<queue, stamps, tx, item, sink_item, sinker>>
    BY <1>1 DEF WorkerCheck, items, counts
  <2>2. \A v \in Workers : worker'[v] \in {"process", "forward"} => worker'[v] = worker[v]
    BY <1>1 DEF WorkerCheck, WorkerGoto, ControlInv, TypeOK
  <2>. QED
    BY <2>1, <2>2, StampsStay DEF ControlInv, TypeOK, IsIn
<1>2. CASE WorkerPoll(w)
  <2>. DEFINE q == w[1] - 1
              x == Front(q)
  <2>1. /\ Dequeue(q) /\ item' = [item EXCEPT ![w] = x]
        /\ worker' = [worker EXCEPT ![w] = AfterPoll(x)]
        /\ UNCHANGED <<stamps, tx, sink_item, sinker>>
    BY <1>2 DEF WorkerPoll, WorkerGoto, input_queue, items, counts, ControlInv, TypeOK
  <2>2. q \in Queues
    BY PipelineAssumption DEF Workers, Stages, Queues
  <2>3. /\ x # NULL => x \in Items /\ IsIn(x, q)
        /\ \A r \in Queues, y \in Items : IsIn(y, r)' => IsIn(y, r)
    BY <2>1, <2>2, DequeueIsIn DEF ControlInv, ItemInv
  <2>4. x # NULL => stamps[x] = 1 .. w[1] - 1
    BY <2>2, <2>3 DEF StampsSoFar
  <2>5. \A v \in Workers :
          /\ v # w => worker'[v] = worker[v] /\ item'[v] = item[v]
          /\ v = w => worker'[v] = AfterPoll(x) /\ item'[v] = x
    BY <2>1 DEF ControlInv, TypeOK
  <2>6. \A v \in Workers :
          /\ worker'[v] = "process" => stamps[item'[v]] = 1 .. v[1] - 1
          /\ worker'[v] = "forward" => stamps[item'[v]] = 1 .. v[1]
    BY <2>4, <2>5 DEF StampsSoFar, AfterPoll
  <2>. QED
    BY <2>1, <2>3, <2>6 DEF StampsSoFar
<1>3. CASE WorkerForward(w)
  <2>. DEFINE q == w[1]
              x == item[w]
  <2>1. /\ worker[w] = "forward" /\ Enqueue(q, x) /\ item' = [item EXCEPT ![w] = NULL]
        /\ worker' = [worker EXCEPT ![w] = "check"]
        /\ UNCHANGED <<stamps, tx, sink_item, sinker>>
    BY <1>3 DEF WorkerForward, WorkerAt, WorkerGoto, output_queue, items
  <2>2. q \in Queues /\ x \in Items /\ stamps[x] = 1 .. q
    BY <2>1, PipelineAssumption
       DEF Workers, Stages, Queues, ItemInv, HandsFull, StampsSoFar, ControlInv, TypeOK
  <2>3. \A r \in Queues, y \in Items : IsIn(y, r)' <=> IsIn(y, r) \/ (r = q /\ y = x)
    BY <2>1, <2>2, EnqueueIsIn DEF ControlInv
  <2>4. \A v \in Workers : worker'[v] \in {"process", "forward"} =>
          worker'[v] = worker[v] /\ item'[v] = item[v]
    BY <2>1 DEF ControlInv, TypeOK
  <2>5. \A v \in Workers :
          /\ worker'[v] = "process" => stamps[item'[v]] = 1 .. v[1] - 1
          /\ worker'[v] = "forward" => stamps[item'[v]] = 1 .. v[1]
    BY <2>4 DEF StampsSoFar
  <2>. QED
    BY <2>1, <2>2, <2>3, <2>5 DEF StampsSoFar
<1>4. CASE WorkerDrop(w)
  <2>1. /\ worker' = [worker EXCEPT ![w] = "check"] /\ item' = [item EXCEPT ![w] = NULL]
        /\ UNCHANGED <<queue, stamps, tx, sink_item, sinker>>
    BY <1>4 DEF WorkerDrop, WorkerGoto
  <2>2. \A v \in Workers : worker'[v] \in {"process", "forward"} =>
          worker'[v] = worker[v] /\ item'[v] = item[v]
    BY <2>1 DEF ControlInv, TypeOK
  <2>3. \A v \in Workers :
          /\ worker'[v] = "process" => stamps[item'[v]] = 1 .. v[1] - 1
          /\ worker'[v] = "forward" => stamps[item'[v]] = 1 .. v[1]
    BY <2>2 DEF StampsSoFar
  <2>. QED
    BY <2>1, <2>3 DEF StampsSoFar, IsIn
<1>. QED
  BY <1>1, <1>2, <1>3, <1>4, StampsProcess DEF Worker

LEMMA StampsSink ==
  ASSUME ControlInv, ItemInv, StampsSoFar, Sink
  PROVE  StampsSoFar'
<1>1. CASE SinkCheck
  BY <1>1, StampsStay DEF SinkCheck, items, counts, ControlInv, TypeOK, IsIn
<1>2. CASE SinkPoll
  <2>. DEFINE x == Front(NStages)
  <2>1. /\ Dequeue(NStages) /\ sink_item' = x
        /\ sinker' = IF x = NULL THEN "check" ELSE "consume"
        /\ UNCHANGED <<stamps, tx, item, worker>>
    BY <1>2 DEF SinkPoll, items, counts
  <2>2. NStages \in Queues
    BY PipelineAssumption DEF Queues
  <2>3. /\ x # NULL => x \in Items /\ IsIn(x, NStages)
        /\ \A r \in Queues, y \in Items : IsIn(y, r)' => IsIn(y, r)
    BY <2>1, <2>2, DequeueIsIn DEF ControlInv, ItemInv
  <2>4. x # NULL => stamps[x] = Stages
    BY <2>2, <2>3 DEF StampsSoFar, Stages
  <2>. QED
    BY <2>1, <2>3, <2>4 DEF StampsSoFar
<1>3. CASE SinkConsume
  BY <1>3 DEF SinkConsume, StampsSoFar, IsIn
<1>. QED
  BY <1>1, <1>2, <1>3 DEF Sink

LEMMA StampsStep ==
  ControlInv /\ SinkNotBefore /\ ItemInv /\ StampsSoFar /\ [Next]_vars => StampsSoFar'
<1>. SUFFICES ASSUME ControlInv, SinkNotBefore, ItemInv, StampsSoFar, [Next]_vars
              PROVE  StampsSoFar'
  OBVIOUS
<1>1. CASE UNCHANGED vars
  BY <1>1 DEF vars, items, counts, control, threads, StampsSoFar, IsIn
<1>2. ASSUME NEW thread \in {"generator", "sink"}, Expire(thread)
      PROVE  StampsSoFar'
  BY <1>2 DEF Expire, items, counts, control, threads, StampsSoFar, IsIn
<1>. QED
  BY <1>1, <1>2, StampsMain, StampsGenerator, StampsWorker, StampsSink DEF Next, Terminated

LEMMA StampsInvariance == Spec => []StampsSoFar
<1>1. Init => StampsSoFar
  <2>. SUFFICES ASSUME Init PROVE StampsSoFar
    OBVIOUS
  <2>1. \A q \in Queues, x \in Items : ~IsIn(x, q)
    BY ItemsNotNull DEF Init, IsIn
  <2>. QED
    BY <2>1 DEF Init, StampsSoFar
<1>. QED
  BY <1>1, StampsStep, ControlInvariance, SinkInvariance, ItemInvariance, PTL DEF Spec

\* An item in queue q carries the stamps of the stages 1 to q, and the item
\* the sink reads carries all of them (pipeline-app.c:60-62, 157-160).
THEOREM SinkReadsAllStamps == Spec => []StampsComplete
<1>1. ASSUME TypeOK, StampsSoFar
      PROVE  StampsComplete
  <2>1. ASSUME NEW q \in Queues, NEW p \in DOMAIN queue[q], queue[q][p] # NULL
        PROVE  stamps[queue[q][p]] = 1 .. q
    <3>1. queue[q][p] \in Items
      BY <1>1, <2>1, QueueIsSeq DEF Entry
    <3>. QED
      BY <1>1, <3>1 DEF StampsSoFar, IsIn
  <2>. QED
    BY <1>1, <2>1 DEF StampsSoFar, StampsComplete
<1>. QED
  BY <1>1, PipelineTypes, StampsInvariance, PTL

-----------------------------------------------------------------------------
(* The counts: what enters a queue, is in it, in hand behind it, or left.   *)

LEMMA CountsFinite ==
  /\ \A q \in Queues :
       IsFiniteSet({x \in Items : IsIn(x, q)}) /\ Queued(q) \in Nat
  /\ \A q \in Queues :
       IsFiniteSet({t \in Threads : item[<<q + 1, t>>] # NULL}) /\ HeldBehind(q) \in Nat
<1>1. IsFiniteSet(Items)
  BY PipelineAssumption, FS_Interval DEF Items
<1>2. \A q \in Queues : IsFiniteSet({x \in Items : IsIn(x, q)})
  <2>1. \A q \in Queues : {x \in Items : IsIn(x, q)} \in SUBSET Items
    OBVIOUS
  <2>. QED
    BY <1>1, <2>1, FS_Subset
<1>3. \A q \in Queues : IsFiniteSet({t \in Threads : item[<<q + 1, t>>] # NULL})
  <2>1. \A q \in Queues : {t \in Threads : item[<<q + 1, t>>] # NULL} \in SUBSET Threads
    OBVIOUS
  <2>. QED
    BY <2>1, FS_Subset, PipelineAssumption
<1>. QED
  BY <1>2, <1>3, FS_CardinalityType DEF Queued, HeldBehind

LEMMA CountTypes ==
  ASSUME TypeOK, NEW q \in Queues
  PROVE  EnteredQueue(q) \in Int /\ LeftBehind(q) \in Nat
<1>1. q = 0 \/ q \in Stages
  BY PipelineAssumption DEF Queues, Stages
<1>2. q = NStages \/ q + 1 \in Stages
  BY PipelineAssumption DEF Queues, Stages
<1>3. EnteredQueue(q) \in Int
  <2>1. CASE q = 0
    BY <2>1 DEF EnteredQueue, TypeOK
  <2>2. CASE q # 0 /\ q \in Stages
    BY <2>2 DEF EnteredQueue, TypeOK
  <2>. QED
    BY <1>1, <2>1, <2>2
<1>4. LeftBehind(q) \in Nat
  <2>1. CASE q = NStages
    BY <2>1 DEF LeftBehind, TypeOK
  <2>2. CASE q # NStages /\ q + 1 \in Stages
    <3>1. forwarded[q + 1] \in Nat /\ dropped[q + 1] \in Nat
      BY <2>2 DEF TypeOK
    <3>. QED
      BY <2>2, <3>1 DEF LeftBehind
  <2>. QED
    BY <1>2, <2>1, <2>2
<1>. QED
  BY <1>3, <1>4

LEMMA QueuedStays ==
  ASSUME NEW q \in Queues, \A y \in Items : IsIn(y, q)' <=> IsIn(y, q)
  PROVE  Queued(q)' = Queued(q)
<1>1. {y \in Items : IsIn(y, q)}' = {y \in Items : IsIn(y, q)}
  OBVIOUS
<1>. QED
  BY <1>1 DEF Queued

LEMMA QueuedGrows ==
  ASSUME NEW q \in Queues, NEW x \in Items, ~IsIn(x, q),
         \A y \in Items : IsIn(y, q)' <=> IsIn(y, q) \/ y = x
  PROVE  Queued(q)' = Queued(q) + 1
<1>. DEFINE S == {y \in Items : IsIn(y, q)}
<1>1. S' = S \cup {x} /\ x \notin S
  OBVIOUS
<1>2. IsFiniteSet(S)
  BY CountsFinite
<1>3. Cardinality(S \cup {x}) = Cardinality(S) + 1
  BY <1>1, <1>2, FS_AddElement
<1>. QED
  BY <1>1, <1>3 DEF Queued

LEMMA QueuedShrinks ==
  ASSUME NEW q \in Queues, NEW x \in Items, IsIn(x, q),
         \A y \in Items : IsIn(y, q)' <=> IsIn(y, q) /\ y # x
  PROVE  Queued(q)' = Queued(q) - 1
<1>. DEFINE S == {y \in Items : IsIn(y, q)}
<1>1. S' = S \ {x} /\ x \in S
  OBVIOUS
<1>2. IsFiniteSet(S)
  BY CountsFinite
<1>3. Cardinality(S \ {x}) = Cardinality(S) - 1
  BY <1>1, <1>2, FS_RemoveElement
<1>. QED
  BY <1>1, <1>3 DEF Queued

LEMMA HandsStay ==
  ASSUME NEW q \in Queues,
         \A w \in Workers : w[1] = q + 1 => (item'[w] = NULL <=> item[w] = NULL),
         q = NStages => (sink_item' = NULL <=> sink_item = NULL)
  PROVE  HeldBehind(q)' = HeldBehind(q)
<1>1. CASE q = NStages
  BY <1>1 DEF HeldBehind
<1>2. CASE q # NStages
  <2>1. q + 1 \in Stages
    BY <1>2, PipelineAssumption DEF Queues, Stages
  <2>2. \A t \in Threads : <<q + 1, t>> \in Workers /\ <<q + 1, t>>[1] = q + 1
    BY <2>1 DEF Workers
  <2>3. {t \in Threads : item'[<<q + 1, t>>] # NULL} = {t \in Threads : item[<<q + 1, t>>] # NULL}
    BY <2>2
  <2>. QED
    BY <1>2, <2>3 DEF HeldBehind
<1>. QED
  BY <1>1, <1>2

LEMMA HandTakes ==
  ASSUME TypeOK, NEW w \in Workers, NEW x \in Items, item[w] = NULL, item' = [item EXCEPT ![w] = x]
  PROVE  HeldBehind(w[1] - 1)' = HeldBehind(w[1] - 1) + 1
<1>. DEFINE q == w[1] - 1
            S == {t \in Threads : item[<<q + 1, t>>] # NULL}
<1>1. q \in Queues /\ q # NStages /\ q + 1 = w[1]
  BY PipelineAssumption DEF Workers, Stages, Queues
<1>2. w[2] \in Threads /\ w = <<w[1], w[2]>> /\ \A t \in Threads : <<w[1], t>> \in Workers
  BY DEF Workers
<1>3. S' = S \cup {w[2]} /\ w[2] \notin S
  <2>1. \A t \in Threads : item'[<<w[1], t>>] = IF t = w[2] THEN x ELSE item[<<w[1], t>>]
    BY <1>2 DEF TypeOK
  <2>. QED
    BY <1>1, <1>2, <2>1, ItemsNotNull
<1>4. IsFiniteSet(S)
  BY <1>1, CountsFinite
<1>5. Cardinality(S \cup {w[2]}) = Cardinality(S) + 1
  <2>. HIDE DEF S
  <2>. QED
    BY <1>3, <1>4, FS_AddElement
<1>. QED
  BY <1>1, <1>3, <1>5 DEF HeldBehind

LEMMA HandGives ==
  ASSUME TypeOK, NEW w \in Workers, item[w] # NULL, item' = [item EXCEPT ![w] = NULL]
  PROVE  HeldBehind(w[1] - 1)' = HeldBehind(w[1] - 1) - 1
<1>. DEFINE q == w[1] - 1
            S == {t \in Threads : item[<<q + 1, t>>] # NULL}
<1>1. q \in Queues /\ q # NStages /\ q + 1 = w[1]
  BY PipelineAssumption DEF Workers, Stages, Queues
<1>2. w[2] \in Threads /\ w = <<w[1], w[2]>> /\ \A t \in Threads : <<w[1], t>> \in Workers
  BY DEF Workers
<1>3. S' = S \ {w[2]} /\ w[2] \in S
  <2>1. \A t \in Threads : item'[<<w[1], t>>] = IF t = w[2] THEN NULL ELSE item[<<w[1], t>>]
    BY <1>2 DEF TypeOK
  <2>. QED
    BY <1>1, <1>2, <2>1
<1>4. IsFiniteSet(S)
  BY <1>1, CountsFinite
<1>5. Cardinality(S \ {w[2]}) = Cardinality(S) - 1
  <2>. HIDE DEF S
  <2>. QED
    BY <1>3, <1>4, FS_RemoveElement
<1>. QED
  BY <1>1, <1>3, <1>5 DEF HeldBehind

\* A step that changes neither counts nor items keeps the balance.
LEMMA BalanceStays ==
  ASSUME QueuesBalance, UNCHANGED <<queue, tx, drops, forwarded, dropped, processed, item, sink_item>>,
         destroyed \subseteq destroyed'
  PROVE  QueuesBalance'
BY DEF QueuesBalance, Balanced, EnteredQueue, Queued, HeldBehind, LeftBehind, IsIn

LEMMA BalanceGenerate ==
  ASSUME ControlInv, ItemInv, QueuesBalance, GenerateItem
  PROVE  QueuesBalance'
<1>0. PICK x : x = tx
  OBVIOUS
<1>1. /\ x \in Items /\ tx' = tx + 1 /\ tx \in Nat /\ drops \in Nat
      /\ UNCHANGED <<destroyed, forwarded, dropped, processed, item, sink_item>>
  BY <1>0, PipelineAssumption
     DEF GenerateItem, MoreInBatch, ControlInv, TypeOK, BatchFits, Items
<1>2. 0 \in Queues /\ \A q \in Queues : ~IsIn(x, q)
  BY <1>0, <1>1, PipelineAssumption DEF ItemInv, HeapIsHeld, Held, Items, Queues
<1>3. \A q \in Queues : HeldBehind(q)' = HeldBehind(q) /\ LeftBehind(q)' = LeftBehind(q)
  BY <1>1, HandsStay DEF LeftBehind
<1>4. \A q \in Queues : q # 0 => EnteredQueue(q)' = EnteredQueue(q)
  BY <1>1 DEF EnteredQueue
<1>5. EnteredQueue(0) = tx - drops /\ EnteredQueue(0)' = tx' - drops'
  BY DEF EnteredQueue
<1>6. Queued(0) \in Nat /\ HeldBehind(0) \in Nat /\ LeftBehind(0) \in Nat
  BY <1>2, CountsFinite, CountTypes DEF ControlInv
<1>7. CASE HasRoom(0)
  <2>1. Enqueue(0, x) /\ drops' = drops
    BY <1>0, <1>7 DEF GenerateItem
  <2>2. \A q \in Queues, y \in Items : IsIn(y, q)' <=> IsIn(y, q) \/ (q = 0 /\ y = x)
    BY <1>1, <1>2, <2>1, EnqueueIsIn DEF ControlInv
  <2>3. Queued(0)' = Queued(0) + 1
    BY <1>1, <1>2, <2>2, QueuedGrows
  <2>4. \A q \in Queues : q # 0 => Queued(q)' = Queued(q)
    BY <2>2, QueuedStays
  <2>5. EnteredQueue(0)' = EnteredQueue(0) + 1
    BY <1>1, <1>5, <2>1
  <2>6. Balanced(0) => Balanced(0)'
    <3>1. EnteredQueue(0) \in Int
      BY <1>1, <1>5
    <3>. QED
      BY <1>2, <1>3, <1>6, <2>3, <2>5, <3>1 DEF Balanced
  <2>7. \A q \in Queues : q # 0 => (Balanced(q) => Balanced(q)')
    BY <1>3, <1>4, <2>4 DEF Balanced
  <2>. QED
    BY <1>1, <2>6, <2>7 DEF QueuesBalance
<1>8. CASE ~HasRoom(0)
  <2>1. queue' = queue /\ drops' = drops + 1
    BY <1>8 DEF GenerateItem
  <2>2. \A q \in Queues : Queued(q)' = Queued(q)
    BY <2>1 DEF Queued, IsIn
  <2>3. EnteredQueue(0)' = EnteredQueue(0)
    BY <1>1, <1>5, <2>1
  <2>4. \A q \in Queues : Balanced(q) => Balanced(q)'
    BY <1>3, <1>4, <2>2, <2>3 DEF Balanced
  <2>. QED
    BY <1>1, <2>4 DEF QueuesBalance
<1>. QED
  BY <1>7, <1>8

LEMMA BalancePoll ==
  ASSUME ControlInv, ItemInv, QueuesBalance, NEW w \in Workers, WorkerPoll(w)
  PROVE  QueuesBalance'
<1>. DEFINE q == w[1] - 1
<1>0. PICK x : x = Front(q)
  OBVIOUS
<1>1. /\ worker[w] = "poll" /\ Dequeue(q) /\ item' = [item EXCEPT ![w] = x]
      /\ UNCHANGED <<destroyed, tx, drops, forwarded, dropped, processed, sink_item>>
  BY <1>0 DEF WorkerPoll, WorkerAt, input_queue, counts
<1>2. q \in Queues
  BY PipelineAssumption DEF Workers, Stages, Queues
<1>3. /\ x # NULL => x \in Items /\ IsIn(x, q)
      /\ \A r \in Queues, y \in Items : IsIn(y, r)' <=> IsIn(y, r) /\ ~(r = q /\ y = x)
  BY <1>0, <1>1, <1>2, DequeueIsIn DEF ControlInv, ItemInv
<1>4. item[w] = NULL
  BY <1>1 DEF ItemInv, HandsFull
<1>5. \A r \in Queues : EnteredQueue(r)' = EnteredQueue(r) /\ LeftBehind(r)' = LeftBehind(r)
  BY <1>1 DEF EnteredQueue, LeftBehind
<1>6. \A r \in Queues : r # q => Queued(r)' = Queued(r) /\ HeldBehind(r)' = HeldBehind(r)
  <2>1. \A r \in Queues : r # q => Queued(r)' = Queued(r)
    BY <1>3, QueuedStays
  <2>2. \A r \in Queues, v \in Workers : r # q /\ v[1] = r + 1 => item'[v] = item[v]
    <3>1. \A r \in Queues : r # q => w[1] # r + 1
      BY DEF Queues, Workers, Stages
    <3>. QED
      BY <1>1, <3>1 DEF ControlInv, TypeOK
  <2>. QED
    BY <1>1, <2>1, <2>2, HandsStay
<1>7. Queued(q)' + HeldBehind(q)' = Queued(q) + HeldBehind(q)
  <2>1. CASE x = NULL
    <3>1. item' = item
      BY <1>1, <1>4, <2>1 DEF ControlInv, TypeOK
    <3>2. Queued(q)' = Queued(q)
      BY <1>2, <1>3, <2>1, QueuedStays, ItemsNotNull
    <3>3. HeldBehind(q)' = HeldBehind(q)
      BY <1>1, <1>2, <3>1, HandsStay
    <3>. QED
      BY <3>2, <3>3
  <2>2. CASE x # NULL
    <3>1. Queued(q)' = Queued(q) - 1
      BY <1>2, <1>3, <2>2, QueuedShrinks
    <3>2. HeldBehind(q)' = HeldBehind(q) + 1
      BY <1>1, <1>3, <1>4, <2>2, HandTakes DEF ControlInv
    <3>3. Queued(q) \in Nat /\ HeldBehind(q) \in Nat
      BY <1>2, CountsFinite
    <3>. QED
      BY <3>1, <3>2, <3>3
  <2>. QED
    BY <2>1, <2>2
<1>8. Balanced(q) => Balanced(q)'
  <2>1. EnteredQueue(q)' = EnteredQueue(q) /\ LeftBehind(q)' = LeftBehind(q)
    BY <1>2, <1>5
  <2>. QED
    BY <1>7, <2>1 DEF Balanced
<1>9. \A r \in Queues : r # q => (Balanced(r) => Balanced(r)')
  BY <1>5, <1>6 DEF Balanced
<1>. QED
  BY <1>1, <1>8, <1>9 DEF QueuesBalance

LEMMA BalanceForward ==
  ASSUME ControlInv, ItemInv, QueuesBalance, NEW w \in Workers,
         WorkerForward(w) \/ WorkerDrop(w)
  PROVE  QueuesBalance'
<1>. DEFINE q == w[1] - 1
            s == w[1]
<1>0. PICK x : x = item[w]
  OBVIOUS
<1>1. /\ worker[w] = "forward" /\ item' = [item EXCEPT ![w] = NULL]
      /\ UNCHANGED <<destroyed, tx, drops, processed, sink_item>>
  BY DEF WorkerForward, WorkerDrop, WorkerAt
<1>2. /\ q \in Queues /\ s \in Queues /\ s \in Stages /\ s # q /\ s # 0 /\ q # NStages
      /\ q + 1 = s
  BY PipelineAssumption DEF Workers, Stages, Queues
<1>3. x # NULL /\ x \in Items /\ \A r \in Queues : ~IsIn(x, r)
  BY <1>0, <1>1 DEF ItemInv, HandsFull, HandsApart, ControlInv, TypeOK
<1>4. HeldBehind(q)' = HeldBehind(q) - 1
  BY <1>0, <1>1, <1>3, HandGives DEF ControlInv
<1>5. \A r \in Queues : r # q => HeldBehind(r)' = HeldBehind(r)
  <2>1. \A r \in Queues, v \in Workers : r # q /\ v[1] = r + 1 => item'[v] = item[v]
    <3>1. \A r \in Queues : r # q => w[1] # r + 1
      BY DEF Queues, Workers, Stages
    <3>. QED
      BY <1>1, <3>1 DEF ControlInv, TypeOK
  <2>. QED
    BY <1>1, <2>1, HandsStay
<1>6. \A r \in Queues : r # q => LeftBehind(r)' = LeftBehind(r)
  <2>1. \A r \in Queues : r # q => r + 1 # s
    BY DEF Queues, Workers, Stages
  <2>2. \A r \in Queues : r = NStages \/ r + 1 \in Stages
    BY PipelineAssumption DEF Queues, Stages
  <2>3. \A u \in Stages : u # s => forwarded'[u] = forwarded[u] /\ dropped'[u] = dropped[u]
    BY DEF WorkerForward, WorkerDrop, ControlInv, TypeOK
  <2>. QED
    BY <1>1, <2>1, <2>2, <2>3 DEF LeftBehind
<1>7. LeftBehind(q)' = LeftBehind(q) + 1
  <2>1. forwarded[s] \in Nat /\ dropped[s] \in Nat
    BY <1>2 DEF ControlInv, TypeOK
  <2>2. \/ forwarded'[s] = forwarded[s] + 1 /\ dropped'[s] = dropped[s]
        \/ forwarded'[s] = forwarded[s] /\ dropped'[s] = dropped[s] + 1
    BY <1>2 DEF WorkerForward, WorkerDrop, ControlInv, TypeOK
  <2>. QED
    BY <1>2, <2>1, <2>2 DEF LeftBehind
<1>8. \A r \in Queues : r # s => EnteredQueue(r)' = EnteredQueue(r) /\ Queued(r)' = Queued(r)
  <2>1. CASE WorkerForward(w)
    <3>1. Enqueue(s, x)
      BY <1>0, <2>1 DEF WorkerForward, output_queue
    <3>2. \A r \in Queues, y \in Items : IsIn(y, r)' <=> IsIn(y, r) \/ (r = s /\ y = x)
      BY <1>2, <1>3, <3>1, EnqueueIsIn DEF ControlInv
    <3>3. \A r \in Queues : r # s => Queued(r)' = Queued(r)
      BY <3>2, QueuedStays
    <3>4. \A r \in Queues : r # s => EnteredQueue(r)' = EnteredQueue(r)
      <4>1. \A r \in Queues : r = 0 \/ r \in Stages
        BY PipelineAssumption DEF Queues, Stages
      <4>2. \A r \in Stages : r # s => forwarded'[r] = forwarded[r]
        BY <2>1 DEF WorkerForward, ControlInv, TypeOK
      <4>. QED
        BY <1>1, <4>1, <4>2 DEF EnteredQueue
    <3>. QED
      BY <3>3, <3>4
  <2>2. CASE WorkerDrop(w)
    BY <2>2 DEF WorkerDrop, EnteredQueue, Queued, IsIn
  <2>. QED
    BY <2>1, <2>2
<1>9. \/ EnteredQueue(s)' = EnteredQueue(s) + 1 /\ Queued(s)' = Queued(s) + 1
      \/ EnteredQueue(s)' = EnteredQueue(s) /\ Queued(s)' = Queued(s)
  <2>1. EnteredQueue(s) = forwarded[s] /\ EnteredQueue(s)' = forwarded'[s]
    BY <1>2 DEF EnteredQueue
  <2>2. CASE WorkerForward(w)
    <3>1. Enqueue(s, x) /\ forwarded'[s] = forwarded[s] + 1
      BY <1>0, <1>2, <2>2 DEF WorkerForward, output_queue, ControlInv, TypeOK
    <3>2. Queued(s)' = Queued(s) + 1
      BY <1>2, <1>3, <3>1, EnqueueIsIn, QueuedGrows DEF ControlInv
    <3>. QED
      BY <2>1, <3>1, <3>2
  <2>3. CASE WorkerDrop(w)
    <3>1. queue' = queue /\ forwarded' = forwarded
      BY <2>3 DEF WorkerDrop
    <3>2. Queued(s)' = Queued(s)
      BY <1>2, <3>1 DEF Queued, IsIn
    <3>. QED
      BY <2>1, <3>1, <3>2
  <2>. QED
    BY <2>2, <2>3
<1>10. \A r \in Queues : /\ Queued(r) \in Nat /\ HeldBehind(r) \in Nat /\ LeftBehind(r) \in Nat
                         /\ EnteredQueue(r) \in Int
  BY CountsFinite, CountTypes DEF ControlInv
<1>11. Balanced(q) => Balanced(q)'
  <2>1. EnteredQueue(q)' = EnteredQueue(q) /\ Queued(q)' = Queued(q)
    BY <1>2, <1>8
  <2>. QED
    BY <1>2, <1>4, <1>7, <1>10, <2>1 DEF Balanced
<1>12. Balanced(s) => Balanced(s)'
  <2>1. HeldBehind(s)' = HeldBehind(s) /\ LeftBehind(s)' = LeftBehind(s)
    BY <1>2, <1>5, <1>6
  <2>. QED
    BY <1>2, <1>9, <1>10, <2>1 DEF Balanced
<1>13. \A r \in Queues : r # q /\ r # s => (Balanced(r) => Balanced(r)')
  BY <1>5, <1>6, <1>8 DEF Balanced
<1>. QED
  BY <1>1, <1>11, <1>12, <1>13 DEF QueuesBalance

LEMMA BalanceSink ==
  ASSUME ControlInv, ItemInv, QueuesBalance, SinkPoll \/ SinkConsume
  PROVE  QueuesBalance'
<1>1. UNCHANGED <<destroyed, tx, drops, forwarded, dropped, item>>
  BY DEF SinkPoll, SinkConsume, items, counts
<1>2. NStages \in Queues
  BY PipelineAssumption DEF Queues
<1>3. \A q \in Queues : EnteredQueue(q)' = EnteredQueue(q)
  BY <1>1 DEF EnteredQueue
<1>4. \A q \in Queues : q # NStages =>
        HeldBehind(q)' = HeldBehind(q) /\ LeftBehind(q)' = LeftBehind(q)
  BY <1>1 DEF HeldBehind, LeftBehind
<1>5. /\ HeldBehind(NStages) = (IF sink_item = NULL THEN 0 ELSE 1)
      /\ HeldBehind(NStages)' = (IF sink_item' = NULL THEN 0 ELSE 1)
      /\ LeftBehind(NStages) = processed /\ LeftBehind(NStages)' = processed'
  BY DEF HeldBehind, LeftBehind
<1>6. processed \in Nat /\ Queued(NStages) \in Nat
  BY <1>2, CountsFinite DEF ControlInv, TypeOK
<1>7. CASE SinkPoll
  <2>0. PICK x : x = Front(NStages)
    OBVIOUS
  <2>1. /\ sinker = "poll" /\ Dequeue(NStages) /\ sink_item' = x /\ processed' = processed
    BY <1>7, <2>0 DEF SinkPoll, counts
  <2>2. sink_item = NULL
    BY <2>1 DEF ItemInv, HandsFull
  <2>3. /\ x # NULL => x \in Items /\ IsIn(x, NStages)
        /\ \A r \in Queues, y \in Items :
             IsIn(y, r)' <=> IsIn(y, r) /\ ~(r = NStages /\ y = x)
    BY <1>2, <2>0, <2>1, DequeueIsIn DEF ControlInv, ItemInv
  <2>4. \A q \in Queues : q # NStages => Queued(q)' = Queued(q)
    BY <2>3, QueuedStays
  <2>5. Queued(NStages)' + HeldBehind(NStages)' = Queued(NStages)
    <3>1. CASE x = NULL
      <4>1. Queued(NStages)' = Queued(NStages)
        BY <1>2, <2>3, <3>1, QueuedStays, ItemsNotNull
      <4>. QED
        BY <1>5, <1>6, <2>1, <3>1, <4>1
    <3>2. CASE x # NULL
      <4>1. Queued(NStages)' = Queued(NStages) - 1
        BY <1>2, <2>3, <3>2, QueuedShrinks
      <4>. QED
        BY <1>5, <1>6, <2>1, <3>2, <4>1
    <3>. QED
      BY <3>1, <3>2
  <2>6. Balanced(NStages) => Balanced(NStages)'
    BY <1>2, <1>3, <1>5, <1>6, <2>1, <2>2, <2>5 DEF Balanced
  <2>7. \A q \in Queues : q # NStages => (Balanced(q) => Balanced(q)')
    BY <1>3, <1>4, <2>4 DEF Balanced
  <2>. QED
    BY <1>1, <2>6, <2>7 DEF QueuesBalance
<1>8. CASE SinkConsume
  <2>1. /\ sinker = "consume" /\ queue' = queue /\ sink_item' = NULL
        /\ processed' = processed + 1
    BY <1>8 DEF SinkConsume
  <2>2. sink_item # NULL
    BY <2>1 DEF ItemInv, HandsFull
  <2>3. \A q \in Queues : Queued(q)' = Queued(q)
    BY <2>1 DEF Queued, IsIn
  <2>4. Balanced(NStages) => Balanced(NStages)'
    BY <1>2, <1>3, <1>5, <1>6, <2>1, <2>2, <2>3 DEF Balanced
  <2>5. \A q \in Queues : q # NStages => (Balanced(q) => Balanced(q)')
    BY <1>3, <1>4, <2>3 DEF Balanced
  <2>. QED
    BY <1>1, <2>4, <2>5 DEF QueuesBalance
<1>. QED
  BY <1>7, <1>8

LEMMA BalanceDestroy ==
  ASSUME ControlInv, QueuesBalance, NEW q \in Queues, DestroyQueue(q)
  PROVE  QueuesBalance'
<1>1. /\ queue' = [queue EXCEPT ![q] = <<>>] /\ destroyed' = destroyed \cup {q}
      /\ UNCHANGED <<tx, drops, forwarded, dropped, processed, item, sink_item>>
  BY DEF DestroyQueue, LeavesData
<1>2. \A r \in Queues : r # q =>
        \A y \in Items : IsIn(y, r)' <=> IsIn(y, r)
  BY <1>1 DEF IsIn, ControlInv, TypeOK
<1>3. \A r \in Queues : r # q => Queued(r)' = Queued(r)
  BY <1>2, QueuedStays
<1>4. \A r \in Queues : r # q => (Balanced(r) => Balanced(r)')
  BY <1>1, <1>3 DEF Balanced, EnteredQueue, HeldBehind, LeftBehind
<1>. QED
  BY <1>1, <1>4 DEF QueuesBalance

LEMMA BalanceStep ==
  ControlInv /\ ItemInv /\ QueuesBalance /\ [Next]_vars => QueuesBalance'
<1>. SUFFICES ASSUME ControlInv, ItemInv, QueuesBalance, [Next]_vars
              PROVE  QueuesBalance'
  OBVIOUS
<1>1. CASE UNCHANGED vars
  BY <1>1, BalanceStays DEF vars, items, counts
<1>2. ASSUME NEW thread \in {"generator", "sink"}, Expire(thread)
      PROVE  QueuesBalance'
  BY <1>2, BalanceStays DEF Expire, items, counts
<1>3. CASE Generator
  <2>1. CASE GenerateItem
    BY <2>1, BalanceGenerate
  <2>2. CASE GeneratorBatch \/ GeneratorBatchEnd \/ GeneratorExit
    BY <2>2, BalanceStays DEF GeneratorBatch, GeneratorBatchEnd, GeneratorExit, items, counts
  <2>. QED
    BY <1>3, <2>1, <2>2 DEF Generator
<1>4. ASSUME NEW w \in Workers, Worker(w)
      PROVE  QueuesBalance'
  <2>1. CASE WorkerCheck(w) \/ WorkerProcess(w)
    BY <2>1, BalanceStays DEF WorkerCheck, WorkerProcess, items, counts
  <2>. QED
    BY <1>4, <2>1, BalancePoll, BalanceForward DEF Worker
<1>5. CASE Sink
  <2>1. CASE SinkCheck
    BY <2>1, BalanceStays DEF SinkCheck, items, counts
  <2>. QED
    BY <1>5, <2>1, BalanceSink DEF Sink
<1>6. CASE CreateFails
  BY <1>6, BalanceStays DEF CreateFails, LeavesData, items
<1>7. CASE Main
  <2>1. ASSUME NEW q \in Queues, DestroyQueue(q)
        PROVE  QueuesBalance'
    BY <2>1, BalanceDestroy
  <2>2. CASE CreateGenerator \/ CreateSink \/ JoinGenerator \/ JoinSink
    BY <2>2, BalanceStays
       DEF CreateGenerator, CreateSink, JoinGenerator, JoinSink, LeavesData, items
  <2>3. ASSUME NEW s \in Stages, StartStage(s) \/ StageStarted(s) \/ StopStage(s) \/ JoinStage(s)
        PROVE  QueuesBalance'
    BY <2>3, BalanceStays DEF StartStage, StageStarted, StopStage, JoinStage, LeavesData, items
  <2>4. ASSUME NEW w \in Workers, CreateWorker(w)
        PROVE  QueuesBalance'
    BY <2>4, BalanceStays DEF CreateWorker, LeavesData, items
  <2>. QED
    BY <1>7, <2>1, <2>2, <2>3, <2>4 DEF Main
<1>. QED
  BY <1>1, <1>2, <1>3, <1>4, <1>5, <1>6, <1>7 DEF Next, Terminated

LEMMA BalanceInit == Init => QueuesBalance
<1>. SUFFICES ASSUME Init, NEW q \in Queues
              PROVE  Balanced(q)
  BY DEF QueuesBalance
<1>1. {x \in Items : IsIn(x, q)} = {}
  BY ItemsNotNull DEF Init, IsIn
<1>2. Queued(q) = 0
  BY <1>1, FS_EmptySet DEF Queued
<1>3. HeldBehind(q) = 0
  <2>1. CASE q = NStages
    BY <2>1 DEF Init, HeldBehind
  <2>2. CASE q # NStages
    <3>1. \A t \in Threads : <<q + 1, t>> \in Workers
      BY <2>2, PipelineAssumption DEF Queues, Stages, Workers
    <3>2. {t \in Threads : item[<<q + 1, t>>] # NULL} = {}
      BY <3>1 DEF Init
    <3>. QED
      BY <2>2, <3>2, FS_EmptySet DEF HeldBehind
  <2>. QED
    BY <2>1, <2>2
<1>4. EnteredQueue(q) = 0 /\ LeftBehind(q) = 0
  BY PipelineAssumption DEF Init, EnteredQueue, LeftBehind, Queues, Stages
<1>. QED
  BY <1>2, <1>3, <1>4 DEF Balanced

\* What entered a queue is in it, in the hand of a thread behind it, or has
\* left that thread, at every instant, with any number of threads
\* (pipeline-app.c:66-69, 113-121, 155).
THEOREM CountsBalance == Spec => []QueuesBalance
BY BalanceInit, BalanceStep, ControlInvariance, ItemInvariance, PTL DEF Spec

-----------------------------------------------------------------------------
(* The final sum.  DroppedUpTo is recursive: that a function with such      *)
(* values exists for every number of stages is an induction on the stages.  *)

LEMMA LeastNatural ==
  ASSUME NEW T \in SUBSET Nat, T # {}
  PROVE  \E n \in T : \A m \in T : n <= m
<1>. DEFINE R == OpToRel(<, Nat)
<1>1. IsWellFoundedOn(R, Nat)
  BY NatLessThanWellFounded
<1>2. \A x, y \in Nat : y < x => <<y, x>> \in R
  BY DEF OpToRel
<1>. HIDE DEF R
<1>3. PICK x \in T : \A y \in T : <<y, x>> \notin R
  BY <1>1, WFMin
<1>4. \A y \in T : x \in Nat /\ y \in Nat /\ ~(y < x)
  BY <1>2, <1>3
<1>5. \A y \in T : x <= y
  BY <1>4
<1>. QED
  BY <1>5

IsSumTo(f, d, n) ==
  /\ f \in [0 .. n -> Nat]
  /\ \A s \in 0 .. n : f[s] = IF s = 0 THEN 0 ELSE f[s - 1] + d[s]

LEMMA SumsExist ==
  ASSUME NEW d \in [Stages -> Nat]
  PROVE  \E f : IsSumTo(f, d, NStages)
<1>. DEFINE T == {n \in 0 .. NStages : ~ \E f : IsSumTo(f, d, n)}
<1>1. NStages \in Nat
  BY PipelineAssumption
<1>2. SUFFICES ASSUME T # {} PROVE FALSE
  BY <1>1
<1>3. PICK n \in T : \A m \in T : n <= m
  <2>1. T \in SUBSET Nat
    BY <1>1
  <2>. QED
    BY <1>2, <2>1, LeastNatural
<1>4. n \in 0 .. NStages /\ ~ \E f : IsSumTo(f, d, n)
  OBVIOUS
<1>5. CASE n = 0
  <2>1. IsSumTo([s \in 0 .. 0 |-> 0], d, 0)
    BY DEF IsSumTo
  <2>. QED
    BY <1>4, <1>5, <2>1
<1>6. CASE n # 0
  <2>1. n - 1 \in 0 .. NStages /\ n - 1 \notin T /\ n \in Stages /\ n \in Nat
    BY <1>1, <1>3, <1>4, <1>6 DEF Stages
  <2>2. PICK f : IsSumTo(f, d, n - 1)
    BY <2>1
  <2>. DEFINE g == [s \in 0 .. n |-> IF s = n THEN f[n - 1] + d[n] ELSE f[s]]
  <2>3. f \in [0 .. n - 1 -> Nat] /\ f[n - 1] \in Nat /\ d[n] \in Nat
    BY <2>1, <2>2, <1>6 DEF IsSumTo
  <2>4. \A s \in 0 .. n : s = n \/ (s \in 0 .. n - 1 /\ f[s] \in Nat)
    BY <2>1, <2>3
  <2>5. g \in [0 .. n -> Nat]
    BY <2>3, <2>4
  <2>6. ASSUME NEW s \in 0 .. n
        PROVE  g[s] = IF s = 0 THEN 0 ELSE g[s - 1] + d[s]
    <3>1. CASE s = n
      BY <1>6, <2>1, <3>1
    <3>2. CASE s # n
      <4>1. s \in 0 .. n - 1 /\ (s # 0 => s - 1 \in 0 .. n /\ s - 1 # n)
        BY <2>1, <3>2
      <4>. QED
        BY <2>2, <3>2, <4>1 DEF IsSumTo
    <3>. QED
      BY <3>1, <3>2
  <2>7. IsSumTo(g, d, n)
    BY <2>5, <2>6 DEF IsSumTo
  <2>. QED
    BY <1>4, <2>7
<1>. QED
  BY <1>5, <1>6

LEMMA DroppedUpToValue ==
  ASSUME dropped \in [Stages -> Nat]
  PROVE  \A s \in Queues :
           /\ DroppedUpTo[s] \in Nat
           /\ DroppedUpTo[s] = IF s = 0 THEN 0 ELSE DroppedUpTo[s - 1] + dropped[s]
<1>. DEFINE Sums(f) == f = [s \in Queues |-> IF s = 0 THEN 0 ELSE f[s - 1] + dropped[s]]
<1>1. PICK f : IsSumTo(f, dropped, NStages)
  BY SumsExist
<1>2. Sums(f)
  BY <1>1 DEF IsSumTo, Queues
<1>3. DroppedUpTo = CHOOSE g : Sums(g)
  BY DEF DroppedUpTo
<1>4. Sums(DroppedUpTo)
  <2>. HIDE DEF Sums
  <2>. QED
    BY <1>2, <1>3
<1>. DEFINE g == DroppedUpTo
<1>. HIDE DEF g
<1>5. g = DroppedUpTo
  BY DEF g
<1>6. \A s \in Queues : g[s] = IF s = 0 THEN 0 ELSE g[s - 1] + dropped[s]
  BY <1>4, <1>5
<1>7. \A s \in Queues : g[s] \in Nat
  <2>. DEFINE T == {s \in Queues : g[s] \notin Nat}
  <2>1. SUFFICES ASSUME T # {} PROVE FALSE
    OBVIOUS
  <2>2. T \in SUBSET Nat
    BY DEF Queues
  <2>3. PICK s \in T : \A m \in T : s <= m
    BY <2>1, <2>2, LeastNatural
  <2>4. s # 0 => s - 1 \in Queues /\ s - 1 \notin T /\ s \in Stages
    BY <2>3, PipelineAssumption DEF Queues, Stages
  <2>5. s # 0 => g[s - 1] \in Nat /\ dropped[s] \in Nat
    BY <2>4
  <2>. QED
    BY <1>6, <2>3, <2>5
<1>. QED
  BY <1>5, <1>6, <1>7

\* A step outside the teardown that leaves drained alone.
LEMMA DrainedNotYet ==
  ASSUME DrainedSoFar, ~TearingDown, ~TearingDown', drained' = drained
  PROVE  DrainedSoFar'
BY DEF DrainedSoFar, TearingDown

\* destroy_queue counts the items that are in the queue.
LEMMA DrainCounts ==
  ASSUME ControlInv, ItemInv, NEW q \in Queues
  PROVE  Cardinality({p \in DOMAIN queue[q] : queue[q][p] # NULL}) = Queued(q)
<1>. DEFINE P == {p \in DOMAIN queue[q] : queue[q][p] # NULL}
            S == {x \in Items : IsIn(x, q)}
            f == [x \in S |-> CHOOSE p \in DOMAIN queue[q] : queue[q][p] = x]
<1>1. \A p \in P : queue[q][p] \in S
  BY QueueIsSeq DEF ControlInv, Entry, IsIn
<1>2. \A x \in S : f[x] \in P /\ queue[q][f[x]] = x
  BY ItemsNotNull DEF IsIn
<1>3. \A p \in P : f[queue[q][p]] = p
  BY <1>1, <1>2 DEF ItemInv, QueuesDistinct
<1>4. f \in Bijection(S, P)
  <2>1. \A x, y \in S : f[x] = f[y] => x = y
    <3>. HIDE DEF f
    <3>. QED
      BY <1>2
  <2>. HIDE DEF P, S
  <2>2. f \in [S -> P]
    BY <1>2
  <2>3. \A p \in P : \E x \in S : f[x] = p
    BY <1>1, <1>3
  <2>. HIDE DEF f
  <2>. QED
    BY <2>1, <2>2, <2>3 DEF Bijection, Injection, Surjection, IsInjective
<1>5. IsFiniteSet(S)
  BY CountsFinite
<1>6. Cardinality(P) = Cardinality(S)
  <2>1. ExistsBijection(S, P)
    BY <1>4 DEF ExistsBijection
  <2>. QED
    BY <1>5, <2>1, FS_Bijection
<1>. QED
  BY <1>6 DEF Queued

\* Once all threads have ended, no hand holds anything.
LEMMA HandsEmpty ==
  ASSUME ControlInv, ItemInv, TearingDown, NEW q \in Queues
  PROVE  HeldBehind(q) = 0
<1>1. /\ sinker = "exited" /\ \A w \in Workers : worker[w] = "exited"
  BY DEF ControlInv, JoinedThreadsEnded, TearingDown, Stopping
<1>2. sink_item = NULL /\ \A w \in Workers : item[w] = NULL
  BY <1>1 DEF ItemInv, HandsFull
<1>3. CASE q = NStages
  BY <1>2, <1>3 DEF HeldBehind
<1>4. CASE q # NStages
  <2>1. \A t \in Threads : <<q + 1, t>> \in Workers
    BY <1>4, PipelineAssumption DEF Queues, Stages, Workers
  <2>2. {t \in Threads : item[<<q + 1, t>>] # NULL} = {}
    BY <1>2, <2>1
  <2>. QED
    BY <1>4, <2>2, FS_EmptySet DEF HeldBehind
<1>. QED
  BY <1>3, <1>4

LEMMA DrainedDestroy ==
  ASSUME ControlInv, ItemInv, QueuesBalance, DrainedSoFar, NEW q \in Queues, DestroyQueue(q)
  PROVE  DrainedSoFar' /\ TotalsAddUp'
<1>1. /\ main = <<"destroy", q>> /\ drained' = drained + Queued(q)
      /\ destroyed' = destroyed \cup {q}
      /\ UNCHANGED <<tx, drops, forwarded, dropped, processed>>
      /\ \/ q < NStages /\ main' = <<"destroy", q + 1>>
         \/ q = NStages /\ main' = <<"return", 0>>
  <2>1. /\ main = <<"destroy", q>>
        /\ drained' = drained + Cardinality({p \in DOMAIN queue[q] : queue[q][p] # NULL})
        /\ destroyed' = destroyed \cup {q}
        /\ UNCHANGED <<tx, drops, forwarded, dropped, processed>>
        /\ IF q < NStages THEN main' = <<"destroy", q + 1>> ELSE main' = <<"return", 0>>
    BY DEF DestroyQueue, LeavesData, MainAt, MainGoto
  <2>2. q < NStages \/ q = NStages
    BY PipelineAssumption DEF Queues
  <2>. QED
    BY <2>1, <2>2, DrainCounts
<1>2. TearingDown /\ TearingDown'
  BY <1>1 DEF TearingDown
<1>3. (\A r \in destroyed : r < q) /\ tx - drops = DroppedUpTo[q] + EnteredQueue(q) + drained
  BY <1>1 DEF DrainedSoFar
<1>4. EnteredQueue(q) = Queued(q) + LeftBehind(q)
  <2>1. q \notin destroyed /\ Queued(q) \in Nat /\ LeftBehind(q) \in Nat
    <3>1. q \notin destroyed
      BY <1>3 DEF Queues
    <3>. QED
      BY <3>1, CountsFinite, CountTypes DEF ControlInv
  <2>2. HeldBehind(q) = 0
    BY <1>2, HandsEmpty
  <2>. QED
    BY <2>1, <2>2 DEF QueuesBalance, Balanced
<1>5. /\ DroppedUpTo[q] \in Nat /\ drained \in Nat /\ Queued(q) \in Nat
      /\ tx \in Nat /\ drops \in Nat /\ processed \in Nat
  BY DroppedUpToValue, CountsFinite DEF ControlInv, TypeOK
<1>6. DroppedUpTo' = DroppedUpTo
  BY <1>1 DEF DroppedUpTo
<1>7. CASE q < NStages /\ main' = <<"destroy", q + 1>>
  <2>1. q + 1 \in Queues /\ q + 1 \in Stages /\ q # NStages /\ q + 1 # 0 /\ (q + 1) - 1 = q
    BY <1>7, PipelineAssumption DEF Queues, Stages
  <2>2. forwarded[q + 1] \in Nat /\ dropped[q + 1] \in Nat
    BY <2>1 DEF ControlInv, TypeOK
  <2>3. DroppedUpTo[q + 1] = DroppedUpTo[q] + dropped[q + 1]
    BY <2>1, DroppedUpToValue DEF ControlInv, TypeOK
  <2>4. LeftBehind(q) = forwarded[q + 1] + dropped[q + 1] /\ EnteredQueue(q + 1)' = forwarded[q + 1]
    BY <1>1, <2>1 DEF LeftBehind, EnteredQueue
  <2>5. tx - drops = DroppedUpTo[q + 1] + forwarded[q + 1] + (drained + Queued(q))
    BY <1>3, <1>4, <1>5, <2>2, <2>3, <2>4
  <2>6. (tx - drops = DroppedUpTo[q + 1] + EnteredQueue(q + 1) + drained)'
    BY <1>1, <1>6, <2>4, <2>5
  <2>7. \A r \in destroyed' : r < q + 1
    BY <1>1, <1>3 DEF ControlInv, TypeOK, Queues
  <2>8. \A r \in Queues : main' = <<"destroy", r>> => r = q + 1
    BY <1>7
  <2>. QED
    BY <1>2, <1>7, <2>6, <2>7, <2>8 DEF DrainedSoFar, TotalsAddUp
<1>8. CASE q = NStages /\ main' = <<"return", 0>>
  <2>1. LeftBehind(q) = processed
    BY <1>8 DEF LeftBehind
  <2>2. tx = drops + DroppedUpTo[NStages] + processed + (drained + Queued(q))
    <3>1. DroppedUpTo[q] = DroppedUpTo[NStages] /\ EnteredQueue(q) = Queued(q) + processed
      BY <1>4, <1>8, <2>1
    <3>2. ASSUME NEW e, e = EnteredQueue(q), tx - drops = DroppedUpTo[q] + e + drained,
                 e = Queued(q) + processed
          PROVE  tx = drops + DroppedUpTo[q] + processed + (drained + Queued(q))
      BY <1>5, <3>2
    <3>. QED
      BY <1>3, <3>1, <3>2
  <2>. QED
    BY <1>1, <1>2, <1>6, <1>8, <2>2 DEF DrainedSoFar, TotalsAddUp
<1>. QED
  BY <1>1, <1>7, <1>8

\* The last join: nothing is drained yet.
LEMMA DrainedJoin ==
  ASSUME ControlInv, DrainedSoFar, ControlInv', NEW s \in Stages, JoinStage(s)
  PROVE  DrainedSoFar' /\ TotalsAddUp'
<1>1. /\ main = <<"join", s>> /\ drained' = drained /\ destroyed' = destroyed
      /\ UNCHANGED <<tx, drops, dropped>>
      /\ \/ main' = <<"join", s + 1>>
         \/ main' = <<"destroy", 0>>
  BY DEF JoinStage, LeavesData, MainAt, MainGoto
<1>2. drained = 0 /\ destroyed = {}
  BY <1>1 DEF DrainedSoFar, TearingDown, ControlInv, JoinedThreadsEnded
<1>3. CASE main' = <<"join", s + 1>>
  BY <1>1, <1>2, <1>3 DEF DrainedSoFar, TearingDown, TotalsAddUp
<1>4. CASE main' = <<"destroy", 0>>
  <2>1. DroppedUpTo'[0] = 0
    <3>0. 0 \in Queues /\ dropped \in [Stages -> Nat]
      BY PipelineAssumption DEF ControlInv, TypeOK, Queues
    <3>1. DroppedUpTo[0] = 0
      BY <3>0, DroppedUpToValue
    <3>2. DroppedUpTo' = DroppedUpTo
      BY <1>1 DEF DroppedUpTo
    <3>. QED
      BY <3>1, <3>2
  <2>2. EnteredQueue(0)' = tx - drops
    BY <1>1 DEF EnteredQueue
  <2>3. tx \in Nat /\ drops \in Nat
    BY DEF ControlInv, TypeOK
  <2>4. (tx - drops = DroppedUpTo[0] + EnteredQueue(0) + drained)'
    BY <1>1, <1>2, <2>1, <2>2, <2>3
  <2>5. \A r \in Queues : main' = <<"destroy", r>> => r = 0
    BY <1>4
  <2>. QED
    BY <1>1, <1>2, <1>4, <2>4, <2>5 DEF DrainedSoFar, TearingDown, TotalsAddUp
<1>. QED
  BY <1>1, <1>3, <1>4

LEMMA DrainedStays ==
  ASSUME DrainedSoFar, TotalsAddUp,
         UNCHANGED <<main, destroyed, tx, drops, forwarded, dropped, processed, drained>>
  PROVE  DrainedSoFar' /\ TotalsAddUp'
BY DEF DrainedSoFar, TotalsAddUp, TearingDown, EnteredQueue, DroppedUpTo

LEMMA DrainedStep ==
  ControlInv /\ ControlInv' /\ ItemInv /\ QueuesBalance /\ DrainedSoFar /\ TotalsAddUp /\ [Next]_vars
    => DrainedSoFar' /\ TotalsAddUp'
<1>. SUFFICES ASSUME ControlInv, ControlInv', ItemInv, QueuesBalance, DrainedSoFar, TotalsAddUp,
                     [Next]_vars
              PROVE  DrainedSoFar' /\ TotalsAddUp'
  OBVIOUS
<1>1. CASE UNCHANGED vars
  BY <1>1, DrainedStays DEF vars, items, counts, control
<1>2. ASSUME NEW thread \in {"generator", "sink"}, Expire(thread)
      PROVE  DrainedSoFar' /\ TotalsAddUp'
  BY <1>2, DrainedStays DEF Expire, items, counts, control
\* The threads take no step once main destroys the queues.
<1>3. CASE Generator \/ Sink \/ \E w \in Workers : Worker(w)
  <2>1. ~TearingDown
    BY <1>3 DEF Generator, GeneratorBatch, GenerateItem, GeneratorBatchEnd, GeneratorExit,
                Sink, SinkCheck, SinkPoll, SinkConsume,
                Worker, WorkerCheck, WorkerPoll, WorkerProcess, WorkerForward, WorkerDrop, WorkerAt,
                ControlInv, JoinedThreadsEnded, TearingDown, Stopping, Ended
  <2>2. main' = main /\ drained' = drained
    BY <1>3 DEF Generator, GeneratorBatch, GenerateItem, GeneratorBatchEnd, GeneratorExit,
                Sink, SinkCheck, SinkPoll, SinkConsume,
                Worker, WorkerCheck, WorkerPoll, WorkerProcess, WorkerForward, WorkerDrop,
                control, counts
  <2>3. ~TearingDown'
    BY <2>1, <2>2 DEF TearingDown
  <2>. QED
    BY <2>1, <2>2, <2>3, DrainedNotYet DEF TotalsAddUp, TearingDown
<1>4. CASE CreateFails
  <2>1. main' = <<"return", 1>> /\ drained' = drained /\ ~TearingDown
    BY <1>4 DEF CreateFails, MainAt, MainGoto, TearingDown
  <2>. QED
    BY <2>1, DrainedNotYet DEF TotalsAddUp, TearingDown
<1>5. ASSUME NEW q \in Queues, DestroyQueue(q)
      PROVE  DrainedSoFar' /\ TotalsAddUp'
  BY <1>5, DrainedDestroy
<1>6. ASSUME NEW s \in Stages, JoinStage(s)
      PROVE  DrainedSoFar' /\ TotalsAddUp'
  BY <1>6, DrainedJoin
<1>7. ASSUME \/ CreateGenerator \/ CreateSink \/ JoinGenerator \/ JoinSink
             \/ \E s \in Stages : StartStage(s) \/ StageStarted(s) \/ StopStage(s)
             \/ \E w \in Workers : CreateWorker(w)
      PROVE  DrainedSoFar' /\ TotalsAddUp'
  <2>1. drained' = drained
    BY <1>7 DEF CreateGenerator, CreateSink, JoinGenerator, JoinSink, StartStage, StageStarted,
                StopStage, CreateWorker
  <2>. DEFINE Phases == {"generator", "sink", "start", "threads",
                         "join generator", "join sink", "stop", "join"}
  <2>2. ~TearingDown /\ ~TearingDown'
    <3>1. CASE CreateGenerator \/ CreateSink \/ JoinGenerator \/ JoinSink
      <4>1. /\ \/ main = <<"generator", 0>> \/ main = <<"sink", 0>>
               \/ main = <<"join generator", 0>> \/ main = <<"join sink", 0>>
            /\ \/ main' = <<"sink", 0>> \/ main' = <<"start", 1>>
               \/ main' = <<"join sink", 0>> \/ main' = <<"stop", 1>>
        BY <3>1 DEF CreateGenerator, CreateSink, JoinGenerator, JoinSink, MainAt, MainGoto
      <4>2. /\ \E p \in Phases : \E n : main = <<p, n>>
            /\ \E p \in Phases : \E n : main' = <<p, n>>
        BY <4>1
      <4>. QED
        BY <4>2, PhaseNow, PhaseNext
    <3>2. ASSUME NEW s \in Stages, StartStage(s) \/ StageStarted(s) \/ StopStage(s)
          PROVE  ~TearingDown /\ ~TearingDown'
      <4>1. /\ main = <<"start", s>> \/ main = <<"threads", s>> \/ main = <<"stop", s>>
            /\ \/ main' = <<"threads", s>> \/ main' = <<"start", s + 1>>
               \/ main' = <<"join generator", 0>>
               \/ main' = <<"stop", s + 1>> \/ main' = <<"join", 1>>
        BY <3>2 DEF StartStage, StageStarted, StopStage, MainAt, MainGoto
      <4>2. /\ \E p \in Phases : \E n : main = <<p, n>>
            /\ \E p \in Phases : \E n : main' = <<p, n>>
        BY <4>1
      <4>. QED
        BY <4>2, PhaseNow, PhaseNext
    <3>3. ASSUME NEW w \in Workers, CreateWorker(w)
          PROVE  ~TearingDown /\ ~TearingDown'
      <4>1. main = <<"threads", w[1]>> /\ main' = <<"threads", w[1]>>
        BY <3>3 DEF CreateWorker, MainAt
      <4>. QED
        BY <4>1, PhaseNow, PhaseNext
    <3>. QED
      BY <1>7, <3>1, <3>2, <3>3
  <2>. QED
    BY <2>1, <2>2, DrainedNotYet DEF TotalsAddUp, TearingDown
<1>8. CASE Main
  BY <1>5, <1>6, <1>7, <1>8 DEF Main
<1>. QED
  BY <1>1, <1>2, <1>3, <1>4, <1>8 DEF Next, Terminated

LEMMA DrainedInit == Init => DrainedSoFar /\ TotalsAddUp
BY DEF Init, DrainedSoFar, TotalsAddUp, TearingDown

-----------------------------------------------------------------------------
(* The items that nothing has freed: a thread that frees an item counts it. *)

DroppedSums ==
  \A s \in Queues :
    /\ DroppedUpTo[s] \in Nat
    /\ DroppedUpTo[s] = IF s = 0 THEN 0 ELSE DroppedUpTo[s - 1] + dropped[s]

LEMMA DroppedSumsHold == ControlInv => DroppedSums
BY DroppedUpToValue DEF ControlInv, TypeOK, DroppedSums

LEMMA DroppedSumsNext == ControlInv' => DroppedSums'
BY DroppedSumsHold, PTL

\* One more item dropped by stage s is one more in every sum from s on.
LEMMA OneMoreDropped ==
  ASSUME ControlInv, ControlInv', NEW s \in Stages, dropped' = [dropped EXCEPT ![s] = @ + 1]
  PROVE  DroppedUpTo'[NStages] = DroppedUpTo[NStages] + 1
<1>1. PICK f : f = DroppedUpTo
  OBVIOUS
<1>2. PICK g : g = DroppedUpTo'
  OBVIOUS
<1>3. \A q \in Queues : f[q] \in Nat /\ f[q] = IF q = 0 THEN 0 ELSE f[q - 1] + dropped[q]
  BY <1>1, DroppedSumsHold DEF DroppedSums
<1>4. \A q \in Queues : g[q] \in Nat /\ g[q] = IF q = 0 THEN 0 ELSE g[q - 1] + dropped'[q]
  BY <1>2, DroppedSumsNext DEF DroppedSums
<1>5. \A q \in Stages : dropped[q] \in Nat /\ dropped'[q] = dropped[q] + (IF q = s THEN 1 ELSE 0)
  BY DEF ControlInv, TypeOK
<1>6. s \in Nat /\ s # 0 /\ s <= NStages /\ NStages \in Queues
  BY PipelineAssumption DEF Stages, Queues
<1>. DEFINE T == {q \in Queues : g[q] # f[q] + (IF q < s THEN 0 ELSE 1)}
<1>7. T = {}
  <2>1. SUFFICES ASSUME T # {} PROVE FALSE
    OBVIOUS
  <2>2. T \in SUBSET Nat
    BY DEF Queues
  <2>3. PICK q \in T : \A m \in T : q <= m
    BY <2>1, <2>2, LeastNatural
  <2>4. q \in Queues /\ q \in Nat
    BY DEF Queues
  <2>5. q # 0
    BY <1>3, <1>4, <1>6, <2>3, <2>4
  <2>6. q - 1 \in Queues /\ q \in Stages /\ ~(q <= q - 1)
    BY <2>4, <2>5, PipelineAssumption DEF Queues, Stages
  <2>7. g[q - 1] = f[q - 1] + (IF q - 1 < s THEN 0 ELSE 1)
    BY <2>3, <2>6
  <2>8. /\ f[q] = f[q - 1] + dropped[q] /\ f[q - 1] \in Nat
        /\ g[q] = g[q - 1] + (dropped[q] + (IF q = s THEN 1 ELSE 0)) /\ dropped[q] \in Nat
    BY <1>3, <1>4, <1>5, <2>4, <2>5, <2>6
  <2>9. g[q] = f[q] + (IF q < s THEN 0 ELSE 1)
    <3>1. CASE q < s
      BY <1>6, <2>4, <2>7, <2>8, <3>1
    <3>2. CASE q = s
      BY <1>6, <2>4, <2>7, <2>8, <3>2
    <3>3. CASE s < q
      BY <1>6, <2>4, <2>7, <2>8, <3>3
    <3>. QED
      BY <1>6, <2>4, <3>1, <3>2, <3>3
  <2>. QED
    BY <2>3, <2>9
<1>8. g[NStages] = f[NStages] + 1
  <2>1. NStages \notin T
    BY <1>7
  <2>2. g[NStages] = f[NStages] + (IF NStages < s THEN 0 ELSE 1)
    BY <1>6, <2>1
  <2>3. ~(NStages < s)
    BY <1>6, PipelineAssumption
  <2>. QED
    BY <2>2, <2>3
<1>. QED
  BY <1>1, <1>2, <1>8

LEMMA HeapFinite ==
  ASSUME ControlInv
  PROVE  IsFiniteSet(heap) /\ Cardinality(heap) \in Nat
<1>1. IsFiniteSet(Items) /\ heap \in SUBSET Items
  BY PipelineAssumption, FS_Interval DEF ControlInv, TypeOK, Items
<1>. QED
  BY <1>1, FS_Subset, FS_CardinalityType

LEMMA HeapStays ==
  ASSUME HeapCounted, UNCHANGED <<heap, tx, drops, dropped, processed>>
  PROVE  HeapCounted'
BY DEF HeapCounted, DroppedUpTo

\* A new item is allocated and stays so, or is counted as dropped.
LEMMA HeapGenerate ==
  ASSUME ControlInv, ControlInv', ItemInv, HeapCounted, GenerateItem
  PROVE  HeapCounted'
<1>1. /\ tx' = tx + 1 /\ processed' = processed /\ dropped' = dropped
      /\ \/ heap' = heap \cup {tx} /\ drops' = drops
         \/ heap' = heap /\ drops' = drops + 1
  BY DEF GenerateItem
<1>2. tx \notin heap
  BY DEF ControlInv, TypeOK, ItemInv, HeapIsHeld
<1>3. /\ IsFiniteSet(heap) /\ Cardinality(heap) \in Nat
      /\ Cardinality(heap \cup {tx}) = Cardinality(heap) + 1
  BY <1>2, HeapFinite, FS_AddElement
<1>4. DroppedUpTo' = DroppedUpTo
  BY <1>1 DEF DroppedUpTo
<1>5. DroppedUpTo[NStages] \in Nat /\ tx \in Nat /\ drops \in Nat /\ processed \in Nat
  <2>1. NStages \in Queues
    BY PipelineAssumption DEF Queues
  <2>2. DroppedUpTo[NStages] \in Nat
    BY <2>1, DroppedSumsHold DEF DroppedSums
  <2>. QED
    BY <2>2 DEF ControlInv, TypeOK
<1>. QED
  BY <1>1, <1>3, <1>4, <1>5 DEF HeapCounted

\* Who frees an item counts it, as dropped or as processed.
LEMMA HeapFree ==
  ASSUME ControlInv, ControlInv', ItemInv, HeapCounted, NEW x \in Items, Held(x),
         heap' = heap \ {x}, tx' = tx, drops' = drops,
         \/ processed' = processed + 1 /\ dropped' = dropped
         \/ processed' = processed /\ \E s \in Stages : dropped' = [dropped EXCEPT ![s] = @ + 1]
  PROVE  HeapCounted'
<1>1. x \in heap
  BY DEF ItemInv, HeapIsHeld
<1>2. /\ IsFiniteSet(heap) /\ Cardinality(heap) \in Nat
      /\ Cardinality(heap \ {x}) = Cardinality(heap) - 1
  BY <1>1, HeapFinite, FS_RemoveElement
<1>3. PICK n : n = DroppedUpTo[NStages]
  OBVIOUS
<1>4. PICK m : m = DroppedUpTo'[NStages]
  OBVIOUS
<1>5. n \in Nat /\ tx \in Nat /\ drops \in Nat /\ processed \in Nat
  <2>1. NStages \in Queues
    BY PipelineAssumption DEF Queues
  <2>2. DroppedUpTo[NStages] \in Nat
    BY <2>1, DroppedSumsHold DEF DroppedSums
  <2>3. tx \in Nat /\ drops \in Nat /\ processed \in Nat
    BY DEF ControlInv, TypeOK
  <2>. QED
    BY <1>3, <2>2, <2>3
<1>6. m + processed' = n + processed + 1
  <2>1. CASE processed' = processed + 1 /\ dropped' = dropped
    <3>1. m = n
      BY <1>3, <1>4, <2>1 DEF DroppedUpTo
    <3>. QED
      BY <1>5, <2>1, <3>1
  <2>2. ASSUME processed' = processed, NEW s \in Stages, dropped' = [dropped EXCEPT ![s] = @ + 1]
        PROVE  m + processed' = n + processed + 1
    <3>1. m = n + 1
      BY <1>3, <1>4, <2>2, OneMoreDropped
    <3>. QED
      BY <1>5, <2>2, <3>1
  <2>. QED
    BY <2>1, <2>2
<1>7. m \in Nat /\ processed' \in Nat
  <2>1. DroppedSums'
    BY DroppedSumsNext
  <2>2. NStages \in Queues
    BY PipelineAssumption DEF Queues
  <2>3. DroppedUpTo'[NStages] \in Nat
    BY <2>1, <2>2 DEF DroppedSums
  <2>4. processed' \in Nat
    BY DEF ControlInv, TypeOK
  <2>. QED
    BY <1>4, <2>3, <2>4
<1>8. tx = Cardinality(heap) + drops + n + processed
  BY <1>3 DEF HeapCounted
<1>9. tx' = Cardinality(heap') + drops' + m + processed'
  <2>1. PICK c : c = Cardinality(heap)
    OBVIOUS
  <2>2. PICK d : d = Cardinality(heap')
    OBVIOUS
  <2>3. c \in Nat /\ d = c - 1
    BY <1>2, <2>1, <2>2
  <2>4. tx = c + drops + n + processed
    BY <1>8, <2>1
  <2>5. PICK p : p = processed'
    OBVIOUS
  <2>6. p \in Nat /\ m \in Nat /\ m + p = n + processed + 1
    BY <1>6, <1>7, <2>5
  <2>7. tx = d + drops + m + p
    BY <1>5, <2>3, <2>4, <2>6
  <2>8. tx' = d + drops' + m + processed'
    BY <2>5, <2>7
  <2>. QED
    BY <2>2, <2>8
<1>. QED
  BY <1>4, <1>9 DEF HeapCounted

LEMMA HeapCountedStep ==
  ControlInv /\ ControlInv' /\ ItemInv /\ HeapCounted /\ [Next]_vars => HeapCounted'
<1>. SUFFICES ASSUME ControlInv, ControlInv', ItemInv, HeapCounted, [Next]_vars
              PROVE  HeapCounted'
  OBVIOUS
<1>1. CASE Generator
  BY <1>1, HeapGenerate, HeapStays
     DEF Generator, GeneratorBatch, GeneratorBatchEnd, GeneratorExit, items, counts
<1>2. ASSUME NEW w \in Workers, Worker(w)
      PROVE  HeapCounted'
  <2>1. CASE WorkerDrop(w)
    <3>1. /\ worker[w] = "forward" /\ heap' = heap \ {item[w]} /\ w[1] \in Stages
          /\ dropped' = [dropped EXCEPT ![w[1]] = @ + 1]
          /\ UNCHANGED <<tx, drops, processed>>
      BY <2>1 DEF WorkerDrop, WorkerAt, Workers
    <3>2. item[w] \in Items /\ Held(item[w])
      BY <3>1 DEF ControlInv, TypeOK, ItemInv, HandsFull, Held
    <3>. QED
      BY <3>1, <3>2, HeapFree
  <2>2. CASE ~WorkerDrop(w)
    BY <1>2, <2>2, HeapStays
       DEF Worker, WorkerCheck, WorkerPoll, WorkerProcess, WorkerForward, items, counts
  <2>. QED
    BY <2>1, <2>2
<1>3. CASE Sink
  <2>1. CASE SinkConsume
    <3>1. /\ sinker = "consume" /\ heap' = heap \ {sink_item} /\ processed' = processed + 1
          /\ UNCHANGED <<tx, drops, dropped>>
      BY <2>1 DEF SinkConsume
    <3>2. sink_item \in Items /\ Held(sink_item)
      BY <3>1 DEF ControlInv, TypeOK, ItemInv, HandsFull, Held
    <3>. QED
      BY <3>1, <3>2, HeapFree
  <2>2. CASE SinkCheck \/ SinkPoll
    BY <2>2, HeapStays DEF SinkCheck, SinkPoll, items, counts
  <2>. QED
    BY <1>3, <2>1, <2>2 DEF Sink
<1>4. CASE Main
  BY <1>4, HeapStays
     DEF Main, CreateGenerator, CreateSink, StartStage, StageStarted, CreateWorker, JoinGenerator,
         JoinSink, StopStage, JoinStage, DestroyQueue, LeavesData, items
<1>5. CASE CreateFails \/ (\E thread \in {"generator", "sink"} : Expire(thread)) \/ UNCHANGED vars
  BY <1>5, HeapStays DEF CreateFails, LeavesData, Expire, vars, items, counts
<1>. QED
  BY <1>1, <1>2, <1>3, <1>4, <1>5 DEF Next, Terminated

LEMMA HeapCountedInit == Init => HeapCounted
<1>. SUFFICES ASSUME Init PROVE HeapCounted
  OBVIOUS
<1>1. tx = 0 /\ drops = 0 /\ processed = 0 /\ Cardinality(heap) = 0
  BY FS_EmptySet DEF Init
<1>2. PICK f : f = DroppedUpTo
  OBVIOUS
<1>3. \A q \in Queues : f[q] \in Nat /\ f[q] = IF q = 0 THEN 0 ELSE f[q - 1] + dropped[q]
  BY <1>2, ControlInit, DroppedSumsHold DEF DroppedSums
<1>4. \A s \in Stages : dropped[s] = 0
  BY DEF Init
<1>. DEFINE T == {q \in Queues : f[q] # 0}
<1>5. T = {}
  <2>1. SUFFICES ASSUME T # {} PROVE FALSE
    OBVIOUS
  <2>2. T \in SUBSET Nat
    BY DEF Queues
  <2>3. PICK q \in T : \A m \in T : q <= m
    BY <2>1, <2>2, LeastNatural
  <2>4. q \in Queues /\ q \in Nat /\ q # 0
    BY <1>3 DEF Queues
  <2>5. q - 1 \in Queues /\ q \in Stages /\ ~(q <= q - 1)
    BY <2>4, PipelineAssumption DEF Queues, Stages
  <2>6. f[q - 1] = 0 /\ f[q] = f[q - 1] + 0
    BY <1>3, <1>4, <2>3, <2>4, <2>5
  <2>. QED
    BY <2>3, <2>6
<1>6. f[NStages] = 0
  BY <1>5, PipelineAssumption DEF Queues
<1>. QED
  BY <1>1, <1>2, <1>6 DEF HeapCounted

\* What the drained items complete is what the heap still has.
LEMMA CountsFollow ==
  ASSUME ControlInv, TotalsAddUp, HeapCounted
  PROVE  CountsAddUp
<1>1. PICK n : n = DroppedUpTo[NStages]
  OBVIOUS
<1>2. /\ n \in Nat /\ tx \in Nat /\ drops \in Nat /\ processed \in Nat /\ drained \in Nat
      /\ Cardinality(heap) \in Nat
  BY <1>1, HeapFinite, DroppedSumsHold, PipelineAssumption DEF DroppedSums, ControlInv, TypeOK, Queues
<1>3. tx = Cardinality(heap) + drops + n + processed
  BY <1>1 DEF HeapCounted
<1>4. ASSUME main = <<"return", 0>>
      PROVE  tx = drops + n + processed + drained /\ Cardinality(heap) = drained
  <2>1. tx = drops + n + processed + drained
    BY <1>1, <1>4 DEF TotalsAddUp
  <2>. QED
    BY <1>2, <1>3, <2>1
<1>. QED
  BY <1>1, <1>4 DEF CountsAddUp

\* Every generated item was counted once, by the thread that got rid of it, or
\* is one of those that were drained and never freed, for any number of stages
\* and threads (pipeline-app.c:66-71, 117-122, queue.h:74-82).
THEOREM EveryItemCounted == Spec => []CountsAddUp
<1>1. Spec => []TotalsAddUp
  BY DrainedInit, DrainedStep, ControlInvariance, ItemInvariance, CountsBalance, PTL DEF Spec
<1>2. Spec => []HeapCounted
  BY HeapCountedInit, HeapCountedStep, ControlInvariance, ItemInvariance, PTL DEF Spec
<1>. QED
  BY <1>1, <1>2, CountsFollow, ControlInvariance, PTL

=============================================================================

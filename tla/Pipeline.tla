------------------------------ MODULE Pipeline ------------------------------
(***************************************************************************)
(* pipeline-app.c (and, with other constants, mt-pipeline.c and rtc-app.c):*)
(* a generator fills the first of a row of queues, the threads of stage s  *)
(* move items from queue s - 1 to queue s, a sink empties the last queue.  *)
(* main creates the threads, waits for the generator and the sink, stops   *)
(* and joins the stages, and destroys the queues.                          *)
(*                                                                         *)
(* A queue operation is one step, as BoundedQueue, which the ring buffer   *)
(* implements, allows; the entry a fresh queue holds is a null pointer.    *)
(***************************************************************************)
EXTENDS Integers, Sequences, FiniteSets

CONSTANTS
  NStages,    \* number of stages: 3 in pipeline-app.c, 1 in rtc-app.c
  Threads,    \* the threads of one stage
  Capacity,   \* queue_size
  BatchSize,  \* BATCH_SIZE
  MaxItems,   \* bound: no batch starts that would generate more items
  NULL

ASSUME PipelineAssumption ==
  /\ NStages \in Nat \ {0}
  /\ IsFiniteSet(Threads)
  /\ Capacity \in Nat /\ Capacity >= 2
  /\ BatchSize \in Nat \ {0}
  /\ MaxItems \in Nat
  /\ NULL \notin Nat

Stages == 1 .. NStages
Queues == 0 .. NStages
Workers == Stages \X Threads
Items == 0 .. MaxItems - 1    \* an item is its id

VARIABLES
  queue,       \* the entries of each queue, oldest first
  destroyed,   \* the queues that destroy_queue has freed
  heap,        \* the allocated items
  stamps,      \* per item, the stages whose stage_got_ts and stage_ok_ts are set
  tx, drops,   \* the generator's statistics
  forwarded, dropped,         \* per stage, the sum over its threads
  processed,   \* the sink's count
  drained,     \* what destroy_queue found in the queues
  is_running,  \* the flag of each stage
  main, generator, sinker, worker,  \* what each thread does next
  i,           \* the generator's index in the batch
  item,        \* the local variable item of each worker
  sink_item,   \* and of the sink
  expired      \* the threads whose end_time has passed

items == <<heap, stamps>>
counts == <<tx, drops, forwarded, dropped, processed, drained>>
threads == <<generator, sinker, worker>>
control == <<main, threads>>
vars == <<queue, destroyed, items, counts, is_running, control,
          i, item, sink_item, expired>>

-----------------------------------------------------------------------------
(* enqueue and dequeue, as BoundedQueue has them.                           *)

HasRoom(q) == Len(queue[q]) < Capacity - 1

\* Mutant: the item goes to the wrong end.
EnqueueFront(q, x) == queue' = [queue EXCEPT ![q] = <<x>> \o @]

Enqueue(q, x) == queue' = [queue EXCEPT ![q] = Append(@, x)]

Dequeue(q) == queue' = [queue EXCEPT ![q] = IF @ = <<>> THEN @ ELSE Tail(@)]

\* The value dequeue returns.
Front(q) == IF queue[q] = <<>> THEN NULL ELSE Head(queue[q])

-----------------------------------------------------------------------------
\* main up to the creation of the first thread: queues and stages exist.
Init ==
  /\ queue = [q \in Queues |-> <<NULL>>]
  /\ destroyed = {}
  /\ heap = {}
  /\ stamps = [x \in Items |-> {}]
  /\ tx = 0 /\ drops = 0 /\ processed = 0 /\ drained = 0
  /\ forwarded = [s \in Stages |-> 0]
  /\ dropped = [s \in Stages |-> 0]
  /\ is_running = [s \in Stages |-> FALSE]
  /\ main = <<"generator", 0>>
  /\ generator = "none"
  /\ sinker = "none"
  /\ worker = [w \in Workers |-> "none"]
  /\ i = 0
  /\ item = [w \in Workers |-> NULL]
  /\ sink_item = NULL
  /\ expired = {}

\* main has returned, and with it the process and all its threads.
Ended == main \in {<<"return", 0>>, <<"return", 1>>}

-----------------------------------------------------------------------------
(* generate_items.                                                          *)

\* The clock passes the end_time of the generator or of the sink.
Expire(thread) ==
  /\ ~Ended
  /\ thread \notin expired
  /\ \/ thread = "generator" /\ generator # "none"
     \/ thread = "sink" /\ sinker # "none"
  /\ expired' = expired \cup {thread}
  /\ UNCHANGED <<queue, destroyed, items, counts, is_running, control, i, item, sink_item>>

GeneratorBatch ==
  /\ ~Ended
  /\ generator = "check"
  /\ "generator" \notin expired
  /\ tx + BatchSize <= MaxItems
  /\ generator' = "batch"
  /\ i' = 0
  /\ UNCHANGED <<queue, destroyed, items, counts, is_running, main, sinker, worker>>
  /\ UNCHANGED <<item, sink_item, expired>>

\* Mutant: the batch has one item too many.
OneMoreInBatch == i <= BatchSize

MoreInBatch == i < BatchSize

\* A new item, enqueued or, if the queue is full, dropped.
GenerateItem ==
  /\ ~Ended
  /\ generator = "batch"
  /\ MoreInBatch
  /\ i' = i + 1
  /\ tx' = tx + 1
  /\ IF HasRoom(0)
     THEN /\ Enqueue(0, tx)
          /\ heap' = heap \cup {tx}
          /\ drops' = drops
     ELSE /\ drops' = drops + 1
          /\ UNCHANGED <<queue, heap>>
  /\ UNCHANGED <<destroyed, stamps, forwarded, dropped, processed, drained>>
  /\ UNCHANGED <<is_running, control, item, sink_item, expired>>

GeneratorBatchEnd ==
  /\ ~Ended
  /\ generator = "batch"
  /\ ~MoreInBatch
  /\ generator' = "check"
  /\ UNCHANGED <<queue, destroyed, items, counts, is_running, main, sinker, worker>>
  /\ UNCHANGED <<i, item, sink_item, expired>>

GeneratorExit ==
  /\ ~Ended
  /\ generator = "check"
  /\ "generator" \in expired
  /\ generator' = "exited"
  /\ UNCHANGED <<queue, destroyed, items, counts, is_running, main, sinker, worker>>
  /\ UNCHANGED <<i, item, sink_item, expired>>

Generator == GeneratorBatch \/ GenerateItem \/ GeneratorBatchEnd \/ GeneratorExit

-----------------------------------------------------------------------------
(* poll_jobs, run by every worker w of stage w[1].                          *)

WorkerAt(w, label) == ~Ended /\ worker[w] = label
WorkerGoto(w, label) == worker' = [worker EXCEPT ![w] = label]

WorkerCheck(w) ==
  /\ WorkerAt(w, "check")
  /\ WorkerGoto(w, IF is_running[w[1]] THEN "poll" ELSE "exited")
  /\ UNCHANGED <<queue, destroyed, items, counts, is_running, main, generator, sinker>>
  /\ UNCHANGED <<i, item, sink_item, expired>>

\* The queues of a stage.  Mutant: it puts items back where it found them.
input_queue(s) == s - 1

OutputIsInput(s) == s - 1

output_queue(s) == s

\* Mutant: the item is forwarded unprocessed.
AfterPollForward(x) == IF x = NULL THEN "check" ELSE "forward"

AfterPoll(x) == IF x = NULL THEN "check" ELSE "process"

\* Without an item the thread sleeps and tests the flag again.
WorkerPoll(w) ==
  /\ WorkerAt(w, "poll")
  /\ item' = [item EXCEPT ![w] = Front(input_queue(w[1]))]
  /\ Dequeue(input_queue(w[1]))
  /\ WorkerGoto(w, AfterPoll(item'[w]))
  /\ UNCHANGED <<destroyed, items, counts, is_running, main, generator, sinker>>
  /\ UNCHANGED <<i, sink_item, expired>>

\* Stamp the item, work, stamp it again.
WorkerProcess(w) ==
  /\ WorkerAt(w, "process")
  /\ stamps' = [stamps EXCEPT ![item[w]] = @ \cup {w[1]}]
  /\ WorkerGoto(w, "forward")
  /\ UNCHANGED <<queue, destroyed, heap, counts, is_running, main, generator, sinker>>
  /\ UNCHANGED <<i, item, sink_item, expired>>

WorkerForward(w) ==
  /\ WorkerAt(w, "forward")
  /\ HasRoom(output_queue(w[1]))
  /\ Enqueue(output_queue(w[1]), item[w])
  /\ forwarded' = [forwarded EXCEPT ![w[1]] = @ + 1]
  /\ item' = [item EXCEPT ![w] = NULL]
  /\ WorkerGoto(w, "check")
  /\ UNCHANGED <<destroyed, items, tx, drops, dropped, processed, drained>>
  /\ UNCHANGED <<is_running, main, generator, sinker, i, sink_item, expired>>

\* Mutant: the worker of a full queue goes on without having freed the item.
WorkerDropKeeps(w) ==
  /\ WorkerAt(w, "forward")
  /\ ~HasRoom(output_queue(w[1]))
  /\ WorkerGoto(w, "check")
  /\ UNCHANGED <<queue, destroyed, items, counts, item>>
  /\ UNCHANGED <<is_running, main, generator, sinker, i, sink_item, expired>>

\* Mutant: the worker of a full queue counts the item and forgets it.
WorkerDropLeaks(w) ==
  /\ WorkerAt(w, "forward")
  /\ ~HasRoom(output_queue(w[1]))
  /\ dropped' = [dropped EXCEPT ![w[1]] = @ + 1]
  /\ item' = [item EXCEPT ![w] = NULL]
  /\ WorkerGoto(w, "check")
  /\ UNCHANGED <<queue, destroyed, items, tx, drops, forwarded, processed, drained>>
  /\ UNCHANGED <<is_running, main, generator, sinker, i, sink_item, expired>>

\* The output queue is full: the item is freed.
WorkerDrop(w) ==
  /\ WorkerAt(w, "forward")
  /\ ~HasRoom(output_queue(w[1]))
  /\ dropped' = [dropped EXCEPT ![w[1]] = @ + 1]
  /\ heap' = heap \ {item[w]}
  /\ item' = [item EXCEPT ![w] = NULL]
  /\ WorkerGoto(w, "check")
  /\ UNCHANGED <<queue, destroyed, stamps>>
  /\ UNCHANGED <<tx, drops, forwarded, processed, drained>>
  /\ UNCHANGED <<is_running, main, generator, sinker, i, sink_item, expired>>

Worker(w) ==
  WorkerCheck(w) \/ WorkerPoll(w) \/ WorkerProcess(w) \/ WorkerForward(w) \/ WorkerDrop(w)

-----------------------------------------------------------------------------
(* sink.                                                                    *)

SinkCheck ==
  /\ ~Ended
  /\ sinker = "check"
  /\ sinker' = IF "sink" \in expired THEN "exited" ELSE "poll"
  /\ UNCHANGED <<queue, destroyed, items, counts, is_running, main, generator, worker>>
  /\ UNCHANGED <<i, item, sink_item, expired>>

SinkPoll ==
  /\ ~Ended
  /\ sinker = "poll"
  /\ sink_item' = Front(NStages)
  /\ Dequeue(NStages)
  /\ sinker' = IF Front(NStages) = NULL THEN "check" ELSE "consume"
  /\ UNCHANGED <<destroyed, items, counts, is_running, main, generator, worker>>
  /\ UNCHANGED <<i, item, expired>>

\* Read the item's stamps, add up the latencies, free it.
SinkConsume ==
  /\ ~Ended
  /\ sinker = "consume"
  /\ processed' = processed + 1
  /\ heap' = heap \ {sink_item}
  /\ sink_item' = NULL
  /\ sinker' = "check"
  /\ UNCHANGED <<queue, destroyed, stamps>>
  /\ UNCHANGED <<tx, drops, forwarded, dropped, drained>>
  /\ UNCHANGED <<is_running, main, generator, worker, i, item, expired>>

Sink == SinkCheck \/ SinkPoll \/ SinkConsume

-----------------------------------------------------------------------------
(* main.  Its program counter is a phase and the stage, thread group or     *)
(* queue the phase has come to.                                             *)

MainAt(phase, n) == main = <<phase, n>>
MainGoto(phase, n) == main' = <<phase, n>>
LeavesData ==
  UNCHANGED <<items, tx, drops, forwarded, dropped, processed, i, item, sink_item, expired>>

CreateGenerator ==
  /\ MainAt("generator", 0)
  /\ generator' = "check"
  /\ MainGoto("sink", 0)
  /\ UNCHANGED <<queue, destroyed, drained, is_running, sinker, worker>>
  /\ LeavesData

CreateSink ==
  /\ MainAt("sink", 0)
  /\ sinker' = "check"
  /\ MainGoto("start", 1)
  /\ UNCHANGED <<queue, destroyed, drained, is_running, generator, worker>>
  /\ LeavesData

\* Mutants: the flag is never set; it is never reset.
LeaveRunning(s, flag) == UNCHANGED is_running
OnlyStart(s, flag) == is_running' = [is_running EXCEPT ![s] = TRUE]

SetRunning(s, flag) == is_running' = [is_running EXCEPT ![s] = flag]

\* stage->is_running = true, before the first thread of the stage exists.
StartStage(s) ==
  /\ MainAt("start", s)
  /\ SetRunning(s, TRUE)
  /\ MainGoto("threads", s)
  /\ UNCHANGED <<queue, destroyed, drained, threads>>
  /\ LeavesData

CreateWorker(w) ==
  /\ MainAt("threads", w[1])
  /\ worker[w] = "none"
  /\ WorkerGoto(w, "check")
  /\ UNCHANGED <<queue, destroyed, drained, is_running, main, generator, sinker>>
  /\ LeavesData

StageStarted(s) ==
  /\ MainAt("threads", s)
  /\ \A t \in Threads : worker[<<s, t>>] # "none"
  /\ IF s < NStages THEN MainGoto("start", s + 1) ELSE MainGoto("join generator", 0)
  /\ UNCHANGED <<queue, destroyed, drained, is_running, threads>>
  /\ LeavesData

\* pthread_create fails: main returns 1.
CreateFails ==
  /\ \/ MainAt("generator", 0)
     \/ MainAt("sink", 0)
     \/ \E w \in Workers : MainAt("threads", w[1]) /\ worker[w] = "none"
  /\ MainGoto("return", 1)
  /\ UNCHANGED <<queue, destroyed, drained, is_running, threads>>
  /\ LeavesData

JoinGenerator ==
  /\ MainAt("join generator", 0)
  /\ generator = "exited"
  /\ MainGoto("join sink", 0)
  /\ UNCHANGED <<queue, destroyed, drained, is_running, threads>>
  /\ LeavesData

JoinSink ==
  /\ MainAt("join sink", 0)
  /\ sinker = "exited"
  /\ MainGoto("stop", 1)
  /\ UNCHANGED <<queue, destroyed, drained, is_running, threads>>
  /\ LeavesData

StopStage(s) ==
  /\ MainAt("stop", s)
  /\ SetRunning(s, FALSE)
  /\ IF s < NStages THEN MainGoto("stop", s + 1) ELSE MainGoto("join", 1)
  /\ UNCHANGED <<queue, destroyed, drained, threads>>
  /\ LeavesData

\* Mutant: main waits for the last thread only.
AnyExited(s) == \E t \in Threads : worker[<<s, t>>] = "exited"

AllExited(s) == \A t \in Threads : worker[<<s, t>>] = "exited"

JoinStage(s) ==
  /\ MainAt("join", s)
  /\ AllExited(s)
  /\ IF s < NStages THEN MainGoto("join", s + 1) ELSE MainGoto("destroy", 0)
  /\ UNCHANGED <<queue, destroyed, drained, is_running, threads>>
  /\ LeavesData

\* destroy_queue counts what it drains and forgets it; the item is not freed.
DestroyQueue(q) ==
  /\ MainAt("destroy", q)
  /\ drained' = drained + Cardinality({p \in DOMAIN queue[q] : queue[q][p] # NULL})
  /\ queue' = [queue EXCEPT ![q] = <<>>]
  /\ destroyed' = destroyed \cup {q}
  /\ IF q < NStages THEN MainGoto("destroy", q + 1) ELSE MainGoto("return", 0)
  /\ UNCHANGED <<is_running, threads>>
  /\ LeavesData

Main ==
  \/ CreateGenerator \/ CreateSink
  \/ \E s \in Stages : StartStage(s) \/ StageStarted(s)
  \/ \E w \in Workers : CreateWorker(w)
  \/ JoinGenerator \/ JoinSink
  \/ \E s \in Stages : StopStage(s) \/ JoinStage(s)
  \/ \E q \in Queues : DestroyQueue(q)

-----------------------------------------------------------------------------
\* The process is gone.
Terminated == Ended /\ UNCHANGED vars

Next ==
  \/ Main \/ CreateFails
  \/ Generator \/ Sink
  \/ \E w \in Workers : Worker(w)
  \/ \E thread \in {"generator", "sink"} : Expire(thread)
  \/ Terminated

Spec == Init /\ [][Next]_vars
=============================================================================

---------------------------- MODULE ShmPipeline ----------------------------
(***************************************************************************)
(* mt-pipeline-shm.c.  Its main, sink, clock and counters are those of     *)
(* Pipeline; its generator and its stages differ: the generator puts the   *)
(* address of every item into the queues of all three stages, each stage   *)
(* waits until the one before has marked the item, and only the last one   *)
(* passes it on, to the sink.                                              *)
(*                                                                         *)
(* The elements of Items are addresses here, stamps holds the steps_ok of  *)
(* the item at an address, and malloc may return a freed address again.    *)
(***************************************************************************)
EXTENDS Pipeline

ASSUME ShmAssumption == NStages = 3

VARIABLES
  j,          \* the queue the generator comes to next, 1 .. NStages
  gen_item    \* its local variable item

gen_vars == <<j, gen_item>>
shm_vars == <<vars, gen_vars>>

ShmInit == Init /\ j = 1 /\ gen_item = NULL

\* The queue of a stage, and the one to the sink.
stage_queue(s) == s - 1

\* Mutant: the last stage puts items back into its own queue.
OwnQueue == NStages - 1

sink_queue == NStages

-----------------------------------------------------------------------------
(* generate_items.                                                          *)

\* malloc, the next id, no marks.
NewItem ==
  /\ ~Ended
  /\ generator = "batch"
  /\ MoreInBatch
  /\ generator' = "publish"
  /\ \E a \in Items \ heap :
       /\ gen_item' = a
       /\ heap' = heap \cup {a}
       /\ stamps' = [stamps EXCEPT ![a] = {}]
  /\ tx' = tx + 1
  /\ i' = i + 1
  /\ j' = 1
  /\ UNCHANGED <<queue, destroyed, drops, forwarded, dropped, processed, drained>>
  /\ UNCHANGED <<is_running, main, sinker, worker, item, sink_item, expired>>

\* Mutant: the pointer survives the free.
KeepPointer(p) == p

AfterFree(p) == NULL

\* Enqueue into one queue.  The null pointer of a dropped item is accepted by
\* a queue with room, and leaves no entry; a full queue counts one more drop.
\* The marks of a freed item are forgotten: see StepsOk.
PublishItem ==
  /\ ~Ended
  /\ generator = "publish"
  /\ IF HasRoom(stage_queue(j))
     THEN /\ IF gen_item = NULL THEN UNCHANGED queue
             ELSE Enqueue(stage_queue(j), gen_item)
          /\ gen_item' = IF j < NStages THEN gen_item ELSE NULL
          /\ UNCHANGED <<drops, heap, stamps>>
     ELSE /\ drops' = drops + 1
          /\ heap' = heap \ {gen_item}
          /\ stamps' = [a \in Items |-> IF a = gen_item THEN {} ELSE stamps[a]]
          /\ gen_item' = IF j < NStages THEN AfterFree(gen_item) ELSE NULL
          /\ UNCHANGED queue
  /\ IF j < NStages
     THEN j' = j + 1 /\ UNCHANGED generator
     ELSE j' = 1 /\ generator' = "batch"
  /\ UNCHANGED <<destroyed, tx, forwarded, dropped, processed, drained>>
  /\ UNCHANGED <<is_running, main, sinker, worker, i, item, sink_item, expired>>

ShmGenerator ==
  \/ NewItem \/ PublishItem
  \/ ((GeneratorBatch \/ GeneratorBatchEnd \/ GeneratorExit) /\ UNCHANGED gen_vars)

-----------------------------------------------------------------------------
(* poll_jobs.                                                               *)

\* Take an entry and write its stage_got_ts.
ShmPoll(w) ==
  /\ WorkerAt(w, "poll")
  /\ item' = [item EXCEPT ![w] = Front(stage_queue(w[1]))]
  /\ Dequeue(stage_queue(w[1]))
  /\ WorkerGoto(w, IF item'[w] = NULL THEN "check"
                   ELSE IF w[1] = 1 THEN "process" ELSE "wait")
  /\ UNCHANGED <<destroyed, items, counts, is_running, main, generator, sinker>>
  /\ UNCHANGED <<i, sink_item, expired, gen_vars>>

\* Mutant: every stage waits for the first.
FirstStage(w) == 1

\* Mutant: a stage waits for its own mark.
OwnStage(w) == w[1]

PreviousStage(w) == w[1] - 1

\* What a read of steps_ok may return: a freed item holds anything.
StepsOk(a, s) == IF a \in heap THEN {s \in stamps[a]} ELSE BOOLEAN

\* Neither the stage's flag nor the clock ends the wait.
WaitOn(w) ==
  /\ WorkerAt(w, "wait")
  /\ FALSE \in StepsOk(item[w], PreviousStage(w))
  /\ UNCHANGED shm_vars

WaitOver(w) ==
  /\ WorkerAt(w, "wait")
  /\ TRUE \in StepsOk(item[w], PreviousStage(w))
  /\ WorkerGoto(w, "process")
  /\ UNCHANGED <<queue, destroyed, items, counts, is_running, main, generator, sinker>>
  /\ UNCHANGED <<i, item, sink_item, expired, gen_vars>>

\* Work, mark the item, count it; the last stage still has to pass it on.
MarkItem(w) ==
  /\ WorkerAt(w, "process")
  /\ stamps' = IF item[w] \in heap
               THEN [stamps EXCEPT ![item[w]] = @ \cup {w[1]}] ELSE stamps
  /\ forwarded' = [forwarded EXCEPT ![w[1]] = @ + 1]
  /\ IF w[1] = NStages
     THEN WorkerGoto(w, "forward") /\ UNCHANGED item
     ELSE WorkerGoto(w, "check") /\ item' = [item EXCEPT ![w] = NULL]
  /\ UNCHANGED <<queue, destroyed, heap, tx, drops, dropped, processed, drained>>
  /\ UNCHANGED <<is_running, main, generator, sinker, i, sink_item, expired, gen_vars>>

SendToSink(w) ==
  /\ WorkerAt(w, "forward")
  /\ HasRoom(sink_queue)
  /\ Enqueue(sink_queue, item[w])
  /\ item' = [item EXCEPT ![w] = NULL]
  /\ WorkerGoto(w, "check")
  /\ UNCHANGED <<destroyed, items, counts, is_running, main, generator, sinker>>
  /\ UNCHANGED <<i, sink_item, expired, gen_vars>>

\* The queue to the sink is full: the drop is counted, the item not freed.
LoseItem(w) ==
  /\ WorkerAt(w, "forward")
  /\ ~HasRoom(sink_queue)
  /\ dropped' = [dropped EXCEPT ![w[1]] = @ + 1]
  /\ item' = [item EXCEPT ![w] = NULL]
  /\ WorkerGoto(w, "check")
  /\ UNCHANGED <<queue, destroyed, items, tx, drops, forwarded, processed, drained>>
  /\ UNCHANGED <<is_running, main, generator, sinker, i, sink_item, expired, gen_vars>>

ShmWorker(w) ==
  \/ (WorkerCheck(w) /\ UNCHANGED gen_vars)
  \/ ShmPoll(w) \/ WaitOn(w) \/ WaitOver(w)
  \/ MarkItem(w) \/ SendToSink(w) \/ LoseItem(w)

\* An access to a freed item may also end the process.
Crash(w) ==
  /\ worker[w] \in {"wait", "process"} /\ ~Ended
  /\ item[w] \notin heap
  /\ MainGoto("return", 1)
  /\ UNCHANGED <<queue, destroyed, drained, is_running, threads, gen_vars>>
  /\ LeavesData

-----------------------------------------------------------------------------
ShmSink == Sink /\ UNCHANGED gen_vars
ShmMain == Main /\ UNCHANGED gen_vars
ShmExpire(thread) == Expire(thread) /\ UNCHANGED gen_vars

ShmNext ==
  \/ ShmMain \/ (CreateFails /\ UNCHANGED gen_vars)
  \/ ShmGenerator \/ ShmSink
  \/ \E w \in Workers : ShmWorker(w) \/ Crash(w)
  \/ \E thread \in {"generator", "sink"} : ShmExpire(thread)
  \/ (Terminated /\ UNCHANGED gen_vars)

ShmSpec == ShmInit /\ [][ShmNext]_shm_vars

\* A poll of a freed item need never see the mark.
ShmWorkerFair(w) == ShmWorker(w) /\ (worker[w] = "wait" => item[w] \in heap)

\* As in MtPipeline: every thread keeps being scheduled, and time passes.
ShmFairSpec ==
  /\ ShmSpec
  /\ WF_shm_vars(ShmMain) /\ WF_shm_vars(ShmGenerator) /\ WF_shm_vars(ShmSink)
  /\ \A w \in Workers : WF_shm_vars(ShmWorkerFair(w))
  /\ \A thread \in {"generator", "sink"} : WF_shm_vars(ShmExpire(thread))
=============================================================================

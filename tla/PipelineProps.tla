---------------------------- MODULE PipelineProps ----------------------------
(***************************************************************************)
(* What makes the pipeline programs correct: no item is lost, duplicated   *)
(* or used after it was freed, the counts add up, and the shutdown neither *)
(* hangs nor pulls the queues from under a running thread.                 *)
(***************************************************************************)
EXTENDS Pipeline

MainPoints ==
  {<<p, 0>> : p \in {"generator", "sink", "join generator", "join sink"}}
    \cup {<<p, s>> : p \in {"start", "threads", "stop", "join"}, s \in Stages}
    \cup {<<"destroy", q>> : q \in Queues}
    \cup {<<"return", r>> : r \in {0, 1}}

\* Every variable has its type.
TypeOK ==
  /\ queue \in [Queues -> Seq(Items \cup {NULL})]
  /\ destroyed \in SUBSET Queues
  /\ heap \in SUBSET Items
  /\ stamps \in [Items -> SUBSET Stages]
  /\ tx \in Nat /\ drops \in Nat /\ processed \in Nat /\ drained \in Nat
  /\ forwarded \in [Stages -> Nat]
  /\ dropped \in [Stages -> Nat]
  /\ is_running \in [Stages -> BOOLEAN]
  /\ main \in MainPoints
  /\ generator \in {"none", "check", "batch", "exited"}
  /\ sinker \in {"none", "check", "poll", "consume", "exited"}
  /\ worker \in [Workers -> {"none", "check", "poll", "process", "forward", "exited"}]
  /\ i \in 0 .. BatchSize
  /\ item \in [Workers -> Items \cup {NULL}]
  /\ sink_item \in Items \cup {NULL}
  /\ expired \in SUBSET {"generator", "sink"}

-----------------------------------------------------------------------------
\* The places that hold item x.
QueueHolders(x) ==
  UNION {{<<"queue", q, k>> : k \in {n \in DOMAIN queue[q] : queue[q][n] = x}} : q \in Queues}
StageHolders(x) == {<<"stage", w>> : w \in {v \in Workers : item[v] = x}}
SinkHolders(x) == IF sink_item = x THEN {<<"sink">>} ELSE {}
Holders(x) == QueueHolders(x) \cup StageHolders(x) \cup SinkHolders(x)

\* An item has one holder from its malloc to its free, and none before or
\* after: no thread touches an item that another one holds or that has been
\* freed, and none is freed twice.  Only destroy_queue forgets items
\* (pipeline-app.c:58-71, 110-123, 153-161, 349-352).
OneHolder ==
  \A x \in Items :
    /\ Cardinality(Holders(x)) <= 1
    /\ Holders(x) # {} => x \in heap
    /\ x \in heap => Holders(x) # {} \/ destroyed # {}

\* The sink subtracts stamps that the stages set: an item carries the stamps
\* of all stages it has passed and of no other (pipeline-app.c:60-62, 157-160).
StampsComplete ==
  /\ \A q \in Queues : \A p \in DOMAIN queue[q] :
       queue[q][p] # NULL => stamps[queue[q][p]] = 1 .. q
  /\ sinker = "consume" => stamps[sink_item] = Stages

\* Item x is in queue q.
IsIn(x, q) == \E k \in DOMAIN queue[q] : queue[q][k] = x

\* What the threads of stage s, or the sink behind the last one, hold.
HeldBehind(q) ==
  IF q = NStages THEN IF sink_item = NULL THEN 0 ELSE 1
  ELSE Cardinality({t \in Threads : item[<<q + 1, t>>] # NULL})

Queued(q) == Cardinality({x \in Items : IsIn(x, q)})

EnteredQueue(q) == IF q = 0 THEN tx - drops ELSE forwarded[q]
LeftBehind(q) ==
  IF q = NStages THEN processed ELSE forwarded[q + 1] + dropped[q + 1]

\* The counts of the threads agree with what is in the queues and in hand
\* at every instant: what entered a queue is in it, in the hand of a thread
\* behind it, or has left that thread (pipeline-app.c:66-69, 113-121, 155).
Balanced(q) == EnteredQueue(q) = Queued(q) + HeldBehind(q) + LeftBehind(q)

QueuesBalance == \A q \in Queues \ destroyed : Balanced(q)

\* What the stages 1 to s have dropped.
DroppedUpTo[s \in Queues] == IF s = 0 THEN 0 ELSE DroppedUpTo[s - 1] + dropped[s]

\* At the end the threads' own counts account for every item, also when items
\* were dropped by several of them and others were still queued: each was
\* counted once, by the thread that got rid of it, and what nothing has freed
\* is what destroy_queue has counted as drained and does not free
\* (pipeline-app.c:66-71, 117-122, 159-160; queue.h:74-82).  The numbers main
\* prints are fewer: a stage counts its drops in a local variable, and the
\* printf of it is commented out in pipeline-app.c:78-79 and rtc-app.c:78.
CountsAddUp ==
  main = <<"return", 0>> =>
    /\ tx = drops + DroppedUpTo[NStages] + processed + drained
    /\ Cardinality(heap) = drained

\* Nobody operates on a queue that destroy_queue has freed
\* (pipeline-app.c:323-352).
QueuesOutliveUsers ==
  /\ generator = "batch" => 0 \notin destroyed
  /\ sinker = "poll" => NStages \notin destroyed
  /\ \A w \in Workers :
       /\ worker[w] = "poll" => w[1] - 1 \notin destroyed
       /\ worker[w] = "forward" => w[1] \notin destroyed

\* No worker gives up while items may still come or be waited for: a stage
\* ends only after the generator and the sink have (pipeline-app.c:282-313,
\* 323-327).
StagesRunToTheEnd ==
  \A w \in Workers : worker[w] = "exited" => generator = "exited" /\ sinker = "exited"

\* How far item x has come: the queues are at the even distances, the stages
\* and the sink at the odd ones.
At(x, d) ==
  \/ \E q \in Queues : d = 2 * q /\ IsIn(x, q)
  \/ \E w \in Workers : d = 2 * w[1] - 1 /\ item[w] = x
  \/ d = 2 * NStages + 1 /\ sink_item = x

\* With one thread per stage, items stay in the order of their ids: one
\* further down the pipeline, or further ahead in a queue, is older
\* (pipeline-app.c:56-71).
OneThread == \A t, u \in Threads : t = u

QueueOrdered(q) ==
  \A k, l \in DOMAIN queue[q] :
    k < l /\ queue[q][k] # NULL /\ queue[q][l] # NULL => queue[q][k] < queue[q][l]

InOrder ==
  OneThread =>
    /\ \A x \in heap : \A d \in 0 .. 2 * NStages + 1 : At(x, d) =>
         \A y \in heap : \A e \in 0 .. d - 1 : At(y, e) => x < y
    /\ \A q \in Queues : QueueOrdered(q)

-----------------------------------------------------------------------------
(* The rest of the invariant that the proofs need.                          *)

\* main is past the point where it stops the first stage.
Stopping == main[1] \in {"stop", "join", "destroy"} \/ main = <<"return", 0>>
TearingDown == main[1] = "destroy" \/ main = <<"return", 0>>

\* The threads main has joined have ended.
JoinedThreadsEnded ==
  /\ main[1] = "join sink" \/ Stopping => generator = "exited"
  /\ Stopping => sinker = "exited"
  /\ main[1] = "join" =>
       \A w \in Workers : w[1] < main[2] => worker[w] = "exited"
  /\ TearingDown => \A w \in Workers : worker[w] = "exited"
  /\ destroyed # {} => TearingDown

\* The flag of a stage that has threads is set until main stops the stages,
\* and until then no thread of a stage ends.
StartedStagesRun ==
  /\ main[1] = "threads" => is_running[main[2]]
  /\ \A w \in Workers :
       /\ worker[w] # "none" => is_running[w[1]] \/ Stopping
       /\ worker[w] = "exited" => Stopping

\* The sink has not run before main creates it.
SinkNotBefore == main[1] \in {"generator", "sink"} => sinker = "none"

\* The ids of the rest of the batch are items.
BatchFits == generator = "batch" => tx + (BatchSize - i) <= MaxItems

\* No queue has more entries than its ring buffer can hold, which leaves one
\* slot free (queue.h:107-109).
QueuesFit == \A q \in Queues : Len(queue[q]) < Capacity

\* A thread has an item while it works on it.
HandsFull ==
  /\ \A w \in Workers : item[w] # NULL <=> worker[w] \in {"process", "forward"}
  /\ sink_item # NULL <=> sinker = "consume"

\* No two entries of the queues hold the same item.
QueuesDistinct ==
  \A q, r \in Queues : \A k \in DOMAIN queue[q], l \in DOMAIN queue[r] :
    queue[q][k] # NULL /\ queue[q][k] = queue[r][l] => q = r /\ k = l

\* What one thread has in its hand is neither in a queue nor in another hand.
HandsApart ==
  /\ \A w \in Workers : item[w] # NULL =>
       /\ \A q \in Queues : ~IsIn(item[w], q)
       /\ \A v \in Workers : item[v] = item[w] => v = w
       /\ sink_item # item[w]
  /\ sink_item # NULL => \A q \in Queues : ~IsIn(sink_item, q)

Held(x) ==
  \/ \E q \in Queues : IsIn(x, q)
  \/ \E w \in Workers : item[w] = x
  \/ sink_item = x

\* The allocated items are those that are held, and of those generated.
HeapIsHeld ==
  \A x \in Items :
    /\ Held(x) => x \in heap
    /\ x \in heap => x < tx /\ (Held(x) \/ destroyed # {})

\* The stamps of an item, wherever it is.
StampsSoFar ==
  /\ \A x \in Items : x >= tx => stamps[x] = {}
  /\ \A q \in Queues : \A x \in Items : IsIn(x, q) => stamps[x] = 1 .. q
  /\ \A w \in Workers :
       /\ worker[w] = "process" => stamps[item[w]] = 1 .. w[1] - 1
       /\ worker[w] = "forward" => stamps[item[w]] = 1 .. w[1]
  /\ sinker = "consume" => stamps[sink_item] = Stages

\* While main drains the queues, the generated items are those dropped on
\* the way to the next queue, drained, or past the queues drained so far.
DrainedSoFar ==
  /\ ~TearingDown => drained = 0
  /\ \A q \in Queues : main = <<"destroy", q>> =>
       /\ \A r \in destroyed : r < q
       /\ tx - drops = DroppedUpTo[q] + EnteredQueue(q) + drained

\* The sum of the counts in CountsAddUp, which the drained items complete.
TotalsAddUp ==
  main = <<"return", 0>> =>
    tx = drops + DroppedUpTo[NStages] + processed + drained

\* The allocated items are those generated and not counted as freed.
HeapCounted == tx = Cardinality(heap) + drops + DroppedUpTo[NStages] + processed

\* InOrder, place by place.
QueuesAscend ==
  \A q, r \in Queues : \A x, y \in Items :
    IsIn(x, q) /\ IsIn(y, r) /\ r < q => x < y

HandsBetweenQueues ==
  \A q \in Queues : \A x \in Items : \A w \in Workers :
    IsIn(x, q) /\ item[w] # NULL =>
      /\ w[1] <= q => x < item[w]
      /\ q < w[1] => item[w] < x

HandsAscend ==
  \A v, w \in Workers :
    item[v] # NULL /\ item[w] # NULL /\ w[1] < v[1] => item[v] < item[w]

SinkOldest ==
  sink_item # NULL =>
    /\ \A q \in Queues : \A x \in Items : IsIn(x, q) => sink_item < x
    /\ \A w \in Workers : item[w] # NULL => sink_item < item[w]

OrderInv ==
  OneThread =>
    /\ QueuesAscend /\ HandsBetweenQueues /\ HandsAscend /\ SinkOldest
    /\ \A q \in Queues : QueueOrdered(q)

ControlInv == TypeOK /\ JoinedThreadsEnded /\ StartedStagesRun /\ BatchFits
ItemInv == HandsFull /\ QueuesDistinct /\ HandsApart /\ HeapIsHeld

-----------------------------------------------------------------------------
(* The mapping to Delivery. *)
QueuesOf(x) == {q \in Queues : IsIn(x, q)}
StagesOf(x) == {s \in Stages : \E t \in Threads : item[<<s, t>>] = x}

PlaceOf(x) ==
  IF x >= tx THEN <<"new", 0>>
  ELSE IF x \notin heap THEN <<"freed", 0>>
  ELSE IF sink_item = x THEN <<"sink", 0>>
  ELSE IF QueuesOf(x) # {} THEN <<"queue", CHOOSE q \in QueuesOf(x) : TRUE>>
  ELSE IF StagesOf(x) # {} THEN <<"stage", CHOOSE s \in StagesOf(x) : TRUE>>
  ELSE <<"forgotten", 0>>

placeBar == [x \in Items |-> PlaceOf(x)]

Life == INSTANCE Delivery WITH place <- placeBar

\* Every item visits the stages in order, one at a time, skipping none
\* (pipeline-app.c:233-254).
ImplementsDelivery == Life!Spec

-----------------------------------------------------------------------------
\* main comes to its end: the joins wait for threads that end
\* (pipeline-app.c:322-359, mt-pipeline.c:289-320).
Termination == <>Ended
=============================================================================

------------------------------ MODULE ShmProps ------------------------------
(***************************************************************************)
(* What holds of mt-pipeline-shm.c: always for the last stage and the      *)
(* sink, and for the other stages as long as no queue was found full.  And *)
(* what its comments and messages say, and does not hold.                  *)
(***************************************************************************)
EXTENDS ShmPipeline

\* Every variable has its type.
TypeOK ==
  /\ queue \in [Queues -> Seq(Items \cup {NULL})]
  /\ destroyed \in SUBSET Queues
  /\ heap \in SUBSET Items
  /\ stamps \in [Items -> SUBSET Stages]
  /\ tx \in Nat /\ drops \in Nat /\ processed \in Nat /\ drained \in Nat
  /\ forwarded \in [Stages -> Nat]
  /\ dropped \in [Stages -> Nat]
  /\ is_running \in [Stages -> BOOLEAN]
  /\ main[1] \in {"generator", "sink", "start", "threads", "join generator", "join sink",
                  "stop", "join", "destroy", "return"}
  /\ main[2] \in Queues
  /\ generator \in {"none", "check", "batch", "publish", "exited"}
  /\ sinker \in {"none", "check", "poll", "consume", "exited"}
  /\ worker \in [Workers -> {"none", "check", "poll", "wait", "process", "forward", "exited"}]
  /\ i \in 0 .. BatchSize
  /\ j \in Stages
  /\ gen_item \in Items \cup {NULL}
  /\ item \in [Workers -> Items \cup {NULL}]
  /\ sink_item \in Items \cup {NULL}
  /\ expired \in SUBSET {"generator", "sink"}

-----------------------------------------------------------------------------
Entries(q, a) == {<<q, p>> : p \in {n \in DOMAIN queue[q] : queue[q][n] = a}}

\* The places of address a in the queues and hands of the stages in S.
StagePlaces(S, a) ==
  (UNION {Entries(stage_queue(s), a) : s \in S})
    \cup {w \in Workers : w[1] \in S /\ item[w] = a}

\* The places of a from the queue of the last stage on.
LastPlaces(a) ==
  StagePlaces({NStages}, a) \cup Entries(sink_queue, a)
    \cup (IF sink_item = a THEN {"sink"} ELSE {})

\* The generator frees what some queue refused, the sink what it gets, and
\* the two never meet: what the queue of the last stage has accepted is a
\* live item, on its way to the sink once, and no longer the generator's
\* (mt-pipeline-shm.c:107, 153-167, 209).
LastStageOwns ==
  \A a \in Items :
    /\ Cardinality(LastPlaces(a)) <= 1
    /\ LastPlaces(a) # {} => a \in heap /\ gen_item # a
    /\ gen_item = a => a \in heap

\* Until a queue is found full, every address in a queue or in a worker's
\* hands is that of a live item: the sink frees an item only when the stages
\* have all done with it (mt-pipeline-shm.c:78-103, 209).
LiveUntilDrop ==
  drops = 0 => \A a \in Items : StagePlaces(Stages, a) # {} => a \in heap

\* Until a queue is found full, a stage works on an item only when the stages
\* before have finished theirs, and the sink gets finished items, whose
\* stage_ok_ts[3] and stage_got_ts[1] it subtracts
\* (mt-pipeline-shm.c:80-94, 207-208).
StagesInOrder ==
  drops = 0 =>
    /\ \A w \in Workers : worker[w] = "process" => stamps[item[w]] = 1 .. w[1] - 1
    /\ sinker = "consume" => stamps[sink_item] = Stages

\* The allocated items that nobody will free: only the generator, and who has
\* the item from the queue of the last stage on, leads it to a free.
Leaked == {a \in heap : a # gen_item /\ LastPlaces(a) = {}}

\* Every finished item is on its way to the sink, processed or dropped: the
\* counts of the last stage, the queue and the sink agree at every instant.
\* The items it counted as dropped, and no others, are lost without a free
\* (mt-pipeline-shm.c:105-110, 200).
LastStageCounts ==
  destroyed = {} =>
    /\ forwarded[NStages] =
         dropped[NStages] + processed
           + Cardinality({w \in Workers : worker[w] = "forward"})
           + Cardinality({p \in DOMAIN queue[sink_queue] : queue[sink_queue][p] # NULL})
           + (IF sink_item = NULL THEN 0 ELSE 1)
    /\ Cardinality(Leaked) = dropped[NStages]
    /\ LET unfinished ==
             {a \in Items : Entries(stage_queue(NStages), a) # {}
                \/ \E w \in Workers : item[w] = a /\ w[1] = NStages /\ worker[w] # "forward"}
       IN  tx - drops <= forwarded[NStages] + Cardinality(unfinished)
                           + (IF generator = "publish" THEN 1 ELSE 0)

\* Until a queue is found full, the mark a stage waits for is set, or the
\* item is still with a stage that comes before: no wait is for a mark that
\* was never or will never be written, so that only a stopped stage that left
\* the item behind can make it endless (mt-pipeline-shm.c:80-101, 375-377).
MarksCome ==
  drops = 0 =>
    \A w \in Workers :
      worker[w] = "wait" =>
        \/ PreviousStage(w) \in stamps[item[w]]
        \/ StagePlaces(1 .. w[1] - 1, item[w]) # {}

-----------------------------------------------------------------------------
(* The rest of the invariant that the proofs need.                          *)

WorkerLabels == {"none", "check", "poll", "wait", "process", "forward", "exited"}

\* What TypeOK says of the variables in which ShmPipeline differs.
ShmTypes ==
  /\ worker \in [Workers -> WorkerLabels]
  /\ generator \in {"none", "check", "batch", "publish", "exited"}
  /\ j \in Stages
  /\ gen_item \in Items \cup {NULL}

\* No thread runs before main has created it.
ThreadsNotBefore ==
  /\ main[1] = "generator" => generator = "none"
  /\ main[1] \in {"generator", "sink"} => sinker = "none"

\* A thread has an item while it works on it.
HandsFull ==
  /\ \A w \in Workers :
       /\ item[w] # NULL <=> worker[w] \in {"wait", "process", "forward"}
       /\ worker[w] = "wait" => w[1] > 1
       /\ worker[w] = "forward" => w[1] = NStages
  /\ sink_item # NULL <=> sinker = "consume"
  /\ generator # "publish" => j = 1 /\ gen_item = NULL

IsIn(a, q) == \E p \in DOMAIN queue[q] : queue[q][p] = a
Distinct(q) ==
  \A k, l \in DOMAIN queue[q] : queue[q][k] # NULL /\ queue[q][k] = queue[q][l] => k = l

\* Who has address a, from the queue of the last stage on.
InLastHands(a) == \E w \in Workers : w[1] = NStages /\ item[w] = a
LastHolds(a) ==
  IsIn(a, stage_queue(NStages)) \/ InLastHands(a) \/ IsIn(a, sink_queue) \/ sink_item = a

\* LastStageOwns, place by place.
LastApart ==
  /\ Distinct(stage_queue(NStages)) /\ Distinct(sink_queue)
  /\ \A a \in Items :
       /\ LastHolds(a) => a \in heap /\ gen_item # a
       /\ gen_item = a => a \in heap
       /\ ~(IsIn(a, stage_queue(NStages)) /\ IsIn(a, sink_queue))
       /\ InLastHands(a) => ~IsIn(a, stage_queue(NStages)) /\ ~IsIn(a, sink_queue) /\ sink_item # a
       /\ sink_item = a => ~IsIn(a, stage_queue(NStages)) /\ ~IsIn(a, sink_queue)
  /\ \A v, w \in Workers :
       v[1] = NStages /\ w[1] = NStages /\ item[v] # NULL /\ item[v] = item[w] => v = w

\* Address a is still to be worked on by stage s; it has yet to be put into
\* its queue.
InHands(s, a) == \E w \in Workers : w[1] = s /\ item[w] = a /\ worker[w] # "forward"
Pending(s, a) == IsIn(a, stage_queue(s)) \/ InHands(s, a)
ToCome(s, a) == gen_item = a /\ j <= s

\* Until a queue is found full, an allocated item is, for each stage, either
\* marked, or pending in one place, or to come.
StagesApart ==
  /\ \A s \in Stages : Distinct(stage_queue(s))
  /\ \A s \in Stages : \A a \in Items : InHands(s, a) => ~IsIn(a, stage_queue(s))
  /\ \A v, w \in Workers : v[1] = w[1] /\ item[v] # NULL /\ item[v] = item[w] => v = w

MarkedOnce ==
  \A s \in Stages : \A a \in Items :
    /\ Pending(s, a) => a \in heap /\ s \notin stamps[a] /\ ~ToCome(s, a)
    /\ ToCome(s, a) => s \notin stamps[a]
    /\ a \in heap /\ destroyed = {} => s \in stamps[a] \/ Pending(s, a) \/ ToCome(s, a)

\* The marks are set in order.
MarksInOrder ==
  /\ \A a \in Items : \A s \in stamps[a] : s > 1 => s - 1 \in stamps[a]
  /\ \A w \in Workers : worker[w] = "process" /\ w[1] > 1 => w[1] - 1 \in stamps[item[w]]
  /\ \A w \in Workers : worker[w] = "forward" => stamps[item[w]] = Stages
  /\ \A a \in Items : IsIn(a, sink_queue) \/ sink_item = a => stamps[a] = Stages

MarksInv == drops = 0 => StagesApart /\ MarkedOnce /\ MarksInOrder

\* LastStageCounts, with the generator's item for its place in the code and
\* the items in the queue to the sink for their entries.
Forwarding == {w \in Workers : worker[w] = "forward"}
InSinkQueue == {a \in Items : IsIn(a, sink_queue)}
AtSink == IF sink_item = NULL THEN 0 ELSE 1
Unfinished == {a \in Items : Pending(NStages, a)}
Publishing == IF gen_item = NULL THEN 0 ELSE 1
LeakedItems == {a \in heap : a # gen_item /\ ~LastHolds(a)}

Counts ==
  /\ forwarded[NStages] =
       dropped[NStages] + processed + Cardinality(Forwarding) + Cardinality(InSinkQueue) + AtSink
  /\ Cardinality(LeakedItems) = dropped[NStages]
  /\ tx - drops <= forwarded[NStages] + Cardinality(Unfinished) + Publishing

CountsInv == destroyed = {} => Counts

-----------------------------------------------------------------------------
\* "If the queue is full, drop the item" (mt-pipeline-shm.c:158): what the
\* generator has dropped, it has freed, is not in a stage's queue or hands.
DroppedItemsAreGone ==
  \A a \in Items \ heap : StagePlaces(Stages, a) = {}

\* "Stop and clean up" (mt-pipeline-shm.c:372): main comes to its end.
Termination == <>Ended
=============================================================================

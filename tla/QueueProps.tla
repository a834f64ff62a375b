----------------------------- MODULE QueueProps -----------------------------
(***************************************************************************)
(* What makes the ring buffer of Queue correct, and the mapping under      *)
(* which it implements BoundedQueue, for the capacities its index          *)
(* arithmetic is meant for.                                                *)
(***************************************************************************)
EXTENDS QueueClaims

\* For these capacities (the powers of two from 2 on) masking with
\* capacity - 1 wraps an index around the array, also from -1.
ASSUME MaskAssumption ==
  /\ Capacity >= 2
  /\ \A x \in -1 .. 2 * Capacity - 1 :
       Mask[x] = IF x = -1 THEN Capacity - 1
                 ELSE IF x < Capacity THEN x ELSE x - Capacity

EnqueueLabels == {"eloop", "estore", "epublish", "eunlock"}
DequeueLabels == {"dcheck", "dread", "dclear", "dadvance", "dunlock"}
Labels == {"idle", "elock", "dlock", "drain"} \cup EnqueueLabels \cup DequeueLabels
Functions == {"enqueue", "enqueue_batch", "enqueue_null_array",
              "dequeue", "peek_queue", "destroy_queue"}

\* Every variable has its type; in particular head and tail stay indices.
TypeOK ==
  /\ items \in [Slots -> Values]
  /\ head \in Slots
  /\ tail \in Slots \cup {-1}
  /\ enqueue_lock \in BOOLEAN
  /\ dequeue_lock \in BOOLEAN
  /\ destroyed \in BOOLEAN
  /\ pc \in [Threads -> Labels]
  /\ op \in [Threads -> Functions \cup {"none"}]
  /\ args \in [Threads -> Seq(Items \cup {NULL})]
  /\ next \in [Threads -> Nat \ {0}]
  /\ got \in [Threads -> Values]
  /\ heap \in SUBSET Items

\* The slot is in the window between tail and head.
Occupied(k) == Mask[k - Mask[tail] + Capacity] < get_queue_size

Enqueuing(t) == pc[t] \in EnqueueLabels
Dequeuing(t) == pc[t] \in DequeueLabels

-----------------------------------------------------------------------------
\* At most one thread is between lock and unlock on each side, and only
\* while the lock word says so (queue.h:116-137, 142-174, 183-200).
MutualExclusion ==
  \A t, u \in Threads :
    /\ Enqueuing(t) => enqueue_lock
    /\ Dequeuing(t) => dequeue_lock
    /\ Enqueuing(t) /\ Enqueuing(u) => t = u
    /\ Dequeuing(t) /\ Dequeuing(u) => t = u

\* The test for full (empty) reads the other side's index without its lock
\* and is used later: whatever the other side did since, there still is room
\* (an entry) when the slot is written (taken) (queue.h:119-132, 186-197).
ChecksStayTrue ==
  \A t \in Threads :
    /\ pc[t] \in {"estore", "epublish"} => ~is_queue_full
    /\ pc[t] \in {"dread", "dclear", "dadvance"} => ~is_queue_empty

\* The two sides never work on the same slot at the same time, so that no
\* access to items[] races, and the enqueuer reads back what it stored
\* (queue.h:125-127, 191-193).
SlotsNotShared ==
  \A t, u \in Threads :
    pc[t] \in {"estore", "epublish"} =>
      /\ pc[u] \in {"dread", "dclear", "dadvance"} => Mask[head] # Mask[tail]
      /\ pc[t] = "epublish" => items[Mask[head]] = args[t][next[t]]

\* A slot in the window holds an item; the exceptions are the slot being
\* dequeued, already cleared, and the entry of the fresh queue that nobody
\* enqueued (queue.h:57, 127-133, 193).
WindowFilled ==
  \A k \in Slots :
    Occupied(k) =>
      \/ items[k] \in Items
      \/ k = Mask[tail] /\ (tail = -1 \/ \E t \in Threads : pc[t] = "dadvance")

-----------------------------------------------------------------------------
(* The rest of the invariant that the proofs need.                          *)

\* What a thread inside a function relies on from its earlier steps.
LocalFacts ==
  \A t \in Threads :
    /\ pc[t] \in {"estore", "epublish"} => next[t] <= Len(args[t])
    /\ pc[t] = "epublish" => items[Mask[head]] = args[t][next[t]]
    /\ pc[t] = "dclear" => got[t] = items[Mask[tail]]
    /\ pc[t] = "dadvance" => items[Mask[tail]] = NULL

\* Until the first dequeue, head stays short of the last slot.
FreshRoom == tail = -1 => head < Capacity - 1

\* An item outside the window has just been stored at head.
FreeSlotsClear ==
  \A k \in Slots :
    items[k] \in Items =>
      Occupied(k) \/ (k = head /\ \E t \in Threads : pc[t] = "epublish")

IInv ==
  /\ TypeOK
  /\ MutualExclusion
  /\ ChecksStayTrue
  /\ LocalFacts
  /\ FreshRoom
  /\ WindowFilled
  /\ FreeSlotsClear

-----------------------------------------------------------------------------
(* Ownership of the items: each allocated one is in the window, or still to *)
(* be enqueued by one caller, or held by the caller that dequeued it.       *)
InSlot(x, k) == Occupied(k) /\ items[k] = x

ToAdd(x, t, j) == j \in next[t] .. Len(args[t]) /\ args[t][j] = x

Taken(x, t) ==
  /\ \/ pc[t] \in {"idle", "dadvance"}
     \/ pc[t] = "dunlock" /\ op[t] # "peek_queue"
  /\ got[t] = x

InWindow(x) == {<<"slot", k>> : k \in {l \in Slots : InSlot(x, l)}}

InArgs(x) ==
  UNION {{<<"args", t, j>> : j \in {l \in 1 .. Len(args[t]) : ToAdd(x, t, l)}} : t \in Threads}

InHand(x) == {<<"got", t>> : t \in {u \in Threads : Taken(x, u)}}

Owners(x) == InWindow(x) \cup InArgs(x) \cup InHand(x)

\* No item has two owners (is delivered twice), and no freed item has one
\* (queue.h:115-202 with the callers' malloc and free).
OneOwner ==
  \A x \in Items :
    /\ \A p, q \in Owners(x) : p = q
    /\ Owners(x) # {} => x \in heap

\* destroy_queue has started: it forgets the items it drains.
Draining == destroyed \/ \E t \in Threads : op[t] = "destroy_queue"

\* No item is lost: until destroy_queue runs, an allocated item that no
\* caller holds can still be dequeued (queue.h:115-202).
NothingLost ==
  Draining \/ \A x \in heap : Owners(x) # {}

\* Only a call that adds items has items to add and a loop index past the
\* first; a thread that has taken none has none in its local variable.
CallFactsOf(t) ==
  /\ pc[t] = "idle" => op[t] = "none"
  /\ pc[t] \in {"elock"} \cup EnqueueLabels =>
       op[t] \in {"enqueue", "enqueue_batch", "enqueue_null_array"}
  /\ pc[t] \in {"estore", "epublish"} => op[t] # "enqueue_null_array"
  /\ pc[t] \in {"dlock"} \cup DequeueLabels => op[t] \in {"dequeue", "peek_queue", "destroy_queue"}
  /\ pc[t] = "drain" => op[t] = "destroy_queue"
  /\ pc[t] \in {"dclear", "dadvance"} => op[t] # "peek_queue"
  /\ pc[t] \notin {"idle", "dclear", "dadvance", "dunlock"} => got[t] = NULL
  /\ pc[t] \notin {"elock"} \cup EnqueueLabels \/ op[t] = "enqueue_null_array" =>
       args[t] = <<>>
  /\ pc[t] \notin EnqueueLabels \/ op[t] = "enqueue_null_array" => next[t] = 1

CallFacts == \A t \in Threads : CallFactsOf(t)

\* OneOwner, owner by owner.
OwnersApart ==
  \A x \in Items :
    /\ \A k, l \in Slots : InSlot(x, k) /\ InSlot(x, l) => k = l
    /\ \A t, u \in Threads : \A j, l \in Nat \ {0} : ToAdd(x, t, j) /\ ToAdd(x, u, l) => t = u /\ j = l
    /\ \A t, u \in Threads : Taken(x, t) /\ Taken(x, u) => t = u
    /\ \A k \in Slots : InSlot(x, k) => x \in heap /\ \A t \in Threads : ~Taken(x, t)
    /\ \A t \in Threads : \A j \in Nat \ {0} : ToAdd(x, t, j) =>
         x \in heap /\ (\A k \in Slots : ~InSlot(x, k)) /\ \A u \in Threads : ~Taken(x, u)
    /\ \A t \in Threads : Taken(x, t) => x \in heap

-----------------------------------------------------------------------------
(* The mapping to BoundedQueue.  An entry leaves the queue when tail moves; *)
(* until then the dequeuer's local variable stands for the cleared slot.    *)
EntryAt(i) ==
  IF i = 1 /\ \E t \in Threads : pc[t] = "dadvance"
  THEN got[CHOOSE t \in Threads : pc[t] = "dadvance"]
  ELSE items[Mask[tail + i - 1]]

bufferBar == [i \in 1 .. get_queue_size |-> EntryAt(i)]

phaseBar ==
  [t \in Threads |->
    IF pc[t] = "idle" THEN "idle"
    ELSE IF pc[t] \in {"eunlock", "dunlock"} /\ op[t] # "destroy_queue"
    THEN "done" ELSE "called"]

replyBar ==
  [t \in Threads |->
    IF pc[t] = "dunlock" /\ op[t] # "destroy_queue" THEN got[t] ELSE NULL]

Abs == INSTANCE BoundedQueue
         WITH buffer <- bufferBar, phase <- phaseBar, reply <- replyBar

\* The ring buffer is a linearizable bounded FIFO: what every call returns
\* is explained by operations that take effect at one instant each, in
\* queue order (queue.h:115-221).
ImplementsBoundedQueue == Abs!Spec

-----------------------------------------------------------------------------
\* Every critical section ends, in a full queue as in an empty one: a thread
\* inside one that keeps running leaves it.  Only the return for a null array
\* leaves the lock behind (queue.h:116-137, 142-177, 183-200, 207-219).
SectionsEnd ==
  \A t \in Threads :
    /\ Enqueuing(t) ~> ~Enqueuing(t)
    /\ Dequeuing(t) ~> ~Dequeuing(t)
=============================================================================

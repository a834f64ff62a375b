------------------------------- MODULE Queue -------------------------------
(***************************************************************************)
(* The ring buffer of src/queue.h, at the grain of its shared accesses:    *)
(* every load or store of items[], head or tail that another thread can    *)
(* observe is one step.  Enqueuers exclude each other with enqueue_lock,   *)
(* dequeuers with dequeue_lock, and the two sides meet only through items, *)
(* head and tail.  The build (gcc -O0, x86, full fences at the two index   *)
(* updates) keeps each thread's accesses in program order.                 *)
(*                                                                         *)
(* The callers are the most general ones the programs contain: a thread    *)
(* enqueues a pointer it owns (freshly allocated, or the one it dequeued   *)
(* last) or NULL, frees what the queue refused, and owns what it dequeued. *)
(***************************************************************************)
EXTENDS Integers, Sequences

CONSTANTS
  Capacity,   \* queue->capacity, the argument of create_queue
  Threads,    \* the threads that share the queue
  Items,      \* the addresses malloc hands out for items
  NULL,       \* the null pointer
  Uninit,     \* what an element of a fresh malloc'ed array may hold
  BatchArgs   \* the arrays enqueue_batch is called with; NULL is the null array

ASSUME QueueAssumption ==
  /\ Capacity \in Nat \ {0}
  /\ NULL \notin Items
  /\ Uninit # {}
  /\ Uninit \cap Items = {}
  /\ \A a \in BatchArgs : a = NULL \/ a \in Seq(Items \cup {NULL})

VARIABLES
  items,         \* queue->items
  head,          \* queue->head: the next slot to fill
  tail,          \* queue->tail: the next slot to empty
  enqueue_lock,  \* TRUE while the spin lock is taken
  dequeue_lock,
  destroyed,     \* TRUE once destroy_queue has freed the queue
  pc,            \* the next step of each thread
  op,            \* the function each thread is executing
  args,          \* the items each thread still has to hand over, from next on
  next,          \* the loop index i of enqueue_batch
  got,           \* the local variable item of dequeue and peek_queue
  heap           \* the allocated items

shared == <<items, head, tail, enqueue_lock, dequeue_lock, destroyed>>
local == <<pc, op, args, next, got>>
vars == <<shared, local, heap>>

Slots == 0 .. Capacity - 1
Values == Items \cup {NULL} \cup Uninit

(***************************************************************************)
(* Index arithmetic: x & (capacity - 1) in two's complement.               *)
(***************************************************************************)
Bit(x, i) == (x \div 2^i) % 2

BitAnd(x, m) ==
  CHOOSE r \in 0 .. m : \A i \in 0 .. 30 : Bit(r, i) = Bit(x, i) * Bit(m, i)

\* The masked value of every number the queue's code can mask.
Mask == [x \in -1 .. 2 * Capacity |-> BitAnd(x, Capacity - 1)]

\* Mutant: the index is not wrapped.
SuccessorUnmasked(x) == x + 1

Successor(x) == Mask[x + 1]

get_queue_size == Mask[head - tail + Capacity]
is_queue_empty == get_queue_size = 0
\* Mutant: room is compared with the whole capacity.
FullAtCapacity == get_queue_size = Capacity
is_queue_full == get_queue_size = Capacity - 1

-----------------------------------------------------------------------------
(* create_queue: head = 0, tail = -1, and the array is left as malloc       *)
(* returned it.                                                             *)
Init ==
  /\ items \in [Slots -> Uninit]
  /\ head = 0
  /\ tail = -1
  /\ enqueue_lock = FALSE
  /\ dequeue_lock = FALSE
  /\ destroyed = FALSE
  /\ pc = [t \in Threads |-> "idle"]
  /\ op = [t \in Threads |-> "none"]
  /\ args = [t \in Threads |-> <<>>]
  /\ next = [t \in Threads |-> 1]
  /\ got = [t \in Threads |-> NULL]
  /\ heap = {}

\* Mutant: pthread_spin_lock does not wait.
AlwaysFree(lock) == TRUE

IsFree(lock) == ~lock

Goto(t, label) == pc' = [pc EXCEPT ![t] = label]

-----------------------------------------------------------------------------
(* Callers.                                                                 *)

\* A call begins: the thread was outside the queue and the queue exists.
Call(t, function, label) ==
  /\ pc[t] = "idle"
  /\ ~destroyed
  /\ Goto(t, label)
  /\ op' = [op EXCEPT ![t] = function]
  /\ got' = [got EXCEPT ![t] = NULL]
  /\ UNCHANGED shared

\* enqueue(queue, x): the caller passes on the item it holds, or a new one,
\* or NULL after it freed the item (mt-pipeline-shm.c).
CallEnqueue(t, x) ==
  /\ IF got[t] \in Items THEN x = got[t] ELSE x \notin heap
  /\ Call(t, "enqueue", "elock")
  /\ args' = [args EXCEPT ![t] = <<x>>]
  /\ next' = [next EXCEPT ![t] = 1]
  /\ heap' = heap \cup ({x} \cap Items)

\* enqueue_batch(queue, a, Len(a)): distinct new items, with NULL entries.
CallEnqueueBatch(t, a) ==
  /\ got[t] \notin Items
  /\ a # NULL
  /\ \A j \in 1 .. Len(a) : a[j] \notin heap
  /\ \A j, k \in 1 .. Len(a) : a[j] = a[k] /\ a[j] \in Items => j = k
  /\ Call(t, "enqueue_batch", "elock")
  /\ args' = [args EXCEPT ![t] = a]
  /\ next' = [next EXCEPT ![t] = 1]
  /\ heap' = heap \cup ({a[j] : j \in 1 .. Len(a)} \cap Items)

\* enqueue_batch(queue, NULL, n).
CallEnqueueNullArray(t) ==
  /\ got[t] \notin Items
  /\ NULL \in BatchArgs
  /\ Call(t, "enqueue_null_array", "elock")
  /\ UNCHANGED <<args, next, heap>>

CallDequeue(t) ==
  /\ got[t] \notin Items
  /\ Call(t, "dequeue", "dlock")
  /\ UNCHANGED <<args, next, heap>>

CallPeek(t) ==
  /\ got[t] \notin Items
  /\ Call(t, "peek_queue", "dlock")
  /\ UNCHANGED <<args, next, heap>>

\* destroy_queue: main calls it once no other thread uses the queue any more.
CallDestroy(t) ==
  /\ \A u \in Threads : pc[u] = "idle"
  /\ got[t] \notin Items
  /\ Call(t, "destroy_queue", "drain")
  /\ UNCHANGED <<args, next, heap>>

\* The caller is done with the item it dequeued.
Free(t) ==
  /\ pc[t] = "idle"
  /\ got[t] \in Items
  /\ heap' = heap \ {got[t]}
  /\ got' = [got EXCEPT ![t] = NULL]
  /\ UNCHANGED <<shared, pc, op, args, next>>

-----------------------------------------------------------------------------
(* enqueue and enqueue_batch.  enqueue is the loop of one round, without    *)
(* the test of the item against NULL.                                       *)

EnqueueLock(t) ==
  /\ pc[t] = "elock"
  /\ IsFree(enqueue_lock)
  /\ enqueue_lock' = TRUE
  /\ Goto(t, "eloop")
  /\ UNCHANGED <<items, head, tail, dequeue_lock, destroyed>>
  /\ UNCHANGED <<op, args, next, got, heap>>

\* Mutant: the queue is tested for room once per batch.
HasNextTestedOnce(t) ==
  /\ next[t] <= Len(args[t])
  /\ next[t] = 1 => ~is_queue_full
  /\ op[t] = "enqueue_batch" => args[t][next[t]] # NULL

\* The loop goes on: an item is left, the queue is not full, and in a batch
\* the item is not NULL.  The test for a full queue reads tail without
\* dequeue_lock.
HasNext(t) ==
  /\ next[t] <= Len(args[t])
  /\ ~is_queue_full
  /\ op[t] = "enqueue_batch" => args[t][next[t]] # NULL

EnqueueRoom(t) ==
  /\ pc[t] = "eloop"
  /\ op[t] # "enqueue_null_array"
  /\ HasNext(t)
  /\ Goto(t, "estore")
  /\ UNCHANGED <<shared, op, args, next, got, heap>>

\* Mutant: a full queue is waited for, with the lock held.
NoItemLeft(t) == next[t] > Len(args[t])

HasNoNext(t) == ~HasNext(t)

EnqueueStop(t) ==
  /\ pc[t] = "eloop"
  /\ op[t] # "enqueue_null_array"
  /\ HasNoNext(t)
  /\ Goto(t, "eunlock")
  /\ UNCHANGED <<shared, op, args, next, got, heap>>

\* With a null array the function returns from inside the critical section.
EnqueueNullArray(t) ==
  /\ pc[t] = "eloop"
  /\ op[t] = "enqueue_null_array"
  /\ Goto(t, "idle")
  /\ op' = [op EXCEPT ![t] = "none"]
  /\ UNCHANGED <<shared, args, next, got, heap>>

EnqueueStore(t) ==
  /\ pc[t] = "estore"
  /\ items' = [items EXCEPT ![Mask[head]] = args[t][next[t]]]
  /\ Goto(t, "epublish")
  /\ UNCHANGED <<head, tail, enqueue_lock, dequeue_lock, destroyed>>
  /\ UNCHANGED <<op, args, next, got, heap>>

\* Mutant: whatever was stored counts as an item.
StoredAnything == TRUE

\* head moves only if the slot, read again, holds an item.
StoredItem == items[Mask[head]] # NULL

EnqueuePublish(t) ==
  /\ pc[t] = "epublish"
  /\ head' = IF StoredItem THEN Successor(head) ELSE head
  /\ next' = [next EXCEPT ![t] = @ + 1]
  /\ Goto(t, "eloop")
  /\ UNCHANGED <<items, tail, enqueue_lock, dequeue_lock, destroyed>>
  /\ UNCHANGED <<op, args, got, heap>>

\* The items of a call that are not yet in the queue.
Pending(t) == {args[t][j] : j \in next[t] .. Len(args[t])} \cap Items

\* Unlock and return; the caller frees what was refused.
EnqueueUnlock(t) ==
  /\ pc[t] = "eunlock"
  /\ enqueue_lock' = FALSE
  /\ Goto(t, "idle")
  /\ op' = [op EXCEPT ![t] = "none"]
  /\ args' = [args EXCEPT ![t] = <<>>]
  /\ next' = [next EXCEPT ![t] = 1]
  /\ heap' = heap \ Pending(t)
  /\ UNCHANGED <<items, head, tail, dequeue_lock, destroyed, got>>

-----------------------------------------------------------------------------
(* dequeue, peek_queue and the drain loop of destroy_queue.                 *)

DequeueLock(t) ==
  /\ pc[t] = "dlock"
  /\ IsFree(dequeue_lock)
  /\ dequeue_lock' = TRUE
  /\ Goto(t, "dcheck")
  /\ UNCHANGED <<items, head, tail, enqueue_lock, destroyed>>
  /\ UNCHANGED <<op, args, next, got, heap>>

\* The test for an empty queue reads head without enqueue_lock.
DequeueEmpty(t) ==
  /\ pc[t] = "dcheck"
  /\ is_queue_empty
  /\ Goto(t, "dunlock")
  /\ got' = [got EXCEPT ![t] = NULL]
  /\ UNCHANGED <<shared, op, args, next, heap>>

DequeueNonEmpty(t) ==
  /\ pc[t] = "dcheck"
  /\ ~is_queue_empty
  /\ Goto(t, "dread")
  /\ UNCHANGED <<shared, op, args, next, got, heap>>

\* Mutant: the newest entry is read.
NewestEntry == items[Mask[head + Capacity - 1]]

OldestEntry == items[Mask[tail]]

\* Mutant: a peek removes the item too.
AfterReadRemove(t) == "dclear"

AfterRead(t) == IF op[t] = "peek_queue" THEN "dunlock" ELSE "dclear"

DequeueRead(t) ==
  /\ pc[t] = "dread"
  /\ got' = [got EXCEPT ![t] = OldestEntry]
  /\ Goto(t, AfterRead(t))
  /\ UNCHANGED <<shared, op, args, next, heap>>

DequeueClear(t) ==
  /\ pc[t] = "dclear"
  /\ items' = [items EXCEPT ![Mask[tail]] = NULL]
  /\ Goto(t, "dadvance")
  /\ UNCHANGED <<head, tail, enqueue_lock, dequeue_lock, destroyed>>
  /\ UNCHANGED <<op, args, next, got, heap>>

DequeueAdvance(t) ==
  /\ pc[t] = "dadvance"
  /\ tail' = Successor(tail)
  /\ Goto(t, "dunlock")
  /\ UNCHANGED <<items, head, enqueue_lock, dequeue_lock, destroyed>>
  /\ UNCHANGED <<op, args, next, got, heap>>

\* Unlock and return.  A peeked item is not the caller's; a drained one is
\* counted and forgotten by destroy_queue.
DequeueUnlock(t) ==
  /\ pc[t] = "dunlock"
  /\ dequeue_lock' = FALSE
  /\ Goto(t, IF op[t] = "destroy_queue" THEN "drain" ELSE "idle")
  /\ op' = [op EXCEPT ![t] = IF @ = "destroy_queue" THEN @ ELSE "none"]
  /\ got' = [got EXCEPT ![t] = IF op[t] = "dequeue" THEN @ ELSE NULL]
  /\ UNCHANGED <<items, head, tail, enqueue_lock, destroyed>>
  /\ UNCHANGED <<args, next, heap>>

DrainNext(t) ==
  /\ pc[t] = "drain"
  /\ ~is_queue_empty
  /\ Goto(t, "dlock")
  /\ UNCHANGED <<shared, op, args, next, got, heap>>

DrainEnd(t) ==
  /\ pc[t] = "drain"
  /\ is_queue_empty
  /\ destroyed' = TRUE
  /\ Goto(t, "idle")
  /\ op' = [op EXCEPT ![t] = "none"]
  /\ UNCHANGED <<items, head, tail, enqueue_lock, dequeue_lock>>
  /\ UNCHANGED <<args, next, got, heap>>

-----------------------------------------------------------------------------
Begin(t) ==
  \/ \E x \in Items \cup {NULL} : CallEnqueue(t, x)
  \/ \E a \in BatchArgs : CallEnqueueBatch(t, a)
  \/ CallEnqueueNullArray(t)
  \/ CallDequeue(t)
  \/ CallPeek(t)
  \/ CallDestroy(t)
  \/ Free(t)

\* A step inside one of the queue's functions.
Step(t) ==
  \/ EnqueueLock(t) \/ EnqueueStop(t) \/ EnqueueNullArray(t)
  \/ EnqueueRoom(t) \/ EnqueueStore(t) \/ EnqueuePublish(t) \/ EnqueueUnlock(t)
  \/ DequeueLock(t) \/ DequeueEmpty(t) \/ DequeueNonEmpty(t)
  \/ DequeueRead(t) \/ DequeueClear(t) \/ DequeueAdvance(t) \/ DequeueUnlock(t)
  \/ DrainNext(t) \/ DrainEnd(t)

Next == \E t \in Threads : Begin(t) \/ Step(t)

Spec == Init /\ [][Next]_vars

\* A thread inside a queue function keeps being scheduled; nothing makes a
\* thread call one, and a spin lock picks its next holder freely.
FairSpec == Spec /\ \A t \in Threads : WF_vars(Step(t))
=============================================================================

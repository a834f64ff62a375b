----------------------------- MODULE QueueProofs -----------------------------
(***************************************************************************)
(* The invariants of QueueProps hold in every behaviour of Queue, for any  *)
(* number of threads, items and any capacity the mask is meant for.        *)
(***************************************************************************)
EXTENDS QueueProps, TLAPS, SequenceTheorems

-----------------------------------------------------------------------------
(* Index arithmetic. *)

\* The number of slots from index i up to index h, going around the array.
Distance(h, i) == IF h >= i THEN h - i ELSE h - i + Capacity

\* What Mask makes of the indices the code masks.
LEMMA MaskIndex ==
  /\ \A h \in Slots : Mask[h] = h
  /\ \A h \in Slots : Mask[h + 1] = IF h = Capacity - 1 THEN 0 ELSE h + 1
  /\ Mask[-1] = Capacity - 1
BY MaskAssumption, QueueAssumption DEF Slots

\* The masked difference of two indices is their distance, unless the array
\* is fresh (i = -1) and h its last slot.
LEMMA MaskDistance ==
  ASSUME NEW h \in Slots, NEW i \in Slots \cup {-1},
         i = -1 => h < Capacity - 1
  PROVE  Mask[h - i + Capacity] = Distance(h, i)
BY MaskAssumption, QueueAssumption DEF Slots, Distance

\* Whatever is masked is an index of the array.
LEMMA MaskInSlots ==
  ASSUME NEW h \in Slots \cup {-1}
  PROVE  /\ Mask[h] \in Slots
         /\ Mask[h + 1] \in Slots
BY MaskAssumption, QueueAssumption DEF Slots

\* Publishing an entry lengthens the distance by one, advancing past one
\* shortens it by one.
LEMMA DistanceStep ==
  ASSUME NEW h \in Slots, NEW i \in Slots \cup {-1},
         i = -1 => h < Capacity - 1
  PROVE  /\ Distance(h, i) \in 0 .. Capacity - 1
         /\ Distance(h, i) # Capacity - 1 =>
              /\ Distance(Mask[h + 1], i) = Distance(h, i) + 1
              /\ i = -1 => Mask[h + 1] < Capacity - 1
         /\ Distance(h, i) # 0 => Distance(h, Mask[i + 1]) = Distance(h, i) - 1
BY MaskAssumption, QueueAssumption DEF Slots, Distance

\* Slot k is in the window that starts at index i and ends before index h.
Between(k, i, h) == Distance(k, Mask[i]) < Distance(h, i)

\* Publishing adds the slot at h to the window, advancing removes the one
\* at i, and the slot at h is never in it.
LEMMA WindowStep ==
  ASSUME NEW k \in Slots, NEW h \in Slots, NEW i \in Slots \cup {-1},
         i = -1 => h < Capacity - 1
  PROVE  /\ ~Between(h, i, h)
         /\ Distance(h, i) # Capacity - 1 =>
              (Between(k, i, Mask[h + 1]) <=> Between(k, i, h) \/ k = h)
         /\ Distance(h, i) # 0 =>
              /\ Between(k, Mask[i + 1], h) <=> Between(k, i, h) /\ k # Mask[i]
              /\ Between(Mask[i], i, h)
<1>0. /\ Distance(h, i) \in 0 .. Capacity - 1
      /\ Distance(k, Mask[i]) \in 0 .. Capacity - 1
  BY MaskAssumption, QueueAssumption DEF Slots, Distance
<1>1. ~Between(h, i, h)
  BY MaskAssumption, QueueAssumption DEF Slots, Distance, Between
<1>2. ASSUME Distance(h, i) # Capacity - 1
      PROVE  Between(k, i, Mask[h + 1]) <=> Between(k, i, h) \/ k = h
  <2>1. Distance(Mask[h + 1], i) = Distance(h, i) + 1
    BY <1>2, DistanceStep
  <2>2. k = h <=> Distance(k, Mask[i]) = Distance(h, i)
    BY MaskAssumption, QueueAssumption DEF Slots, Distance
  <2>. QED
    BY <1>0, <2>1, <2>2 DEF Between
<1>3. ASSUME Distance(h, i) # 0
      PROVE  /\ Between(k, Mask[i + 1], h) <=> Between(k, i, h) /\ k # Mask[i]
             /\ Between(Mask[i], i, h)
  <2>1. Distance(h, Mask[i + 1]) = Distance(h, i) - 1
    BY <1>3, DistanceStep
  <2>2. Distance(Mask[i], Mask[i]) = 0
    BY MaskInSlots DEF Slots, Distance
  <2>3. k # Mask[i] => Distance(k, Mask[Mask[i + 1]]) = Distance(k, Mask[i]) - 1
    BY MaskAssumption, QueueAssumption DEF Slots, Distance
  <2>4. k = Mask[i] => Distance(k, Mask[Mask[i + 1]]) = Capacity - 1
    BY MaskAssumption, QueueAssumption DEF Slots, Distance
  <2>. QED
    BY <1>0, <1>3, <2>1, <2>2, <2>3, <2>4, QueueAssumption DEF Between
<1>. QED
  BY <1>1, <1>2, <1>3

-----------------------------------------------------------------------------
(* Type correctness. *)

LEMMA TypeInit == Init => TypeOK
<1>. SUFFICES ASSUME Init PROVE TypeOK
  OBVIOUS
<1>1. items \in [Slots -> Values]
  BY DEF Init, Values
<1>2. head \in Slots /\ tail \in Slots \cup {-1}
  BY QueueAssumption DEF Init, Slots
<1>3. args \in [Threads -> Seq(Items \cup {NULL})]
  <2>1. <<>> \in Seq(Items \cup {NULL})
    BY EmptySeq
  <2>. QED
    BY <2>1 DEF Init
<1>4. /\ enqueue_lock \in BOOLEAN /\ dequeue_lock \in BOOLEAN /\ destroyed \in BOOLEAN
      /\ heap \in SUBSET Items
  BY DEF Init
<1>5. next \in [Threads -> Nat \ {0}]
  BY DEF Init
<1>6. /\ pc \in [Threads -> Labels]
      /\ op \in [Threads -> Functions \cup {"none"}]
      /\ got \in [Threads -> Values]
  BY DEF Init, Labels, Values
<1>. QED
  BY <1>1, <1>2, <1>3, <1>4, <1>5, <1>6 DEF TypeOK

LEMMA TypeBegin ==
  ASSUME TypeOK, NEW t \in Threads, Begin(t)
  PROVE  TypeOK'
<1>1. ASSUME NEW x \in Items \cup {NULL}, CallEnqueue(t, x)
      PROVE  TypeOK'
  <2>1. <<x>> \in Seq(Items \cup {NULL})
    OBVIOUS
  <2>. QED
    BY <1>1, <2>1 DEF CallEnqueue, Call, Goto, TypeOK, shared, Values, Labels, Functions
<1>2. ASSUME NEW a \in BatchArgs, CallEnqueueBatch(t, a)
      PROVE  TypeOK'
  <2>1. a \in Seq(Items \cup {NULL})
    BY <1>2, QueueAssumption DEF CallEnqueueBatch
  <2>. QED
    BY <1>2, <2>1 DEF CallEnqueueBatch, Call, Goto, TypeOK, shared, Values, Labels, Functions
<1>3. ASSUME CallEnqueueNullArray(t) \/ CallDequeue(t) \/ CallPeek(t) \/ CallDestroy(t)
      PROVE  TypeOK'
  BY <1>3 DEF CallEnqueueNullArray, CallDequeue, CallPeek, CallDestroy, Call, Goto,
              TypeOK, shared, Values, Labels, Functions
<1>4. ASSUME Free(t)
      PROVE  TypeOK'
  BY <1>4 DEF Free, TypeOK, shared, Values
<1>. QED
  BY <1>1, <1>2, <1>3, <1>4 DEF Begin

LEMMA TypeStep ==
  ASSUME TypeOK, LocalFacts, NEW t \in Threads, Step(t)
  PROVE  TypeOK'
<1>. USE DEF TypeOK, shared, Goto, Labels, EnqueueLabels, DequeueLabels
<1>1. CASE EnqueueLock(t)
  BY <1>1 DEF EnqueueLock, IsFree
<1>2. CASE EnqueueStop(t) \/ EnqueueRoom(t)
  BY <1>2 DEF EnqueueStop, EnqueueRoom
<1>3. CASE EnqueueNullArray(t)
  BY <1>3 DEF EnqueueNullArray
<1>4. CASE EnqueueStore(t)
  <2>1. args[t][next[t]] \in Values
    BY <1>4, ElementOfSeq DEF EnqueueStore, LocalFacts, Values
  <2>. QED
    BY <1>4, <2>1 DEF EnqueueStore
<1>5. CASE EnqueuePublish(t)
  <2>1. Mask[head + 1] \in Slots
    BY MaskInSlots
  <2>. QED
    BY <1>5, <2>1 DEF EnqueuePublish, StoredItem, Successor
<1>6. CASE EnqueueUnlock(t)
  <2>1. args' \in [Threads -> Seq(Items \cup {NULL})]
    <3>1. <<>> \in Seq(Items \cup {NULL})
      BY EmptySeq
    <3>. QED
      BY <1>6, <3>1 DEF EnqueueUnlock
  <2>2. heap' \in SUBSET Items /\ next' \in [Threads -> Nat \ {0}]
    BY <1>6 DEF EnqueueUnlock
  <2>. QED
    BY <1>6, <2>1, <2>2 DEF EnqueueUnlock
<1>7. CASE DequeueLock(t)
  BY <1>7 DEF DequeueLock, IsFree
<1>8. CASE DequeueEmpty(t) \/ DequeueNonEmpty(t)
  BY <1>8 DEF DequeueEmpty, DequeueNonEmpty, Values
<1>9. CASE DequeueRead(t)
  <2>1. Mask[tail] \in Slots
    BY MaskInSlots
  <2>. QED
    BY <1>9, <2>1 DEF DequeueRead, OldestEntry, AfterRead
<1>10. CASE DequeueClear(t)
  BY <1>10 DEF DequeueClear, Values
<1>11. CASE DequeueAdvance(t)
  <2>1. Mask[tail + 1] \in Slots
    BY MaskInSlots
  <2>. QED
    BY <1>11, <2>1 DEF DequeueAdvance, Successor
<1>12. CASE DequeueUnlock(t)
  BY <1>12 DEF DequeueUnlock, Values, Functions
<1>13. CASE DrainNext(t) \/ DrainEnd(t)
  BY <1>13 DEF DrainNext, DrainEnd
<1>. QED
  BY <1>1, <1>2, <1>3, <1>4, <1>5, <1>6, <1>7, <1>8, <1>9, <1>10, <1>11, <1>12, <1>13
  DEF Step

-----------------------------------------------------------------------------
(* What a step leaves alone. *)

\* A caller outside the queue touches nothing shared and no other thread.
LEMMA BeginFrame ==
  ASSUME TypeOK, NEW t \in Threads, Begin(t)
  PROVE  /\ UNCHANGED <<items, head, tail, enqueue_lock, dequeue_lock>>
         /\ pc[t] = "idle"
         /\ pc' \in [Threads -> Labels]
         /\ pc'[t] \in {"idle", "elock", "dlock", "drain"}
         /\ \A u \in Threads \ {t} :
              /\ pc'[u] = pc[u] /\ op'[u] = op[u]
              /\ args'[u] = args[u] /\ next'[u] = next[u] /\ got'[u] = got[u]
<1>. USE DEF TypeOK, shared, Goto, Call, Labels
<1>1. CASE \E x \in Items \cup {NULL} : CallEnqueue(t, x)
  BY <1>1 DEF CallEnqueue
<1>2. CASE \E a \in BatchArgs : CallEnqueueBatch(t, a)
  BY <1>2 DEF CallEnqueueBatch
<1>3. CASE CallEnqueueNullArray(t) \/ CallDequeue(t) \/ CallPeek(t) \/ CallDestroy(t)
  BY <1>3 DEF CallEnqueueNullArray, CallDequeue, CallPeek, CallDestroy
<1>4. CASE Free(t)
  BY <1>4 DEF Free
<1>. QED
  BY <1>1, <1>2, <1>3, <1>4 DEF Begin

\* A step inside the queue moves no other thread.
LEMMA StepFrame ==
  ASSUME TypeOK, NEW t \in Threads, Step(t)
  PROVE  /\ pc[t] # "idle"
         /\ \A u \in Threads \ {t} :
              /\ pc'[u] = pc[u] /\ op'[u] = op[u]
              /\ args'[u] = args[u] /\ next'[u] = next[u] /\ got'[u] = got[u]
<1>. USE DEF TypeOK, shared, Goto
<1>1. CASE EnqueueLock(t) \/ EnqueueStop(t) \/ EnqueueNullArray(t) \/ EnqueueRoom(t)
  BY <1>1 DEF EnqueueLock, EnqueueStop, EnqueueNullArray, EnqueueRoom
<1>2. CASE EnqueueStore(t) \/ EnqueuePublish(t) \/ EnqueueUnlock(t)
  BY <1>2 DEF EnqueueStore, EnqueuePublish, StoredItem, Successor, EnqueueUnlock
<1>3. CASE DequeueLock(t) \/ DequeueEmpty(t) \/ DequeueNonEmpty(t) \/ DequeueRead(t)
  BY <1>3 DEF DequeueLock, DequeueEmpty, DequeueNonEmpty, DequeueRead, OldestEntry, AfterRead
<1>4. CASE DequeueClear(t) \/ DequeueAdvance(t) \/ DequeueUnlock(t)
  BY <1>4 DEF DequeueClear, DequeueAdvance, Successor, DequeueUnlock
<1>5. CASE DrainNext(t) \/ DrainEnd(t)
  BY <1>5 DEF DrainNext, DrainEnd
<1>. QED
  BY <1>1, <1>2, <1>3, <1>4, <1>5 DEF Step

-----------------------------------------------------------------------------
(* Mutual exclusion. *)

LEMMA MutexBegin ==
  ASSUME TypeOK, MutualExclusion, NEW t \in Threads, Begin(t)
  PROVE  MutualExclusion'
BY BeginFrame DEF MutualExclusion, Enqueuing, Dequeuing, EnqueueLabels, DequeueLabels

LEMMA MutexStep ==
  ASSUME TypeOK, MutualExclusion, NEW t \in Threads, Step(t)
  PROVE  MutualExclusion'
<1>. USE StepFrame DEF TypeOK, MutualExclusion, Enqueuing, Dequeuing,
                       EnqueueLabels, DequeueLabels, shared, Goto
<1>1. CASE EnqueueLock(t)
  BY <1>1 DEF EnqueueLock, IsFree
<1>2. CASE EnqueueStop(t) \/ EnqueueRoom(t)
  BY <1>2 DEF EnqueueStop, EnqueueRoom
<1>3. CASE EnqueueNullArray(t)
  BY <1>3 DEF EnqueueNullArray
<1>4. CASE EnqueueStore(t) \/ EnqueuePublish(t)
  BY <1>4 DEF EnqueueStore, EnqueuePublish, StoredItem, Successor
<1>5. CASE EnqueueUnlock(t)
  BY <1>5 DEF EnqueueUnlock
<1>6. CASE DequeueLock(t)
  BY <1>6 DEF DequeueLock, IsFree
<1>7. CASE DequeueEmpty(t) \/ DequeueNonEmpty(t) \/ DequeueRead(t)
  BY <1>7 DEF DequeueEmpty, DequeueNonEmpty, DequeueRead, OldestEntry, AfterRead
<1>8. CASE DequeueClear(t) \/ DequeueAdvance(t)
  BY <1>8 DEF DequeueClear, DequeueAdvance, Successor
<1>9. CASE DequeueUnlock(t)
  BY <1>9 DEF DequeueUnlock
<1>10. CASE DrainNext(t) \/ DrainEnd(t)
  BY <1>10 DEF DrainNext, DrainEnd
<1>. QED
  BY <1>1, <1>2, <1>3, <1>4, <1>5, <1>6, <1>7, <1>8, <1>9, <1>10 DEF Step

-----------------------------------------------------------------------------
(* The size of the queue. *)

LEMMA SizeIsDistance ==
  ASSUME TypeOK, FreshRoom
  PROVE  /\ get_queue_size = Distance(head, tail)
         /\ \A k \in Slots : Occupied(k) <=> Between(k, tail, head)
<1>1. get_queue_size = Distance(head, tail)
  BY MaskDistance DEF TypeOK, FreshRoom, get_queue_size
<1>2. ASSUME NEW k \in Slots
      PROVE  Mask[k - Mask[tail] + Capacity] = Distance(k, Mask[tail])
  <2>1. Mask[tail] \in Slots /\ Mask[tail] # -1
    BY MaskInSlots, QueueAssumption DEF TypeOK, Slots
  <2>. QED
    BY <2>1, MaskDistance
<1>. QED
  BY <1>1, <1>2 DEF Occupied, Between

\* The same of the next state.
LEMMA OccupiedPrimed ==
  ASSUME TypeOK', FreshRoom', NEW k \in Slots
  PROVE  Occupied(k)' <=> Between(k, tail', head')
<1>1. get_queue_size' = Distance(head', tail')
  BY MaskDistance DEF TypeOK, FreshRoom, get_queue_size
<1>2. Mask[tail'] \in Slots /\ Mask[tail'] # -1
  BY MaskInSlots, QueueAssumption DEF TypeOK, Slots
<1>3. Mask[k - Mask[tail'] + Capacity] = Distance(k, Mask[tail'])
  BY <1>2, MaskDistance
<1>. QED
  BY <1>1, <1>3 DEF Occupied, Between

LEMMA FreshRoomStep ==
  ASSUME TypeOK, ChecksStayTrue, FreshRoom, NEW t \in Threads, Begin(t) \/ Step(t)
  PROVE  FreshRoom'
<1>1. CASE Begin(t)
  BY <1>1, BeginFrame DEF FreshRoom
<1>2. CASE EnqueuePublish(t)
  <2>1. Distance(head, tail) # Capacity - 1
    BY <1>2, SizeIsDistance DEF EnqueuePublish, ChecksStayTrue, is_queue_full
  <2>. QED
    BY <1>2, <2>1, DistanceStep DEF EnqueuePublish, StoredItem, Successor, FreshRoom, TypeOK
<1>3. CASE DequeueAdvance(t)
  <2>1. Mask[tail + 1] # -1
    BY MaskInSlots, QueueAssumption DEF TypeOK, Slots
  <2>. QED
    BY <1>3, <2>1 DEF DequeueAdvance, Successor, FreshRoom
<1>4. CASE Step(t) /\ ~EnqueuePublish(t) /\ ~DequeueAdvance(t)
  BY <1>4 DEF Step, FreshRoom, shared, EnqueueLock, EnqueueStop, EnqueueNullArray,
     EnqueueRoom, EnqueueStore, EnqueueUnlock, DequeueLock, DequeueEmpty,
     DequeueNonEmpty, DequeueRead, DequeueClear, DequeueUnlock, DrainNext, DrainEnd
<1>. QED
  BY <1>1, <1>2, <1>3, <1>4

LEMMA ChecksBegin ==
  ASSUME TypeOK, ChecksStayTrue, NEW t \in Threads, Begin(t)
  PROVE  ChecksStayTrue'
BY BeginFrame DEF ChecksStayTrue, is_queue_full, is_queue_empty, get_queue_size

LEMMA ChecksStep ==
  ASSUME TypeOK, TypeOK', MutualExclusion, ChecksStayTrue, FreshRoom, FreshRoom',
         NEW t \in Threads, Step(t)
  PROVE  ChecksStayTrue'
<1>. USE StepFrame DEF TypeOK, ChecksStayTrue, shared, Goto
<1>1. CASE EnqueuePublish(t)
  <2>1. \A u \in Threads : pc'[u] \notin {"estore", "epublish"}
    BY <1>1 DEF EnqueuePublish, MutualExclusion, Enqueuing, EnqueueLabels
  <2>2. Distance(head, tail) # Capacity - 1
    BY <1>1, SizeIsDistance DEF EnqueuePublish, StoredItem, Successor, is_queue_full
  <2>3. ASSUME NEW u \in Threads, pc'[u] \in {"dread", "dclear", "dadvance"}
        PROVE  ~is_queue_empty'
    <3>1. pc[u] = pc'[u] /\ tail' = tail
      BY <1>1, <2>3 DEF EnqueuePublish, StoredItem, Successor
    <3>2. Distance(head, tail) # 0
      BY <3>1, <2>3, SizeIsDistance DEF is_queue_empty
    <3>3. Distance(head', tail) # 0
      BY <1>1, <2>2, <3>2, DistanceStep DEF EnqueuePublish, StoredItem, Successor, FreshRoom
    <3>4. get_queue_size' = Distance(head', tail')
      BY MaskDistance DEF FreshRoom, get_queue_size
    <3>. QED
      BY <3>1, <3>3, <3>4 DEF is_queue_empty
  <2>. QED
    BY <2>1, <2>3
<1>2. CASE DequeueAdvance(t)
  <2>1. \A u \in Threads : pc'[u] \notin {"dread", "dclear", "dadvance"}
    BY <1>2 DEF DequeueAdvance, MutualExclusion, Dequeuing, DequeueLabels
  <2>2. Distance(head, tail) # 0
    BY <1>2, SizeIsDistance DEF DequeueAdvance, Successor, is_queue_empty
  <2>3. ~is_queue_full'
    <3>1. Distance(head, tail') # Capacity - 1
      BY <1>2, <2>2, DistanceStep, QueueAssumption DEF DequeueAdvance, Successor, FreshRoom
    <3>2. get_queue_size' = Distance(head', tail') /\ head' = head
      BY <1>2, MaskDistance DEF DequeueAdvance, Successor, FreshRoom, get_queue_size
    <3>. QED
      BY <3>1, <3>2 DEF is_queue_full
  <2>. QED
    BY <2>1, <2>3
<1>3. ASSUME UNCHANGED <<head, tail>>
      PROVE  /\ is_queue_full' = is_queue_full
             /\ is_queue_empty' = is_queue_empty
  BY <1>3 DEF is_queue_full, is_queue_empty, get_queue_size
<1>4. CASE EnqueueLock(t) \/ EnqueueStop(t) \/ EnqueueNullArray(t) \/ EnqueueUnlock(t)
  BY <1>3, <1>4 DEF EnqueueLock, EnqueueStop, EnqueueNullArray, EnqueueUnlock
<1>5. CASE EnqueueRoom(t) \/ EnqueueStore(t)
  BY <1>3, <1>5 DEF EnqueueRoom, HasNext, EnqueueStore
<1>6. CASE DequeueLock(t) \/ DequeueEmpty(t) \/ DequeueUnlock(t) \/ DrainNext(t) \/ DrainEnd(t)
  BY <1>3, <1>6 DEF DequeueLock, DequeueEmpty, DequeueUnlock, DrainNext, DrainEnd
<1>7. CASE DequeueNonEmpty(t) \/ DequeueRead(t) \/ DequeueClear(t)
  BY <1>3, <1>7 DEF DequeueNonEmpty, DequeueRead, OldestEntry, AfterRead, DequeueClear
<1>. QED
  BY <1>1, <1>2, <1>4, <1>5, <1>6, <1>7 DEF Step

-----------------------------------------------------------------------------
(* The two sides work on different slots. *)

LEMMA SlotsDiffer ==
  ASSUME TypeOK, FreshRoom, ~is_queue_empty
  PROVE  Mask[head] # Mask[tail]
<1>1. Distance(head, tail) # 0
  BY SizeIsDistance DEF is_queue_empty
<1>. QED
  BY <1>1, MaskAssumption, QueueAssumption DEF TypeOK, FreshRoom, Slots, Distance

LEMMA LocalFactsBegin ==
  ASSUME TypeOK, LocalFacts, NEW t \in Threads, Begin(t)
  PROVE  LocalFacts'
BY BeginFrame DEF LocalFacts

LEMMA LocalFactsStep ==
  ASSUME TypeOK, MutualExclusion, ChecksStayTrue, FreshRoom, LocalFacts,
         NEW t \in Threads, Step(t)
  PROVE  LocalFacts'
<1>. USE StepFrame DEF TypeOK, shared, Goto
<1>1. CASE EnqueueRoom(t)
  BY <1>1 DEF EnqueueRoom, HasNext, LocalFacts
<1>2. CASE EnqueueStore(t)
  <2>1. items'[Mask[head]] = args[t][next[t]] /\ head' = head /\ tail' = tail
    BY <1>2, MaskInSlots DEF EnqueueStore
  <2>2. \A u \in Threads \ {t} : pc'[u] \notin {"estore", "epublish"}
    BY <1>2 DEF EnqueueStore, MutualExclusion, Enqueuing, EnqueueLabels
  <2>3. ASSUME NEW u \in Threads, pc[u] \in {"dclear", "dadvance"}
        PROVE  items'[Mask[tail]] = items[Mask[tail]]
    BY <1>2, <2>3, SlotsDiffer, MaskInSlots DEF EnqueueStore, ChecksStayTrue
  <2>. QED
    BY <1>2, <2>1, <2>2, <2>3 DEF EnqueueStore, LocalFacts
<1>3. CASE EnqueuePublish(t)
  <2>1. \A u \in Threads : pc'[u] \notin {"estore", "epublish"}
    BY <1>3 DEF EnqueuePublish, MutualExclusion, Enqueuing, EnqueueLabels
  <2>. QED
    BY <1>3, <2>1 DEF EnqueuePublish, StoredItem, Successor, LocalFacts
<1>4. CASE DequeueRead(t)
  BY <1>4 DEF DequeueRead, OldestEntry, AfterRead, LocalFacts
<1>5. CASE DequeueClear(t)
  <2>1. items'[Mask[tail]] = NULL /\ head' = head /\ tail' = tail
    BY <1>5, MaskInSlots DEF DequeueClear
  <2>2. \A u \in Threads \ {t} : pc'[u] \notin {"dclear", "dadvance"}
    BY <1>5 DEF DequeueClear, MutualExclusion, Dequeuing, DequeueLabels
  <2>3. items'[Mask[head]] = items[Mask[head]]
    BY <1>5, SlotsDiffer, MaskInSlots DEF DequeueClear, ChecksStayTrue
  <2>. QED
    BY <1>5, <2>1, <2>2, <2>3 DEF DequeueClear, LocalFacts
<1>6. CASE DequeueAdvance(t)
  <2>1. \A u \in Threads : pc'[u] \notin {"dclear", "dadvance"}
    BY <1>6 DEF DequeueAdvance, MutualExclusion, Dequeuing, DequeueLabels
  <2>. QED
    BY <1>6, <2>1 DEF DequeueAdvance, Successor, LocalFacts
<1>7. CASE EnqueueLock(t) \/ EnqueueStop(t) \/ EnqueueNullArray(t) \/ EnqueueUnlock(t)
  <2>1. UNCHANGED <<items, head, tail>>
    BY <1>7 DEF EnqueueLock, EnqueueStop, EnqueueNullArray, EnqueueUnlock
  <2>2. pc'[t] \notin {"estore", "epublish", "dclear", "dadvance"}
    BY <1>7 DEF EnqueueLock, EnqueueStop, EnqueueNullArray, EnqueueUnlock
  <2>. QED
    BY <2>1, <2>2 DEF LocalFacts
<1>8. CASE DequeueLock(t) \/ DequeueEmpty(t) \/ DequeueNonEmpty(t) \/ DequeueUnlock(t)
           \/ DrainNext(t) \/ DrainEnd(t)
  <2>1. UNCHANGED <<items, head, tail, args, next>>
    BY <1>8 DEF DequeueLock, DequeueEmpty, DequeueNonEmpty, DequeueUnlock, DrainNext, DrainEnd
  <2>2. pc'[t] \notin {"estore", "epublish", "dclear", "dadvance"}
    BY <1>8 DEF DequeueLock, DequeueEmpty, DequeueNonEmpty, DequeueUnlock, DrainNext, DrainEnd
  <2>. QED
    BY <2>1, <2>2 DEF LocalFacts
<1>. QED
  BY <1>1, <1>2, <1>3, <1>4, <1>5, <1>6, <1>7, <1>8 DEF Step

-----------------------------------------------------------------------------
(* The window between tail and head holds items. *)

\* A step that moves no index and empties no slot of the window keeps it.
LEMMA WindowKept ==
  ASSUME WindowFilled, UNCHANGED <<head, tail>>,
         \A k \in Slots : Occupied(k) => items'[k] = items[k],
         (\E u \in Threads : pc[u] = "dadvance") => \E u \in Threads : pc'[u] = "dadvance"
  PROVE  WindowFilled'
BY DEF WindowFilled, Occupied, get_queue_size

LEMMA WindowBegin ==
  ASSUME TypeOK, WindowFilled, NEW t \in Threads, Begin(t)
  PROVE  WindowFilled'
<1>1. \A u \in Threads : pc[u] = "dadvance" => pc'[u] = "dadvance"
  BY BeginFrame
<1>. QED
  BY <1>1, BeginFrame, WindowKept

LEMMA WindowStepKeeps ==
  ASSUME TypeOK, TypeOK', MutualExclusion, ChecksStayTrue, FreshRoom, FreshRoom',
         LocalFacts, WindowFilled, NEW t \in Threads, Step(t)
  PROVE  WindowFilled'
<1>. USE DEF TypeOK, shared, Goto
<1>0. pc[t] # "dadvance" =>
        \A u \in Threads : pc[u] = "dadvance" => pc'[u] = "dadvance"
  BY StepFrame
<1>1. CASE EnqueueStore(t)
  <2>1. \A k \in Slots : Occupied(k) => k # Mask[head]
    BY SizeIsDistance, WindowStep, MaskIndex DEF FreshRoom
  <2>2. \A k \in Slots : Occupied(k) => items'[k] = items[k]
    BY <1>1, <2>1 DEF EnqueueStore
  <2>. QED
    BY <1>0, <1>1, <2>2, WindowKept DEF EnqueueStore
<1>2. CASE EnqueuePublish(t)
  <2>1. CASE items[Mask[head]] = NULL
    BY <1>0, <1>2, <2>1, WindowKept DEF EnqueuePublish, StoredItem, Successor
  <2>2. CASE items[Mask[head]] # NULL
    <3>1. Mask[head] = head /\ items[head] \in Items
      <4>1. args[t][next[t]] \in Items \cup {NULL}
        BY <1>2, ElementOfSeq DEF EnqueuePublish, StoredItem, Successor, LocalFacts
      <4>. QED
        BY <1>2, <2>2, <4>1, MaskIndex DEF EnqueuePublish, StoredItem, Successor, LocalFacts
    <3>2. head' = Mask[head + 1] /\ tail' = tail /\ items' = items
      BY <1>2, <2>2 DEF EnqueuePublish, StoredItem, Successor
    <3>3. Distance(head, tail) # Capacity - 1
      BY <1>2, SizeIsDistance DEF EnqueuePublish, ChecksStayTrue, is_queue_full
    <3>4. ASSUME NEW k \in Slots, Occupied(k)'
          PROVE  Occupied(k) \/ k = head
      <4>1. Between(k, tail, head')
        BY <3>2, <3>4, OccupiedPrimed
      <4>. QED
        BY <3>2, <3>3, <4>1, WindowStep, SizeIsDistance DEF FreshRoom
    <3>. QED
      BY <1>0, <1>2, <3>1, <3>2, <3>4 DEF WindowFilled, EnqueuePublish, StoredItem, Successor
  <2>. QED
    BY <2>1, <2>2
<1>3. CASE DequeueClear(t)
  <2>1. head' = head /\ tail' = tail /\ pc'[t] = "dadvance"
        /\ \A k \in Slots : k # Mask[tail] => items'[k] = items[k]
    BY <1>3 DEF DequeueClear
  <2>. QED
    BY <2>1 DEF WindowFilled, Occupied, get_queue_size
<1>4. CASE DequeueAdvance(t)
  <2>1. items' = items /\ head' = head /\ tail' = Mask[tail + 1]
    BY <1>4 DEF DequeueAdvance, Successor
  <2>2. Distance(head, tail) # 0
    BY <1>4, SizeIsDistance DEF DequeueAdvance, Successor, ChecksStayTrue, is_queue_empty
  <2>3. ASSUME NEW k \in Slots, Occupied(k)'
        PROVE  Occupied(k) /\ k # Mask[tail]
    <3>1. Between(k, tail', head)
      BY <2>1, <2>3, OccupiedPrimed
    <3>. QED
      BY <2>1, <2>2, <3>1, WindowStep, SizeIsDistance DEF FreshRoom
  <2>. QED
    BY <2>1, <2>3 DEF WindowFilled
<1>5. CASE EnqueueLock(t) \/ EnqueueStop(t) \/ EnqueueNullArray(t) \/ EnqueueRoom(t)
           \/ EnqueueUnlock(t)
  BY <1>0, <1>5, WindowKept
  DEF EnqueueLock, EnqueueStop, EnqueueNullArray, EnqueueRoom, EnqueueUnlock
<1>6. CASE DequeueLock(t) \/ DequeueEmpty(t) \/ DequeueNonEmpty(t) \/ DequeueRead(t)
           \/ DequeueUnlock(t)
  BY <1>0, <1>6, WindowKept
  DEF DequeueLock, DequeueEmpty, DequeueNonEmpty, DequeueRead, DequeueUnlock
<1>7. CASE DrainNext(t) \/ DrainEnd(t)
  BY <1>0, <1>7, WindowKept DEF DrainNext, DrainEnd
<1>. QED
  BY <1>1, <1>2, <1>3, <1>4, <1>5, <1>6, <1>7 DEF Step

-----------------------------------------------------------------------------
(* The slots outside the window hold no item. *)

LEMMA FreeSlotsBegin ==
  ASSUME TypeOK, FreeSlotsClear, NEW t \in Threads, Begin(t)
  PROVE  FreeSlotsClear'
<1>1. UNCHANGED <<items, head, tail>>
      /\ \A u \in Threads : pc[u] = "epublish" => pc'[u] = "epublish"
  BY BeginFrame
<1>. QED
  BY <1>1 DEF FreeSlotsClear, Occupied, get_queue_size

LEMMA FreeSlotsStep ==
  ASSUME TypeOK, TypeOK', MutualExclusion, ChecksStayTrue, FreshRoom, FreshRoom',
         LocalFacts, FreeSlotsClear, NEW t \in Threads, Step(t)
  PROVE  FreeSlotsClear'
<1>. USE DEF TypeOK, shared, Goto
<1>0. pc[t] # "epublish" =>
        \A u \in Threads : pc[u] = "epublish" => pc'[u] = "epublish"
  BY StepFrame
<1>1. CASE EnqueueStore(t)
  <2>1. head' = head /\ tail' = tail /\ pc'[t] = "epublish" /\ Mask[head] = head
        /\ \A k \in Slots : k # head => items'[k] = items[k]
    BY <1>1, MaskIndex DEF EnqueueStore
  <2>2. \A u \in Threads : pc[u] # "epublish"
    BY <1>1 DEF EnqueueStore, MutualExclusion, Enqueuing, EnqueueLabels
  <2>. QED
    BY <2>1, <2>2 DEF FreeSlotsClear, Occupied, get_queue_size
<1>2. CASE EnqueuePublish(t)
  <2>1. Mask[head] = head /\ tail' = tail /\ items' = items
        /\ head' = IF items[head] # NULL THEN Mask[head + 1] ELSE head
    BY <1>2, MaskIndex DEF EnqueuePublish, StoredItem, Successor
  <2>2. CASE items[head] = NULL
    <3>1. \A k \in Slots : items[k] \in Items => k # head
      BY <2>2, QueueAssumption
    <3>. QED
      BY <2>1, <2>2, <3>1 DEF FreeSlotsClear, Occupied, get_queue_size
  <2>3. CASE items[head] # NULL
    <3>1. Distance(head, tail) # Capacity - 1
      BY <1>2, SizeIsDistance DEF EnqueuePublish, ChecksStayTrue, is_queue_full
    <3>2. ASSUME NEW k \in Slots, Occupied(k) \/ k = head
          PROVE  Occupied(k)'
      <4>1. Between(k, tail, Mask[head + 1])
        BY <3>1, <3>2, WindowStep, SizeIsDistance DEF FreshRoom
      <4>. QED
        BY <2>1, <2>3, <4>1, OccupiedPrimed
    <3>. QED
      BY <2>1, <3>2 DEF FreeSlotsClear
  <2>. QED
    BY <2>2, <2>3
<1>3. CASE DequeueClear(t)
  <2>1. head' = head /\ tail' = tail
        /\ \A k \in Slots : items'[k] \in Items => items'[k] = items[k]
    BY <1>3, QueueAssumption DEF DequeueClear
  <2>2. \A u \in Threads : pc[u] = "epublish" => pc'[u] = "epublish"
    BY <1>0, <1>3 DEF DequeueClear
  <2>. QED
    BY <2>1, <2>2 DEF FreeSlotsClear, Occupied, get_queue_size
<1>4. CASE DequeueAdvance(t)
  <2>1. items' = items /\ head' = head /\ tail' = Mask[tail + 1] /\ items[Mask[tail]] = NULL
    BY <1>4 DEF DequeueAdvance, Successor, LocalFacts
  <2>2. Distance(head, tail) # 0
    BY <1>4, SizeIsDistance DEF DequeueAdvance, Successor, ChecksStayTrue, is_queue_empty
  <2>3. ASSUME NEW k \in Slots, Occupied(k), k # Mask[tail]
        PROVE  Occupied(k)'
    <3>1. Between(k, Mask[tail + 1], head)
      BY <2>2, <2>3, WindowStep, SizeIsDistance DEF FreshRoom
    <3>. QED
      BY <2>1, <3>1, OccupiedPrimed
  <2>4. \A u \in Threads : pc[u] = "epublish" => pc'[u] = "epublish"
    BY <1>0, <1>4 DEF DequeueAdvance, Successor
  <2>. QED
    BY <2>1, <2>3, <2>4, QueueAssumption DEF FreeSlotsClear
<1>5. ASSUME UNCHANGED <<items, head, tail>>, pc[t] # "epublish"
      PROVE  FreeSlotsClear'
  BY <1>0, <1>5 DEF FreeSlotsClear, Occupied, get_queue_size
<1>6. CASE EnqueueLock(t) \/ EnqueueStop(t) \/ EnqueueNullArray(t) \/ EnqueueRoom(t)
           \/ EnqueueUnlock(t)
  BY <1>5, <1>6
  DEF EnqueueLock, EnqueueStop, EnqueueNullArray, EnqueueRoom, EnqueueUnlock
<1>7. CASE DequeueLock(t) \/ DequeueEmpty(t) \/ DequeueNonEmpty(t) \/ DequeueRead(t)
           \/ DequeueUnlock(t)
  BY <1>5, <1>7
  DEF DequeueLock, DequeueEmpty, DequeueNonEmpty, DequeueRead, DequeueUnlock
<1>8. CASE DrainNext(t) \/ DrainEnd(t)
  BY <1>5, <1>8 DEF DrainNext, DrainEnd
<1>. QED
  BY <1>1, <1>2, <1>3, <1>4, <1>6, <1>7, <1>8 DEF Step

-----------------------------------------------------------------------------
(* The invariant is inductive. *)

LEMMA IInvInit == Init => IInv
<1>. SUFFICES ASSUME Init PROVE IInv
  OBVIOUS
<1>1. TypeOK
  BY TypeInit
<1>2. FreshRoom
  BY MaskAssumption, QueueAssumption DEF Init, FreshRoom
<1>3. MutualExclusion /\ ChecksStayTrue /\ LocalFacts
  BY DEF Init, MutualExclusion, Enqueuing, Dequeuing, EnqueueLabels, DequeueLabels,
         ChecksStayTrue, LocalFacts
<1>4. \A k \in Slots : Occupied(k) => k = Mask[tail]
  <2>1. ASSUME NEW k \in Slots, Between(k, -1, 0)
        PROVE  k = Mask[-1]
    BY <2>1, MaskAssumption, QueueAssumption DEF Between, Distance, Slots
  <2>. QED
    BY <1>1, <1>2, <2>1, SizeIsDistance DEF Init
<1>5. WindowFilled
  BY <1>4 DEF Init, WindowFilled
<1>6. FreeSlotsClear
  BY QueueAssumption DEF Init, FreeSlotsClear
<1>. QED
  BY <1>1, <1>2, <1>3, <1>5, <1>6 DEF IInv

LEMMA IInvNext == IInv /\ [Next]_vars => IInv'
<1>. SUFFICES ASSUME IInv, [Next]_vars PROVE IInv'
  OBVIOUS
<1>1. ASSUME NEW t \in Threads, Begin(t)
      PROVE  IInv'
  BY <1>1, TypeBegin, MutexBegin, ChecksBegin, LocalFactsBegin, FreshRoomStep,
     WindowBegin, FreeSlotsBegin DEF IInv
<1>2. ASSUME NEW t \in Threads, Step(t)
      PROVE  IInv'
  <2>1. TypeOK' /\ FreshRoom'
    BY <1>2, TypeStep, FreshRoomStep DEF IInv
  <2>. QED
    BY <1>2, <2>1, MutexStep, ChecksStep, LocalFactsStep, WindowStepKeeps, FreeSlotsStep
    DEF IInv
<1>3. CASE UNCHANGED vars
  BY <1>3 DEF vars, shared, local, IInv, TypeOK, MutualExclusion, Enqueuing, Dequeuing,
     ChecksStayTrue, LocalFacts, FreshRoom, WindowFilled, FreeSlotsClear, Occupied,
     is_queue_full, is_queue_empty, get_queue_size
<1>. QED
  BY <1>1, <1>2, <1>3 DEF Next

THEOREM Invariance == Spec => []IInv
BY IInvInit, IInvNext, PTL DEF Spec

-----------------------------------------------------------------------------
(* The properties of QueueProps. *)

\* Every variable keeps its type; head and tail stay indices of the array.
THEOREM TypeCorrect == Spec => []TypeOK
<1>1. IInv => TypeOK
  BY DEF IInv
<1>. QED
  BY <1>1, Invariance, PTL

\* The spin locks exclude enqueuers from enqueuers, dequeuers from dequeuers.
THEOREM Exclusion == Spec => []MutualExclusion
<1>1. IInv => MutualExclusion
  BY DEF IInv
<1>. QED
  BY <1>1, Invariance, PTL

\* What an unlocked test of the other side's index found is still true when
\* it is used.
THEOREM ChecksHold == Spec => []ChecksStayTrue
<1>1. IInv => ChecksStayTrue
  BY DEF IInv
<1>. QED
  BY <1>1, Invariance, PTL

\* An enqueuer and a dequeuer never access the same slot.
THEOREM NoSlotRace == Spec => []SlotsNotShared
<1>1. IInv => SlotsNotShared
  BY SlotsDiffer DEF IInv, ChecksStayTrue, LocalFacts, SlotsNotShared
<1>. QED
  BY <1>1, Invariance, PTL

\* Every slot of the window holds an item, apart from the fresh queue's first
\* entry and the slot being emptied.
THEOREM WindowHolds == Spec => []WindowFilled
<1>1. IInv => WindowFilled
  BY DEF IInv
<1>. QED
  BY <1>1, Invariance, PTL

\* No step overwrites an item that is still in the array.
THEOREM NoOverwrite == Spec => NothingOverwritten
<1>1. ASSUME IInv, [Next]_vars, NEW k \in Slots, items[k] \in Items
      PROVE  items'[k] \in {items[k], NULL}
  <2>0. TypeOK /\ MutualExclusion /\ FreshRoom /\ FreeSlotsClear
    BY <1>1 DEF IInv
  <2>1. ASSUME NEW t \in Threads, Begin(t)
        PROVE  items' = items
    BY <2>0, <2>1, BeginFrame
  <2>2. ASSUME NEW t \in Threads, EnqueueStore(t)
        PROVE  items'[k] = items[k]
    <3>1. \A u \in Threads : pc[u] # "epublish"
      BY <2>0, <2>2 DEF EnqueueStore, MutualExclusion, Enqueuing, EnqueueLabels
    <3>2. k # head
      BY <1>1, <2>0, <3>1, SizeIsDistance, WindowStep DEF FreeSlotsClear, TypeOK, FreshRoom
    <3>. QED
      BY <2>0, <2>2, <3>2, MaskIndex DEF EnqueueStore, TypeOK
  <2>3. ASSUME NEW t \in Threads, DequeueClear(t)
        PROVE  items'[k] \in {items[k], NULL}
    BY <2>0, <2>3 DEF DequeueClear, TypeOK
  <2>4. ASSUME NEW t \in Threads, Step(t), ~EnqueueStore(t), ~DequeueClear(t)
        PROVE  items' = items
    BY <2>4 DEF Step, shared, EnqueueLock, EnqueueStop, EnqueueNullArray, EnqueueRoom,
       EnqueuePublish, EnqueueUnlock, DequeueLock, DequeueEmpty, DequeueNonEmpty,
       DequeueRead, OldestEntry, AfterRead, DequeueAdvance, DequeueUnlock, DrainNext, DrainEnd
  <2>. QED
    BY <1>1, <2>1, <2>2, <2>3, <2>4 DEF Next, vars, shared
<1>2. IInv /\ [Next]_vars =>
        [\A k \in Slots : items[k] \in Items => items'[k] \in {items[k], NULL}]_vars
  BY <1>1
<1>. QED
  BY <1>2, Invariance, PTL DEF Spec, NothingOverwritten

-----------------------------------------------------------------------------
(* Ownership of the items. *)

LEMMA CallFactsInit == Init => CallFacts
BY DEF Init, CallFacts, CallFactsOf, EnqueueLabels, DequeueLabels

LEMMA CallFactsBegin ==
  ASSUME TypeOK, CallFacts, NEW t \in Threads, Begin(t)
  PROVE  CallFacts'
<1>. USE BeginFrame DEF CallFacts, CallFactsOf, EnqueueLabels, DequeueLabels, TypeOK, Call, Goto
<1>1. CASE \E x \in Items \cup {NULL} : CallEnqueue(t, x)
  BY <1>1 DEF CallEnqueue
<1>2. CASE \E a \in BatchArgs : CallEnqueueBatch(t, a)
  BY <1>2 DEF CallEnqueueBatch
<1>3. CASE CallEnqueueNullArray(t)
  BY <1>3 DEF CallEnqueueNullArray
<1>4. CASE CallDequeue(t) \/ CallPeek(t) \/ CallDestroy(t)
  BY <1>4 DEF CallDequeue, CallPeek, CallDestroy
<1>5. CASE Free(t)
  BY <1>5 DEF Free
<1>. QED
  BY <1>1, <1>2, <1>3, <1>4, <1>5 DEF Begin

LEMMA CallFactsStep ==
  ASSUME TypeOK, CallFacts, NEW t \in Threads, Step(t)
  PROVE  CallFacts'
<1>0. \A u \in Threads \ {t} : CallFactsOf(u)'
  BY StepFrame DEF CallFacts, CallFactsOf
<1>. SUFFICES CallFactsOf(t)'
  BY <1>0 DEF CallFacts
<1>. USE DEF CallFacts, CallFactsOf, EnqueueLabels, DequeueLabels, TypeOK, Goto, shared
<1>1. CASE EnqueueLock(t) \/ EnqueueStop(t) \/ EnqueueRoom(t)
  BY <1>1 DEF EnqueueLock, EnqueueStop, EnqueueRoom
<1>2. CASE EnqueueNullArray(t)
  BY <1>2 DEF EnqueueNullArray
<1>3. CASE EnqueueStore(t) \/ EnqueuePublish(t)
  BY <1>3 DEF EnqueueStore, EnqueuePublish
<1>4. CASE EnqueueUnlock(t)
  BY <1>4 DEF EnqueueUnlock
<1>5. CASE DequeueLock(t) \/ DequeueEmpty(t) \/ DequeueNonEmpty(t)
  BY <1>5 DEF DequeueLock, DequeueEmpty, DequeueNonEmpty
<1>6. CASE DequeueRead(t)
  BY <1>6 DEF DequeueRead, AfterRead
<1>7. CASE DequeueClear(t) \/ DequeueAdvance(t)
  BY <1>7 DEF DequeueClear, DequeueAdvance
<1>8. CASE DequeueUnlock(t)
  BY <1>8 DEF DequeueUnlock
<1>9. CASE DrainNext(t) \/ DrainEnd(t)
  BY <1>9 DEF DrainNext, DrainEnd
<1>. QED
  BY <1>1, <1>2, <1>3, <1>4, <1>5, <1>6, <1>7, <1>8, <1>9 DEF Step

\* What a step may do to the owners of the items.
SlotsKept == \A x \in Items, k \in Slots : InSlot(x, k)' <=> InSlot(x, k)
ArgsKept ==
  \A x \in Items, u \in Threads, j \in Nat \ {0} : ToAdd(x, u, j)' <=> ToAdd(x, u, j)
HandsKept == \A x \in Items, u \in Threads : Taken(x, u)' <=> Taken(x, u)

LEMMA SlotsUnchanged ==
  UNCHANGED <<items, head, tail>> => SlotsKept
BY DEF SlotsKept, InSlot, Occupied, get_queue_size

LEMMA ArgsUnchanged ==
  ASSUME UNCHANGED <<args, next>>
  PROVE  ArgsKept
BY DEF ArgsKept, ToAdd

\* Only thread t has moved, and it holds no item before and after.
LEMMA HandsUnchanged ==
  ASSUME NEW t \in Threads,
         \A u \in Threads \ {t} : pc'[u] = pc[u] /\ op'[u] = op[u] /\ got'[u] = got[u],
         \A x \in Items : Taken(x, t)' <=> Taken(x, t)
  PROVE  HandsKept
BY DEF HandsKept, Taken

\* The steps that move no item from one owner to another.
Quiet(t) ==
  \/ CallEnqueueNullArray(t) \/ CallDequeue(t) \/ CallPeek(t) \/ CallDestroy(t)
  \/ EnqueueLock(t) \/ EnqueueStop(t) \/ EnqueueNullArray(t) \/ EnqueueRoom(t)
  \/ EnqueueStore(t)
  \/ DequeueLock(t) \/ DequeueEmpty(t) \/ DequeueNonEmpty(t) \/ DequeueRead(t)
  \/ DequeueAdvance(t) \/ (DequeueUnlock(t) /\ op[t] # "destroy_queue")
  \/ DrainNext(t) \/ DrainEnd(t)

LEMMA QuietKeeps ==
  ASSUME IInv, IInv', CallFacts, NEW t \in Threads, Begin(t) \/ Step(t), Quiet(t)
  PROVE  SlotsKept /\ ArgsKept /\ HandsKept /\ heap' = heap
<1>. USE DEF Goto, Call, shared
<1>0. TypeOK /\ NULL \notin Items
  BY QueueAssumption DEF IInv
<1>1. \A u \in Threads \ {t} : pc'[u] = pc[u] /\ op'[u] = op[u] /\ got'[u] = got[u]
  BY <1>0, BeginFrame, StepFrame
<1>2. heap' = heap /\ UNCHANGED <<args, next>>
  BY DEF Quiet, CallEnqueueNullArray, CallDequeue, CallPeek, CallDestroy,
     EnqueueLock, EnqueueStop, EnqueueNullArray, EnqueueRoom, EnqueueStore,
     DequeueLock, DequeueEmpty, DequeueNonEmpty, DequeueRead, DequeueAdvance, DequeueUnlock,
     DrainNext, DrainEnd
<1>3. HandsKept
  <2>. USE <1>0 DEF TypeOK, Taken, CallFacts, CallFactsOf, EnqueueLabels, DequeueLabels
  <2>1. CASE CallEnqueueNullArray(t) \/ CallDequeue(t) \/ CallPeek(t) \/ CallDestroy(t)
    <3>1. \A x \in Items : ~Taken(x, t) /\ ~Taken(x, t)'
      BY <2>1 DEF CallEnqueueNullArray, CallDequeue, CallPeek, CallDestroy
    <3>. QED
      BY <1>1, <3>1, HandsUnchanged
  <2>2. CASE EnqueueLock(t) \/ EnqueueStop(t) \/ EnqueueNullArray(t) \/ EnqueueRoom(t)
             \/ EnqueueStore(t)
    <3>1. \A x \in Items : ~Taken(x, t) /\ ~Taken(x, t)'
      BY <2>2 DEF EnqueueLock, EnqueueStop, EnqueueNullArray, EnqueueRoom, EnqueueStore
    <3>. QED
      BY <1>1, <3>1, HandsUnchanged
  <2>3. CASE DequeueLock(t) \/ DequeueEmpty(t) \/ DequeueNonEmpty(t)
    <3>1. \A x \in Items : ~Taken(x, t) /\ ~Taken(x, t)'
      BY <2>3 DEF DequeueLock, DequeueEmpty, DequeueNonEmpty
    <3>. QED
      BY <1>1, <3>1, HandsUnchanged
  <2>4. CASE DequeueRead(t)
    <3>1. \A x \in Items : ~Taken(x, t) /\ ~Taken(x, t)'
      BY <2>4 DEF DequeueRead, AfterRead
    <3>. QED
      BY <1>1, <3>1, HandsUnchanged
  <2>5. CASE DequeueAdvance(t)
    <3>1. \A x \in Items : Taken(x, t)' <=> Taken(x, t)
      BY <2>5 DEF DequeueAdvance
    <3>. QED
      BY <1>1, <3>1, HandsUnchanged
  <2>6. CASE DequeueUnlock(t) /\ op[t] # "destroy_queue"
    <3>1. \A x \in Items : Taken(x, t)' <=> Taken(x, t)
      BY <2>6 DEF DequeueUnlock
    <3>. QED
      BY <1>1, <3>1, HandsUnchanged
  <2>7. CASE DrainNext(t) \/ DrainEnd(t)
    <3>1. \A x \in Items : ~Taken(x, t) /\ ~Taken(x, t)'
      BY <2>7 DEF DrainNext, DrainEnd
    <3>. QED
      BY <1>1, <3>1, HandsUnchanged
  <2>. QED
    BY <2>1, <2>2, <2>3, <2>4, <2>5, <2>6, <2>7 DEF Quiet
<1>4. SlotsKept
  <2>1. CASE EnqueueStore(t)
    <3>1. Mask[head] = head /\ ~Occupied(head)
      BY SizeIsDistance, WindowStep, MaskIndex DEF IInv, FreshRoom, TypeOK
    <3>2. UNCHANGED <<head, tail>> /\ \A k \in Slots : k # head => items'[k] = items[k]
      BY <1>0, <2>1, <3>1 DEF EnqueueStore, TypeOK
    <3>. QED
      BY <3>1, <3>2 DEF SlotsKept, InSlot, Occupied, get_queue_size
  <2>2. CASE DequeueAdvance(t)
    <3>1. /\ items' = items /\ head' = head /\ tail' = Mask[tail + 1]
          /\ items[Mask[tail]] = NULL
      BY <2>2 DEF DequeueAdvance, Successor, IInv, LocalFacts
    <3>2. Distance(head, tail) # 0
      BY <2>2, SizeIsDistance DEF DequeueAdvance, IInv, ChecksStayTrue, is_queue_empty
    <3>3. \A k \in Slots : Occupied(k)' <=> Occupied(k) /\ k # Mask[tail]
      BY <3>1, <3>2, OccupiedPrimed, SizeIsDistance, WindowStep DEF IInv, TypeOK, FreshRoom
    <3>. QED
      BY <1>0, <3>1, <3>3 DEF SlotsKept, InSlot
  <2>3. CASE ~EnqueueStore(t) /\ ~DequeueAdvance(t)
    <3>1. UNCHANGED <<items, head, tail>>
      BY <2>3 DEF Quiet, CallEnqueueNullArray, CallDequeue, CallPeek, CallDestroy,
         EnqueueLock, EnqueueStop, EnqueueNullArray, EnqueueRoom,
         DequeueLock, DequeueEmpty, DequeueNonEmpty, DequeueRead, DequeueUnlock,
         DrainNext, DrainEnd
    <3>. QED
      BY <3>1, SlotsUnchanged
  <2>. QED
    BY <2>1, <2>2, <2>3
<1>. QED
  BY <1>2, <1>3, <1>4, ArgsUnchanged

\* An item's owner, of whatever kind.
HasOwner(x) ==
  \/ \E k \in Slots : InSlot(x, k)
  \/ \E t \in Threads, j \in Nat \ {0} : ToAdd(x, t, j)
  \/ \E t \in Threads : Taken(x, t)

Owned == \A x \in heap : HasOwner(x)

\* A quiet step changes no owner.
LEMMA QuietOwners ==
  ASSUME OwnersApart, SlotsKept, ArgsKept, HandsKept, heap' = heap, heap \subseteq Items
  PROVE  OwnersApart' /\ (Owned => Owned')
<1>1. OwnersApart'
  BY DEF OwnersApart, SlotsKept, ArgsKept, HandsKept
<1>2. Owned => Owned'
  BY DEF Owned, HasOwner, SlotsKept, ArgsKept, HandsKept
<1>. QED
  BY <1>1, <1>2

\* A call that adds items: each of them is new or was the caller's.
LEMMA CallOwners ==
  ASSUME OwnersApart, SlotsKept, heap \subseteq Items, NEW t \in Threads,
         \A x \in Items, j \in Nat \ {0} : ~ToAdd(x, t, j),
         \A x \in Items, u \in Threads \ {t}, j \in Nat \ {0} : ToAdd(x, u, j)' <=> ToAdd(x, u, j),
         \A x \in Items, u \in Threads : Taken(x, u)' <=> u # t /\ Taken(x, u),
         \A x \in Items : \A j, l \in Nat \ {0} : ToAdd(x, t, j)' /\ ToAdd(x, t, l)' => j = l,
         \A x \in Items, j \in Nat \ {0} :
           ToAdd(x, t, j)' => x \in heap' /\ (x \in heap => Taken(x, t)),
         heap \subseteq heap', heap' \subseteq Items,
         \A x \in Items : Taken(x, t) \/ (x \in heap' /\ x \notin heap) =>
            \E j \in Nat \ {0} : ToAdd(x, t, j)'
  PROVE  OwnersApart' /\ (Owned => Owned')
<1>1. OwnersApart'
  BY DEF OwnersApart, SlotsKept
<1>2. Owned => Owned'
  BY DEF Owned, HasOwner, SlotsKept
<1>. QED
  BY <1>1, <1>2

\* Nothing outside the array changes when a call begins.
LEMMA CallEnqueueOwners ==
  ASSUME IInv, IInv', CallFacts, OwnersApart, NEW t \in Threads,
         NEW x \in Items \cup {NULL}, CallEnqueue(t, x)
  PROVE  OwnersApart' /\ (Owned => Owned')
<1>. USE DEF CallEnqueue, Call, Goto, shared
<1>0. TypeOK /\ NULL \notin Items /\ heap \subseteq Items /\ heap' \subseteq Items
      /\ heap \subseteq heap'
  BY QueueAssumption DEF IInv, TypeOK
<1>1. SlotsKept
  BY SlotsUnchanged
<1>2. args[t] = <<>> /\ args'[t] = <<x>> /\ next'[t] = 1
  BY <1>0 DEF CallFacts, CallFactsOf, EnqueueLabels, TypeOK
<1>3. \A y \in Items, j \in Nat \ {0} : ~ToAdd(y, t, j) /\ (ToAdd(y, t, j)' <=> j = 1 /\ y = x)
  <2>1. \A y \in Items, j \in Nat \ {0} : ~ToAdd(y, t, j)
    BY <1>0, <1>2 DEF ToAdd, TypeOK
  <2>2. \A y \in Items, j \in Nat \ {0} : ToAdd(y, t, j)' <=> j = 1 /\ y = x
    BY <1>2 DEF ToAdd
  <2>. QED
    BY <2>1, <2>2
<1>4. \A y \in Items, u \in Threads \ {t}, j \in Nat \ {0} : ToAdd(y, u, j)' <=> ToAdd(y, u, j)
  BY <1>0 DEF ToAdd, TypeOK
<1>5. \A y \in Items, u \in Threads : Taken(y, u)' <=> u # t /\ Taken(y, u)
  BY <1>0 DEF Taken, TypeOK
<1>6. \A y \in Items : Taken(y, t) <=> got[t] = y
  BY DEF Taken
<1>7. /\ \A y \in Items, j \in Nat \ {0} : ToAdd(y, t, j)' => y \in heap' /\ (y \in heap => Taken(y, t))
      /\ \A y \in Items : Taken(y, t) \/ (y \in heap' /\ y \notin heap) =>
            \E j \in Nat \ {0} : ToAdd(y, t, j)'
  BY <1>0, <1>3, <1>6
<1>8. \A y \in Items : \A j, l \in Nat \ {0} : ToAdd(y, t, j)' /\ ToAdd(y, t, l)' => j = l
  BY <1>3
<1>. QED
  BY <1>0, <1>1, <1>3, <1>4, <1>5, <1>7, <1>8, CallOwners

LEMMA CallBatchOwners ==
  ASSUME IInv, IInv', CallFacts, OwnersApart, NEW t \in Threads,
         NEW a \in BatchArgs, CallEnqueueBatch(t, a)
  PROVE  OwnersApart' /\ (Owned => Owned')
<1>. USE DEF CallEnqueueBatch, Call, Goto, shared
<1>0. TypeOK /\ NULL \notin Items /\ heap \subseteq Items /\ heap' \subseteq Items
      /\ heap \subseteq heap' /\ a \in Seq(Items \cup {NULL})
  BY QueueAssumption DEF IInv, TypeOK
<1>1. SlotsKept
  BY SlotsUnchanged
<1>2. args[t] = <<>> /\ args'[t] = a /\ next'[t] = 1
  BY <1>0 DEF CallFacts, CallFactsOf, EnqueueLabels, TypeOK
<1>3. \A y \in Items, j \in Nat \ {0} :
        ~ToAdd(y, t, j) /\ (ToAdd(y, t, j)' <=> j \in 1 .. Len(a) /\ y = a[j])
  <2>1. \A y \in Items, j \in Nat \ {0} : ~ToAdd(y, t, j)
    BY <1>0, <1>2 DEF ToAdd, TypeOK
  <2>2. \A y \in Items, j \in Nat \ {0} : ToAdd(y, t, j)' <=> j \in 1 .. Len(a) /\ y = a[j]
    BY <1>2 DEF ToAdd
  <2>. QED
    BY <2>1, <2>2
<1>4. \A y \in Items, u \in Threads \ {t}, j \in Nat \ {0} : ToAdd(y, u, j)' <=> ToAdd(y, u, j)
  BY <1>0 DEF ToAdd, TypeOK
<1>5. \A y \in Items, u \in Threads : Taken(y, u)' <=> u # t /\ Taken(y, u)
  BY <1>0 DEF Taken, TypeOK
<1>6. \A y \in Items : ~Taken(y, t)
  BY DEF Taken
<1>7. /\ \A y \in Items, j \in Nat \ {0} : ToAdd(y, t, j)' => y \in heap' /\ (y \in heap => Taken(y, t))
      /\ \A y \in Items : Taken(y, t) \/ (y \in heap' /\ y \notin heap) =>
            \E j \in Nat \ {0} : ToAdd(y, t, j)'
  <2>1. \A y \in Items : y \in heap' /\ y \notin heap => \E j \in 1 .. Len(a) : a[j] = y
    OBVIOUS
  <2>2. \A j \in 1 .. Len(a) : a[j] \notin heap /\ (a[j] \in Items => a[j] \in heap')
    OBVIOUS
  <2>3. 1 .. Len(a) \subseteq Nat \ {0}
    BY <1>0
  <2>. QED
    BY <1>3, <1>6, <2>1, <2>2, <2>3
<1>8. \A y \in Items : \A j, l \in Nat \ {0} : ToAdd(y, t, j)' /\ ToAdd(y, t, l)' => j = l
  BY <1>3
<1>. QED
  BY <1>0, <1>1, <1>3, <1>4, <1>5, <1>7, <1>8, CallOwners

LEMMA FreeOwners ==
  ASSUME IInv, OwnersApart, NEW t \in Threads, Free(t)
  PROVE  OwnersApart' /\ (Owned => Owned')
<1>. USE DEF Free, shared
<1>0. TypeOK /\ NULL \notin Items /\ heap \subseteq Items
  BY QueueAssumption DEF IInv, TypeOK
<1>1. SlotsKept /\ ArgsKept
  BY SlotsUnchanged, ArgsUnchanged
<1>2. \A y \in Items, u \in Threads : Taken(y, u)' <=> u # t /\ Taken(y, u)
  BY <1>0 DEF Taken, TypeOK
<1>3. Taken(got[t], t) /\ heap' = heap \ {got[t]} /\ got[t] \in Items
  BY DEF Taken
<1>4. \A y \in Items : Taken(y, t) => y = got[t]
  BY DEF Taken
<1>5. OwnersApart'
  BY <1>1, <1>2, <1>3 DEF OwnersApart, SlotsKept, ArgsKept
<1>6. Owned => Owned'
  BY <1>0, <1>1, <1>2, <1>3, <1>4 DEF Owned, HasOwner, SlotsKept, ArgsKept
<1>. QED
  BY <1>5, <1>6

\* Publishing moves the item that was stored from the caller to the window.
LEMMA PublishOwners ==
  ASSUME IInv, IInv', CallFacts, OwnersApart, NEW t \in Threads, EnqueuePublish(t)
  PROVE  OwnersApart' /\ (Owned => Owned')
<1>. USE DEF EnqueuePublish, Goto
<1>0. TypeOK /\ NULL \notin Items /\ heap' = heap /\ heap \subseteq Items /\ Mask[head] = head
  BY QueueAssumption, MaskIndex DEF IInv, TypeOK
<1>1. HandsKept
  <2>1. \A x \in Items : ~Taken(x, t) /\ ~Taken(x, t)'
    BY <1>0 DEF Taken, TypeOK
  <2>2. \A u \in Threads \ {t} : pc'[u] = pc[u] /\ op'[u] = op[u] /\ got'[u] = got[u]
    BY <1>0 DEF TypeOK
  <2>. QED
    BY <2>1, <2>2, HandsUnchanged
<1>2. /\ next[t] \in 1 .. Len(args[t]) /\ items[head] = args[t][next[t]]
      /\ args[t] \in Seq(Items \cup {NULL}) /\ next[t] \in Nat \ {0}
      /\ args[t][next[t]] \in Items \cup {NULL}
  <2>1. /\ next[t] \in 1 .. Len(args[t]) /\ items[head] = args[t][next[t]]
        /\ args[t] \in Seq(Items \cup {NULL}) /\ next[t] \in Nat \ {0}
    BY <1>0 DEF IInv, LocalFacts, TypeOK
  <2>. QED
    BY <2>1, ElementOfSeq
<1>3. \A x \in Items, u \in Threads, j \in Nat \ {0} :
        ToAdd(x, u, j)' <=> ToAdd(x, u, j) /\ ~(u = t /\ j = next[t])
  <2>1. ASSUME NEW x \in Items, NEW u \in Threads \ {t}, NEW j \in Nat \ {0}
        PROVE  ToAdd(x, u, j)' <=> ToAdd(x, u, j)
    BY <1>0, <2>1 DEF ToAdd, TypeOK
  <2>2. ASSUME NEW x \in Items, NEW j \in Nat \ {0}
        PROVE  ToAdd(x, t, j)' <=> ToAdd(x, t, j) /\ j # next[t]
    <3>1. next'[t] = next[t] + 1 /\ args' = args /\ Len(args[t]) \in Nat
      BY <1>0, <1>2 DEF TypeOK
    <3>. QED
      BY <1>2, <3>1 DEF ToAdd
  <2>. QED
    BY <2>1, <2>2
<1>4. \A x \in Items : ToAdd(x, t, next[t]) <=> x = items[head]
  BY <1>2 DEF ToAdd
<1>5. CASE items[head] = NULL
  <2>1. ArgsKept
    BY <1>0, <1>3, <1>4, <1>5 DEF ArgsKept
  <2>2. SlotsKept
    BY <1>0, <1>5, SlotsUnchanged DEF StoredItem
  <2>. QED
    BY <1>0, <1>1, <2>1, <2>2, QuietOwners
<1>6. CASE items[head] # NULL
  <2>1. items' = items /\ tail' = tail /\ head' = Mask[head + 1] /\ items[head] \in Items
    BY <1>0, <1>2, <1>6 DEF StoredItem, Successor
  <2>2. Distance(head, tail) # Capacity - 1
    BY SizeIsDistance DEF IInv, ChecksStayTrue, is_queue_full
  <2>3. \A k \in Slots : Occupied(k)' <=> Occupied(k) \/ k = head
    BY <2>1, <2>2, OccupiedPrimed, SizeIsDistance, WindowStep DEF IInv, TypeOK, FreshRoom
  <2>4. \A x \in Items, k \in Slots : InSlot(x, k)' <=> InSlot(x, k) \/ (k = head /\ x = items[head])
    BY <2>1, <2>3 DEF InSlot
  <2>5. head \in Slots /\ next[t] \in Nat \ {0}
    BY <1>0, <1>2 DEF TypeOK
  <2>6. OwnersApart'
    BY <1>0, <1>1, <1>3, <1>4, <2>1, <2>4, <2>5 DEF OwnersApart, HandsKept
  <2>7. Owned => Owned'
    <3>1. \A x \in Items : HasOwner(x) => HasOwner(x)'
      BY <1>1, <1>3, <1>4, <2>1, <2>4, <2>5 DEF HasOwner, HandsKept
    <3>. QED
      BY <1>0, <3>1 DEF Owned
  <2>. QED
    BY <2>6, <2>7
<1>. QED
  BY <1>5, <1>6

\* The caller frees what the queue refused.
LEMMA UnlockOwners ==
  ASSUME IInv, CallFacts, OwnersApart, NEW t \in Threads, EnqueueUnlock(t)
  PROVE  OwnersApart' /\ (Owned => Owned')
<1>. USE DEF EnqueueUnlock, Goto
<1>0. TypeOK /\ NULL \notin Items /\ heap \subseteq Items
  BY QueueAssumption DEF IInv, TypeOK
<1>1. SlotsKept
  BY SlotsUnchanged
<1>2. HandsKept
  <2>1. \A x \in Items : ~Taken(x, t) /\ ~Taken(x, t)'
    BY <1>0 DEF Taken, TypeOK, CallFacts, CallFactsOf, EnqueueLabels, DequeueLabels
  <2>2. \A u \in Threads \ {t} : pc'[u] = pc[u] /\ op'[u] = op[u] /\ got'[u] = got[u]
    BY <1>0 DEF TypeOK
  <2>. QED
    BY <2>1, <2>2, HandsUnchanged
<1>3. \A x \in Items, u \in Threads, j \in Nat \ {0} : ToAdd(x, u, j)' <=> u # t /\ ToAdd(x, u, j)
  <2>1. args'[t] = <<>> /\ next'[t] = 1
    BY <1>0 DEF TypeOK
  <2>2. \A x \in Items, j \in Nat \ {0} : ~ToAdd(x, t, j)'
    BY <2>1 DEF ToAdd
  <2>3. \A x \in Items, u \in Threads \ {t}, j \in Nat \ {0} : ToAdd(x, u, j)' <=> ToAdd(x, u, j)
    BY <1>0 DEF ToAdd, TypeOK
  <2>. QED
    BY <2>2, <2>3
<1>4. \A x \in Items : x \in Pending(t) <=> \E j \in Nat \ {0} : ToAdd(x, t, j)
  <2>1. next[t] \in Nat \ {0} /\ Len(args[t]) \in Nat
    BY <1>0, LenProperties DEF TypeOK
  <2>2. next[t] .. Len(args[t]) \subseteq Nat \ {0}
    BY <2>1
  <2>. QED
    BY <2>2 DEF Pending, ToAdd
<1>5. \A x \in Items : x \in heap' <=> x \in heap /\ x \notin Pending(t)
  OBVIOUS
<1>6. OwnersApart'
  BY <1>1, <1>2, <1>3, <1>4, <1>5 DEF OwnersApart, SlotsKept, HandsKept
<1>7. Owned => Owned'
  <2>1. \A x \in Items : HasOwner(x) /\ x \notin Pending(t) => HasOwner(x)'
    BY <1>1, <1>2, <1>3, <1>4 DEF HasOwner, SlotsKept, HandsKept
  <2>. QED
    BY <1>0, <1>5, <2>1 DEF Owned
<1>. QED
  BY <1>6, <1>7

\* The dequeuer takes over the item of the slot it clears.
LEMMA ClearOwners ==
  ASSUME IInv, CallFacts, OwnersApart, NEW t \in Threads, DequeueClear(t)
  PROVE  OwnersApart' /\ (Owned => Owned')
<1>. USE DEF DequeueClear, Goto
<1>0. TypeOK /\ NULL \notin Items /\ heap \subseteq Items /\ heap' = heap /\ Mask[tail] \in Slots
  BY QueueAssumption, MaskInSlots DEF IInv, TypeOK
<1>1. ArgsKept
  BY ArgsUnchanged
<1>2. got[t] = items[Mask[tail]] /\ items'[Mask[tail]] = NULL
      /\ \A k \in Slots : k # Mask[tail] => items'[k] = items[k]
  BY <1>0 DEF IInv, LocalFacts, TypeOK
<1>3. Occupied(Mask[tail])
  <2>1. Distance(head, tail) # 0
    BY SizeIsDistance DEF IInv, ChecksStayTrue, is_queue_empty
  <2>. QED
    BY <1>0, <2>1, SizeIsDistance, WindowStep DEF IInv, TypeOK, FreshRoom
<1>4. \A x \in Items, k \in Slots : InSlot(x, k)' <=> InSlot(x, k) /\ k # Mask[tail]
  <2>1. \A k \in Slots : Occupied(k)' <=> Occupied(k)
    BY DEF Occupied, get_queue_size
  <2>. QED
    BY <1>0, <1>2, <2>1 DEF InSlot
<1>5. \A x \in Items : InSlot(x, Mask[tail]) <=> x = got[t]
  BY <1>2, <1>3 DEF InSlot
<1>6. \A x \in Items, u \in Threads : Taken(x, u)' <=> Taken(x, u) \/ (u = t /\ x = got[t])
  <2>1. ASSUME NEW x \in Items, NEW u \in Threads \ {t}
        PROVE  Taken(x, u)' <=> Taken(x, u)
    BY <1>0, <2>1 DEF Taken, TypeOK
  <2>2. ASSUME NEW x \in Items
        PROVE  (Taken(x, t)' <=> x = got[t]) /\ ~Taken(x, t)
    BY <1>0, <2>2 DEF Taken, TypeOK
  <2>. QED
    BY <2>1, <2>2
<1>7. OwnersApart'
  BY <1>0, <1>1, <1>4, <1>5, <1>6 DEF OwnersApart, ArgsKept
<1>8. Owned => Owned'
  <2>1. \A x \in Items : HasOwner(x) => HasOwner(x)'
    BY <1>0, <1>1, <1>4, <1>5, <1>6 DEF HasOwner, ArgsKept
  <2>. QED
    BY <1>0, <2>1 DEF Owned
<1>. QED
  BY <1>7, <1>8

\* destroy_queue forgets the item it dequeued.
LEMMA ForgetOwners ==
  ASSUME IInv, CallFacts, OwnersApart, NEW t \in Threads, DequeueUnlock(t),
         op[t] = "destroy_queue"
  PROVE  OwnersApart' /\ Draining'
<1>. USE DEF DequeueUnlock, Goto
<1>0. TypeOK /\ NULL \notin Items /\ heap' = heap
  BY QueueAssumption DEF IInv, TypeOK
<1>1. SlotsKept /\ ArgsKept
  BY SlotsUnchanged, ArgsUnchanged
<1>2. \A x \in Items, u \in Threads : Taken(x, u)' => Taken(x, u)
  BY <1>0 DEF Taken, TypeOK
<1>3. OwnersApart'
  BY <1>0, <1>1, <1>2 DEF OwnersApart, SlotsKept, ArgsKept
<1>4. op'[t] = "destroy_queue"
  BY <1>0 DEF TypeOK
<1>. QED
  BY <1>3, <1>4 DEF Draining

\* Once destroy_queue has started no call begins before the queue is gone.
LEMMA DrainingStays ==
  ASSUME IInv, CallFacts, Draining, NEW t \in Threads, Begin(t) \/ Step(t)
  PROVE  Draining'
<1>0. TypeOK
  BY DEF IInv
<1>1. CASE destroyed
  BY <1>0, <1>1 DEF Draining, Begin, Step, CallEnqueue, CallEnqueueBatch, CallEnqueueNullArray,
     CallDequeue, CallPeek, CallDestroy, Call, shared, Free, EnqueueLock, EnqueueStop,
     EnqueueNullArray, EnqueueRoom, EnqueueStore, EnqueuePublish, EnqueueUnlock, DequeueLock,
     DequeueEmpty, DequeueNonEmpty, DequeueRead, DequeueClear, DequeueAdvance, DequeueUnlock,
     DrainNext, DrainEnd
<1>2. ASSUME NEW u \in Threads, op[u] = "destroy_queue"
      PROVE  Draining'
  <2>1. CASE u # t
    BY <1>0, <1>2, <2>1, BeginFrame, StepFrame DEF Draining
  <2>2. CASE u = t /\ Begin(t)
    BY <1>0, <1>2, <2>2, BeginFrame DEF CallFacts, CallFactsOf
  <2>3. CASE u = t /\ DrainEnd(t)
    BY <2>3 DEF DrainEnd, Draining
  <2>4. CASE u = t /\ Step(t) /\ ~DrainEnd(t)
    <3>1. op'[t] = op[t]
      BY <1>0, <1>2, <2>4 DEF Step, TypeOK, CallFacts, CallFactsOf, EnqueueLabels, DequeueLabels,
         EnqueueLock, EnqueueStop, EnqueueNullArray, EnqueueRoom, EnqueueStore, EnqueuePublish,
         EnqueueUnlock, DequeueLock, DequeueEmpty, DequeueNonEmpty, DequeueRead, DequeueClear,
         DequeueAdvance, DequeueUnlock, DrainNext
    <3>. QED
      BY <1>2, <2>4, <3>1 DEF Draining
  <2>. QED
    BY <2>1, <2>2, <2>3, <2>4
<1>. QED
  BY <1>1, <1>2 DEF Draining

LEMMA OwnersInit == Init => OwnersApart /\ Owned
<1>. SUFFICES ASSUME Init PROVE OwnersApart /\ Owned
  OBVIOUS
<1>1. \A x \in Items : /\ \A k \in Slots : ~InSlot(x, k)
                       /\ \A t \in Threads, j \in Nat \ {0} : ~ToAdd(x, t, j)
                       /\ \A t \in Threads : ~Taken(x, t)
  BY QueueAssumption DEF Init, InSlot, ToAdd, Taken
<1>. QED
  BY <1>1 DEF Init, OwnersApart, Owned

OwnInv == IInv /\ CallFacts /\ OwnersApart /\ (Draining \/ Owned)

LEMMA OwnInvNext == OwnInv /\ [Next]_vars => OwnInv'
<1>. SUFFICES ASSUME OwnInv, [Next]_vars PROVE OwnInv'
  OBVIOUS
<1>1. IInv'
  BY IInvNext DEF OwnInv
<1>2. ASSUME NEW t \in Threads, Begin(t) \/ Step(t)
      PROVE  OwnInv'
  <2>1. CallFacts'
    BY <1>2, CallFactsBegin, CallFactsStep DEF OwnInv, IInv
  <2>2. OwnersApart' /\ (Owned => Owned' \/ Draining')
    <3>. USE DEF OwnInv
    <3>1. CASE \E x \in Items \cup {NULL} : CallEnqueue(t, x)
      BY <1>1, <3>1, CallEnqueueOwners
    <3>2. CASE \E a \in BatchArgs : CallEnqueueBatch(t, a)
      BY <1>1, <3>2, CallBatchOwners
    <3>3. CASE Free(t)
      BY <3>3, FreeOwners
    <3>4. CASE EnqueuePublish(t)
      BY <1>1, <3>4, PublishOwners
    <3>5. CASE EnqueueUnlock(t)
      BY <3>5, UnlockOwners
    <3>6. CASE DequeueClear(t)
      BY <3>6, ClearOwners
    <3>7. CASE DequeueUnlock(t) /\ op[t] = "destroy_queue"
      BY <3>7, ForgetOwners
    <3>8. CASE Quiet(t)
      <4>1. heap \subseteq Items
        BY DEF IInv, TypeOK
      <4>. QED
        BY <1>1, <1>2, <3>8, <4>1, QuietKeeps, QuietOwners
    <3>. QED
      BY <1>2, <3>1, <3>2, <3>3, <3>4, <3>5, <3>6, <3>7, <3>8 DEF Begin, Step, Quiet
  <2>3. Draining => Draining'
    BY <1>2, DrainingStays DEF OwnInv
  <2>. QED
    BY <1>1, <2>1, <2>2, <2>3 DEF OwnInv
<1>3. CASE UNCHANGED vars
  <2>1. SlotsKept /\ ArgsKept /\ HandsKept /\ heap' = heap
    BY <1>3, SlotsUnchanged, ArgsUnchanged DEF vars, shared, local, HandsKept, Taken
  <2>2. CallFacts' /\ (Draining => Draining')
    BY <1>3 DEF OwnInv, vars, shared, local, CallFacts, CallFactsOf, Draining
  <2>3. heap \subseteq Items
    BY DEF OwnInv, IInv, TypeOK
  <2>. QED
    BY <1>1, <2>1, <2>2, <2>3, QuietOwners DEF OwnInv
<1>. QED
  BY <1>2, <1>3 DEF Next

LEMMA Ownership == Spec => []OwnInv
<1>1. Init => OwnInv
  BY IInvInit, CallFactsInit, OwnersInit DEF OwnInv
<1>. QED
  BY <1>1, OwnInvNext, PTL DEF Spec

\* No item is in two places of the array, in the array and with a caller, or
\* with two callers.
THEOREM NoSecondOwner == Spec => []OneOwner
<1>1. OwnInv => OneOwner
  <2>. SUFFICES ASSUME OwnInv, NEW x \in Items
                PROVE  /\ \A p, q \in Owners(x) : p = q
                       /\ Owners(x) # {} => x \in heap
    BY DEF OneOwner
  <2>1. \A t \in Threads : Len(args[t]) \in Nat
    BY LenProperties DEF OwnInv, IInv, TypeOK
  <2>2. \A p \in Owners(x) :
          \/ \E k \in Slots : InSlot(x, k) /\ p = <<"slot", k>>
          \/ \E t \in Threads, j \in Nat \ {0} : ToAdd(x, t, j) /\ p = <<"args", t, j>>
          \/ \E t \in Threads : Taken(x, t) /\ p = <<"got", t>>
    BY <2>1 DEF Owners, InWindow, InArgs, InHand
  <2>3. \A p, q \in Owners(x) : p = q
    BY <2>2 DEF OwnInv, OwnersApart
  <2>4. \A p \in Owners(x) : x \in heap
    BY <2>2 DEF OwnInv, OwnersApart
  <2>. QED
    BY <2>3, <2>4
<1>. QED
  BY <1>1, Ownership, PTL

\* Whatever is allocated is in the queue or with a caller, until the queue is
\* destroyed.
THEOREM NoItemLost == Spec => []NothingLost
<1>1. OwnInv => NothingLost
  <2>. SUFFICES ASSUME OwnInv, ~Draining, NEW x \in heap
                PROVE  Owners(x) # {}
    BY DEF NothingLost
  <2>1. HasOwner(x)
    BY DEF OwnInv, Owned
  <2>2. ASSUME NEW k \in Slots, InSlot(x, k)
        PROVE  <<"slot", k>> \in Owners(x)
    BY <2>2 DEF Owners, InWindow
  <2>3. ASSUME NEW t \in Threads, NEW j \in Nat \ {0}, ToAdd(x, t, j)
        PROVE  <<"args", t, j>> \in Owners(x)
    <3>1. j \in {l \in 1 .. Len(args[t]) : ToAdd(x, t, l)}
      <4>1. next[t] \in Nat \ {0} /\ Len(args[t]) \in Nat
        BY LenProperties DEF OwnInv, IInv, TypeOK
      <4>. QED
        BY <2>3, <4>1 DEF ToAdd
    <3>2. <<"args", t, j>> \in InArgs(x)
      BY <3>1 DEF InArgs
    <3>. QED
      BY <3>2 DEF Owners
  <2>4. ASSUME NEW t \in Threads, Taken(x, t)
        PROVE  <<"got", t>> \in Owners(x)
    BY <2>4 DEF Owners, InHand
  <2>. QED
    BY <2>1, <2>2, <2>3, <2>4 DEF HasOwner
<1>. QED
  BY <1>1, Ownership, PTL

-----------------------------------------------------------------------------
(* The refinement of BoundedQueue. *)

\* The slots of the entries, oldest first.
LEMMA EntrySlots ==
  ASSUME NEW h \in Slots, NEW i \in Slots \cup {-1},
         i = -1 => h < Capacity - 1
  PROVE  /\ \A j \in 1 .. Distance(h, i) :
              Mask[i + j - 1] \in Slots /\ Mask[i + j - 1] # h
         /\ \A j \in 2 .. Distance(h, i) : Mask[i + j - 1] # Mask[i]
         /\ Mask[i + Distance(h, i)] = h
         /\ \A j \in 1 .. Distance(h, i) - 1 : Mask[Mask[i + 1] + j - 1] = Mask[i + j]
BY MaskAssumption, QueueAssumption DEF Slots, Distance

\* What the entries of the mapped queue are.
EntriesAre ==
  /\ \A i \in Nat : i # 1 \/ (\A u \in Threads : pc[u] # "dadvance") =>
       EntryAt(i) = items[Mask[tail + i - 1]]
  /\ \A t \in Threads : pc[t] = "dadvance" => EntryAt(1) = got[t]
  /\ \A i \in 1 .. Distance(head, tail) : EntryAt(i) \in Values

LEMMA EntryValues == IInv => EntriesAre
<1>. SUFFICES ASSUME IInv PROVE EntriesAre
  OBVIOUS
<1>0. TypeOK
  BY DEF IInv
<1>1. \A i \in Nat : i # 1 \/ (\A u \in Threads : pc[u] # "dadvance") =>
        EntryAt(i) = items[Mask[tail + i - 1]]
  BY DEF EntryAt
<1>2. ASSUME NEW t \in Threads, pc[t] = "dadvance"
      PROVE  EntryAt(1) = got[t]
  <2>1. \A u \in Threads : pc[u] = "dadvance" => u = t
    BY <1>2 DEF IInv, MutualExclusion, Dequeuing, DequeueLabels
  <2>2. t = CHOOSE u \in Threads : pc[u] = "dadvance"
    BY <1>2, <2>1
  <2>. QED
    BY <1>2, <2>2 DEF EntryAt
<1>3. ASSUME NEW i \in 1 .. Distance(head, tail)
      PROVE  EntryAt(i) \in Values
  <2>1. i \in Nat /\ Mask[tail + i - 1] \in Slots
    BY <1>0, EntrySlots, DistanceStep DEF IInv, TypeOK, FreshRoom
  <2>2. items[Mask[tail + i - 1]] \in Values
    BY <1>0, <2>1 DEF TypeOK
  <2>3. CASE i = 1 /\ \E t \in Threads : pc[t] = "dadvance"
    BY <1>0, <1>2, <2>3 DEF TypeOK
  <2>4. CASE ~(i = 1 /\ \E t \in Threads : pc[t] = "dadvance")
    BY <1>1, <2>1, <2>2, <2>4
  <2>. QED
    BY <2>3, <2>4
<1>. QED
  BY <1>1, <1>2, <1>3 DEF EntriesAre

\* The mapped queue as a sequence.
BufferIs ==
  /\ get_queue_size = Distance(head, tail)
  /\ Distance(head, tail) \in 0 .. Capacity - 1
  /\ bufferBar \in Seq(Values)
  /\ Len(bufferBar) = Distance(head, tail)
  /\ \A i \in 1 .. Distance(head, tail) : bufferBar[i] = EntryAt(i)

LEMMA BufferValue == IInv => BufferIs
<1>. SUFFICES ASSUME IInv PROVE BufferIs
  OBVIOUS
<1>1. get_queue_size = Distance(head, tail) /\ Distance(head, tail) \in 0 .. Capacity - 1
  BY SizeIsDistance, DistanceStep DEF IInv, TypeOK, FreshRoom
<1>2. bufferBar = [i \in 1 .. Distance(head, tail) |-> EntryAt(i)]
  BY <1>1 DEF bufferBar
<1>3. \A i \in 1 .. Distance(head, tail) : EntryAt(i) \in Values
  BY EntryValues DEF EntriesAre
<1>4. Distance(head, tail) \in Nat
  BY <1>1, QueueAssumption
<1>5. bufferBar \in [1 .. Distance(head, tail) -> Values]
  BY <1>2, <1>3
<1>6. bufferBar \in Seq(Values) /\ Len(bufferBar) = Distance(head, tail)
  BY <1>4, <1>5
<1>. QED
  BY <1>1, <1>2, <1>6 DEF BufferIs

\* Two states with the same entries have the same mapped queue.
LEMMA SameBuffer ==
  ASSUME IInv, IInv', UNCHANGED <<head, tail>>,
         \A i \in 1 .. Distance(head, tail) : EntryAt(i)' = EntryAt(i)
  PROVE  bufferBar' = bufferBar
<1>1. BufferIs /\ BufferIs'
  BY BufferValue, PTL
<1>. QED
  BY <1>1, SeqEqual DEF BufferIs

\* A step that writes no entry, moves no index and removes none keeps the
\* mapped queue.
LEMMA BufferStays ==
  ASSUME IInv, IInv', UNCHANGED <<head, tail>>,
         \A k \in Slots : k # head => items'[k] = items[k],
         \A u \in Threads : pc[u] = "dadvance" <=> pc'[u] = "dadvance",
         \A u \in Threads : pc[u] = "dadvance" => got'[u] = got[u]
  PROVE  bufferBar' = bufferBar
<1>1. EntriesAre /\ EntriesAre'
  BY EntryValues, PTL
<1>2. ASSUME NEW i \in 1 .. Distance(head, tail)
      PROVE  EntryAt(i)' = EntryAt(i)
  <2>1. i \in Nat /\ Mask[tail + i - 1] \in Slots /\ Mask[tail + i - 1] # head
    BY EntrySlots, DistanceStep DEF IInv, TypeOK, FreshRoom
  <2>2. items'[Mask[tail' + i - 1]] = items[Mask[tail + i - 1]]
    BY <2>1
  <2>3. CASE i = 1 /\ \E t \in Threads : pc[t] = "dadvance"
    BY <1>1, <2>3 DEF EntriesAre
  <2>4. CASE i # 1 \/ \A t \in Threads : pc[t] # "dadvance"
    BY <1>1, <2>1, <2>2, <2>4 DEF EntriesAre
  <2>. QED
    BY <2>3, <2>4
<1>. QED
  BY <1>2, SameBuffer

\* Publishing appends the stored item, unless it is NULL.
LEMMA BufferPublish ==
  ASSUME IInv, IInv', NEW t \in Threads, EnqueuePublish(t)
  PROVE  /\ Len(bufferBar) < Capacity - 1
         /\ bufferBar' = IF args[t][next[t]] = NULL
                         THEN bufferBar ELSE Append(bufferBar, args[t][next[t]])
<1>. USE DEF EnqueuePublish, Goto
<1>0. TypeOK /\ FreshRoom /\ Mask[head] = head
  BY MaskIndex DEF IInv, TypeOK
<1>1. BufferIs /\ BufferIs' /\ EntriesAre /\ EntriesAre'
  BY BufferValue, EntryValues, PTL
<1>2. items[head] = args[t][next[t]] /\ Distance(head, tail) # Capacity - 1
  BY <1>0, SizeIsDistance DEF IInv, LocalFacts, ChecksStayTrue, is_queue_full
<1>3. Len(bufferBar) < Capacity - 1
  BY <1>1, <1>2, QueueAssumption DEF BufferIs
<1>4. /\ \A u \in Threads : pc[u] = "dadvance" <=> pc'[u] = "dadvance"
      /\ got' = got /\ items' = items /\ tail' = tail
  BY <1>0 DEF TypeOK
<1>5. CASE items[head] = NULL
  <2>1. UNCHANGED <<head, tail>>
    BY <1>0, <1>5 DEF StoredItem
  <2>2. bufferBar' = bufferBar
    BY <1>4, <2>1, BufferStays
  <2>. QED
    BY <1>2, <1>3, <1>5, <2>2
<1>6. CASE items[head] # NULL
  <2>0. PICK n \in Nat : n = Distance(head, tail)
    BY <1>1 DEF BufferIs
  <2>1. head' = Mask[head + 1] /\ items[head] \in Values
    BY <1>0, <1>6 DEF StoredItem, Successor, TypeOK
  <2>2. Distance(head', tail') = n + 1 /\ n \in Nat
    BY <1>0, <1>1, <1>2, <1>4, <2>0, <2>1, DistanceStep DEF TypeOK, FreshRoom, BufferIs
  <2>3. ASSUME NEW i \in 1 .. n
        PROVE  EntryAt(i)' = EntryAt(i)
    <3>1. i \in Nat
      BY <2>2
    <3>2. CASE i = 1 /\ \E u \in Threads : pc[u] = "dadvance"
      BY <1>1, <1>4, <3>2 DEF EntriesAre
    <3>3. CASE i # 1 \/ \A u \in Threads : pc[u] # "dadvance"
      BY <1>1, <1>4, <3>1, <3>3 DEF EntriesAre
    <3>. QED
      BY <3>2, <3>3
  <2>4. EntryAt(n + 1)' = items[head]
    <3>1. /\ n + 1 \in Nat
          /\ n + 1 # 1 \/ \A u \in Threads : pc'[u] # "dadvance"
      <4>1. n = 0 => is_queue_empty
        BY <1>1, <2>0 DEF BufferIs, is_queue_empty
      <4>. QED
        BY <1>4, <2>2, <4>1 DEF IInv, ChecksStayTrue
    <3>2. EntryAt(n + 1)' = items'[Mask[tail' + (n + 1) - 1]]
      BY <1>1, <2>2, <3>1 DEF EntriesAre
    <3>3. Mask[tail + n] = head
      BY <1>0, <2>0, EntrySlots DEF TypeOK, FreshRoom
    <3>4. tail' + (n + 1) - 1 = tail + n
      <4>1. tail \in Int /\ n \in Int
        BY <1>0, <2>2 DEF TypeOK, Slots
      <4>. QED
        BY <1>4, <4>1
    <3>. QED
      BY <1>4, <3>2, <3>3, <3>4
  <2>5. Append(bufferBar, items[head]) = bufferBar'
    <3>1. /\ Append(bufferBar, items[head]) \in Seq(Values)
          /\ Len(Append(bufferBar, items[head])) = n + 1
          /\ \A i \in 1 .. n : Append(bufferBar, items[head])[i] = bufferBar[i]
          /\ Append(bufferBar, items[head])[n + 1] = items[head]
      BY <1>1, <2>0, <2>1, AppendProperties DEF BufferIs
    <3>2. /\ bufferBar' \in Seq(Values) /\ Len(bufferBar') = n + 1
          /\ \A i \in 1 .. n + 1 : bufferBar'[i] = EntryAt(i)'
      BY <1>1, <2>2 DEF BufferIs
    <3>3. \A i \in 1 .. n : bufferBar[i] = EntryAt(i)
      BY <1>1, <2>0 DEF BufferIs
    <3>4. \A i \in 1 .. n + 1 : i \in 1 .. n \/ i = n + 1
      BY <2>2
    <3>5. ASSUME NEW i \in 1 .. n + 1
          PROVE  Append(bufferBar, items[head])[i] = bufferBar'[i]
      <4>1. CASE i = n + 1
        BY <2>4, <3>1, <3>2, <4>1
      <4>2. CASE i \in 1 .. n
        BY <2>3, <3>1, <3>2, <3>3, <4>2
      <4>. QED
        BY <3>4, <4>1, <4>2
    <3>. QED
      BY <3>1, <3>2, <3>5, SeqEqual
  <2>. QED
    BY <1>2, <1>3, <1>6, <2>5
<1>. QED
  BY <1>5, <1>6

\* Clearing the slot changes nothing: the local variable stands for it now.
LEMMA BufferClear ==
  ASSUME IInv, IInv', NEW t \in Threads, DequeueClear(t)
  PROVE  bufferBar' = bufferBar
<1>. USE DEF DequeueClear, Goto
<1>0. TypeOK /\ FreshRoom /\ Mask[tail] \in Slots
  BY MaskInSlots DEF IInv, TypeOK
<1>1. EntriesAre /\ EntriesAre'
  BY EntryValues, PTL
<1>2. \A u \in Threads : pc[u] # "dadvance"
  BY DEF IInv, MutualExclusion, Dequeuing, DequeueLabels
<1>3. pc'[t] = "dadvance" /\ got'[t] = items[Mask[tail]] /\ UNCHANGED <<head, tail>>
      /\ \A k \in Slots : k # Mask[tail] => items'[k] = items[k]
  BY <1>0 DEF IInv, LocalFacts, TypeOK
<1>4. ASSUME NEW i \in 1 .. Distance(head, tail)
      PROVE  EntryAt(i)' = EntryAt(i)
  <2>1. i \in Nat /\ Mask[tail + i - 1] \in Slots /\ (i # 1 => Mask[tail + i - 1] # Mask[tail])
    BY <1>0, EntrySlots, DistanceStep DEF TypeOK, FreshRoom
  <2>2. EntryAt(i) = items[Mask[tail + i - 1]]
    BY <1>1, <1>2, <2>1 DEF EntriesAre
  <2>3. CASE i = 1
    <3>1. tail + i - 1 = tail
      BY <1>0, <2>3 DEF TypeOK, Slots
    <3>. QED
      BY <1>1, <1>3, <2>2, <2>3, <3>1 DEF EntriesAre
  <2>4. CASE i # 1
    BY <1>1, <1>3, <2>1, <2>2, <2>4 DEF EntriesAre
  <2>. QED
    BY <2>3, <2>4
<1>. QED
  BY <1>3, <1>4, SameBuffer

\* Advancing takes the oldest entry away, and the dequeuer holds it.
LEMMA BufferAdvance ==
  ASSUME IInv, IInv', NEW t \in Threads, DequeueAdvance(t)
  PROVE  bufferBar # <<>> /\ bufferBar' = Tail(bufferBar) /\ Head(bufferBar) = got[t]
<1>. USE DEF DequeueAdvance, Goto
<1>0. TypeOK /\ FreshRoom /\ tail' = Mask[tail + 1] /\ head' = head /\ items' = items
  BY DEF IInv, Successor
<1>1. BufferIs /\ BufferIs' /\ EntriesAre /\ EntriesAre'
  BY BufferValue, EntryValues, PTL
<1>. DEFINE n == Distance(head, tail)
<1>2. n # 0 /\ n \in Nat
  BY <1>1, QueueAssumption DEF IInv, ChecksStayTrue, is_queue_empty, BufferIs
<1>3. Distance(head', tail') = n - 1
  BY <1>0, <1>2, DistanceStep DEF TypeOK, FreshRoom
<1>4. \A u \in Threads : pc'[u] # "dadvance"
  BY <1>0 DEF IInv, TypeOK, MutualExclusion, Dequeuing, DequeueLabels
<1>5. bufferBar # <<>> /\ bufferBar[1] = got[t]
  <2>1. 1 \in 1 .. n /\ Len(bufferBar) # 0
    BY <1>1, <1>2 DEF BufferIs
  <2>. QED
    BY <1>1, <2>1 DEF BufferIs, EntriesAre
<1>6. ASSUME NEW i \in 1 .. n - 1
      PROVE  EntryAt(i)' = EntryAt(i + 1)
  <2>1. i \in Nat /\ i + 1 \in Nat /\ i + 1 # 1 /\ i + 1 \in 1 .. n
    BY <1>2
  <2>2. EntryAt(i)' = items[Mask[Mask[tail + 1] + i - 1]]
    BY <1>0, <1>1, <1>4, <2>1 DEF EntriesAre
  <2>3. EntryAt(i + 1) = items[Mask[tail + i]]
    <3>1. EntryAt(i + 1) = items[Mask[tail + (i + 1) - 1]]
      BY <1>1, <2>1 DEF EntriesAre
    <3>2. tail + (i + 1) - 1 = tail + i
      BY <1>0, <2>1 DEF TypeOK, Slots
    <3>. QED
      BY <3>1, <3>2
  <2>4. Mask[Mask[tail + 1] + i - 1] = Mask[tail + i]
    BY <1>0, EntrySlots DEF TypeOK, FreshRoom
  <2>. QED
    BY <2>2, <2>3, <2>4
<1>7. bufferBar' = Tail(bufferBar)
  <2>1. /\ Tail(bufferBar) \in Seq(Values) /\ Len(Tail(bufferBar)) = n - 1
        /\ \A i \in 1 .. n - 1 : Tail(bufferBar)[i] = bufferBar[i + 1]
    BY <1>1, <1>5, HeadTailProperties DEF BufferIs
  <2>2. /\ bufferBar' \in Seq(Values) /\ Len(bufferBar') = n - 1
        /\ \A i \in 1 .. n - 1 : bufferBar'[i] = EntryAt(i)'
    BY <1>1, <1>3 DEF BufferIs
  <2>3. \A i \in 1 .. n - 1 : i + 1 \in 1 .. n
    BY <1>2
  <2>4. \A i \in 1 .. n - 1 : bufferBar[i + 1] = EntryAt(i + 1)
    BY <1>1, <2>3 DEF BufferIs
  <2>. QED
    BY <1>6, <2>1, <2>2, <2>4, SeqEqual
<1>8. Head(bufferBar) = bufferBar[1]
  BY <1>1, <1>5 DEF BufferIs
<1>. QED
  BY <1>5, <1>7, <1>8

\* Only thread t has moved: what the mapping makes of it is all that changes.
LEMMA BarsMove ==
  ASSUME NEW t \in Threads,
         \A u \in Threads \ {t} : pc'[u] = pc[u] /\ op'[u] = op[u] /\ got'[u] = got[u]
  PROVE  /\ phaseBar' = [phaseBar EXCEPT ![t] = phaseBar'[t]]
         /\ replyBar' = [replyBar EXCEPT ![t] = replyBar'[t]]
BY DEF phaseBar, replyBar

\* The mapped phase and reply of a thread.
LEMMA BarsAre ==
  ASSUME NEW t \in Threads
  PROVE  /\ phaseBar[t] = IF pc[t] = "idle" THEN "idle"
                          ELSE IF pc[t] \in {"eunlock", "dunlock"} /\ op[t] # "destroy_queue"
                          THEN "done" ELSE "called"
         /\ replyBar[t] = IF pc[t] = "dunlock" /\ op[t] # "destroy_queue" THEN got[t] ELSE NULL
         /\ phaseBar'[t] = IF pc'[t] = "idle" THEN "idle"
                           ELSE IF pc'[t] \in {"eunlock", "dunlock"} /\ op'[t] # "destroy_queue"
                           THEN "done" ELSE "called"
         /\ replyBar'[t] = IF pc'[t] = "dunlock" /\ op'[t] # "destroy_queue" THEN got'[t] ELSE NULL
BY DEF phaseBar, replyBar

\* A step of t that changes neither its phase nor its reply.
LEMMA BarsStay ==
  ASSUME NEW t \in Threads,
         \A u \in Threads \ {t} : pc'[u] = pc[u] /\ op'[u] = op[u] /\ got'[u] = got[u],
         phaseBar'[t] = phaseBar[t], replyBar'[t] = replyBar[t]
  PROVE  phaseBar' = phaseBar /\ replyBar' = replyBar
BY DEF phaseBar, replyBar

\* A step of t that changes its phase and not its reply.
LEMMA PhaseMoves ==
  ASSUME NEW t \in Threads,
         \A u \in Threads \ {t} : pc'[u] = pc[u] /\ op'[u] = op[u] /\ got'[u] = got[u],
         NEW phase, phaseBar'[t] = phase, replyBar'[t] = replyBar[t]
  PROVE  phaseBar' = [phaseBar EXCEPT ![t] = phase] /\ replyBar' = replyBar
<1>1. phaseBar' = [phaseBar EXCEPT ![t] = phaseBar'[t]]
  BY BarsMove
<1>2. replyBar' = replyBar
  BY DEF replyBar
<1>. QED
  BY <1>1, <1>2

LEMMA BarsInit == Init => Abs!Init
<1>. SUFFICES ASSUME Init PROVE Abs!Init
  OBVIOUS
<1>1. IInv /\ BufferIs /\ EntriesAre
  BY IInvInit, BufferValue, EntryValues
<1>2. Distance(head, tail) = 1
  BY QueueAssumption DEF Init, Distance
<1>3. Mask[tail] \in Slots
  BY MaskInSlots DEF Init
<1>4. PICK u \in Uninit : u = items[Mask[tail]]
  BY <1>3 DEF Init
<1>5. bufferBar[1] = u
  <2>1. EntryAt(1) = items[Mask[tail + 1 - 1]] /\ tail + 1 - 1 = tail
    BY <1>1 DEF EntriesAre, Init
  <2>. QED
    BY <1>1, <1>2, <1>4, <2>1 DEF BufferIs
<1>6. bufferBar = <<u>>
  <2>1. u \in Values
    BY DEF Values
  <2>2. <<u>> \in Seq(Values) /\ Len(<<u>>) = 1 /\ <<u>>[1] = u
    BY <2>1
  <2>3. bufferBar \in Seq(Values) /\ Len(bufferBar) = 1
    BY <1>1, <1>2 DEF BufferIs
  <2>4. \A i \in 1 .. 1 : bufferBar[i] = <<u>>[i]
    BY <1>5, <2>2
  <2>. QED
    BY <2>2, <2>3, <2>4, SeqEqual
<1>7. phaseBar = [t \in Threads |-> "idle"] /\ replyBar = [t \in Threads |-> NULL]
  BY DEF Init, phaseBar, replyBar
<1>. QED
  BY <1>6, <1>7 DEF Init, Abs!Init

\* The beginning of a call is the same in both.
LEMMA BeginImplements ==
  ASSUME IInv, IInv', CallFacts, NEW t \in Threads, Begin(t)
  PROVE  [Abs!Next]_Abs!vars
<1>0. TypeOK
  BY DEF IInv
<1>1. /\ \A u \in Threads \ {t} : pc'[u] = pc[u] /\ op'[u] = op[u] /\ got'[u] = got[u]
      /\ pc[t] = "idle" /\ pc'[t] \in {"idle", "elock", "dlock", "drain"}
      /\ UNCHANGED <<items, head, tail>>
  BY <1>0, BeginFrame
<1>2. bufferBar' = bufferBar
  BY <1>1, BufferStays
<1>3. args[t] = <<>> /\ next[t] = 1
  BY <1>1 DEF CallFacts, CallFactsOf, EnqueueLabels
<1>4. replyBar' = replyBar
  BY <1>1, BarsAre, BarsMove DEF replyBar
<1>5. ASSUME NEW f, NEW a, NEW label \in {"elock", "dlock", "drain"}, Call(t, f, label),
             args' = [args EXCEPT ![t] = a], next' = next
      PROVE  Abs!Invoke(t, f, a)
  <2>1. pc'[t] = label /\ destroyed' = destroyed /\ op' = [op EXCEPT ![t] = f] /\ ~destroyed
    BY <1>0, <1>5 DEF Call, Goto, TypeOK, shared
  <2>2. phaseBar[t] = "idle" /\ phaseBar'[t] = "called"
    BY <1>1, <2>1, BarsAre
  <2>3. phaseBar' = [phaseBar EXCEPT ![t] = "called"]
    BY <1>1, <2>2, BarsMove
  <2>. QED
    BY <1>2, <1>4, <1>5, <2>1, <2>2, <2>3 DEF Abs!Invoke
<1>6. CASE \E x \in Items \cup {NULL} : CallEnqueue(t, x)
  <2>1. PICK x \in Items \cup {NULL} : CallEnqueue(t, x)
    BY <1>6
  <2>2. next' = next
    BY <1>0, <1>3, <2>1 DEF CallEnqueue, TypeOK
  <2>3. Abs!Invoke(t, "enqueue", <<x>>)
    BY <1>5, <2>1, <2>2 DEF CallEnqueue
  <2>. QED
    BY <2>3 DEF Abs!Calls, Abs!Next
<1>7. CASE \E a \in BatchArgs : CallEnqueueBatch(t, a)
  <2>1. PICK a \in BatchArgs : CallEnqueueBatch(t, a)
    BY <1>7
  <2>2. next' = next /\ a # NULL
    BY <1>0, <1>3, <2>1 DEF CallEnqueueBatch, TypeOK
  <2>3. Abs!Invoke(t, "enqueue_batch", a)
    BY <1>5, <2>1, <2>2 DEF CallEnqueueBatch
  <2>. QED
    BY <2>2, <2>3 DEF Abs!Calls, Abs!Next
<1>8. CASE CallEnqueueNullArray(t) \/ CallDequeue(t) \/ CallPeek(t) \/ CallDestroy(t)
  <2>1. args' = [args EXCEPT ![t] = <<>>] /\ next' = next
    BY <1>0, <1>3, <1>8 DEF CallEnqueueNullArray, CallDequeue, CallPeek, CallDestroy, TypeOK
  <2>2. \E f \in {"enqueue_null_array", "dequeue", "peek_queue", "destroy_queue"} :
          Abs!Invoke(t, f, <<>>)
    BY <1>5, <1>8, <2>1 DEF CallEnqueueNullArray, CallDequeue, CallPeek, CallDestroy
  <2>. QED
    BY <2>2 DEF Abs!Calls, Abs!Next
<1>9. CASE Free(t)
  <2>1. pc' = pc /\ UNCHANGED <<op, args, next, destroyed>>
    BY <1>9 DEF Free, shared
  <2>2. phaseBar' = phaseBar
    BY <2>1 DEF phaseBar
  <2>. QED
    BY <1>2, <1>4, <2>1, <2>2 DEF Abs!vars
<1>. QED
  BY <1>6, <1>7, <1>8, <1>9 DEF Begin

\* The enqueuer's steps: an item is put when it is published, and the decision
\* to stop is the end of the call.
LEMMA EnqueuerImplements ==
  ASSUME IInv, IInv', CallFacts, NEW t \in Threads, Step(t),
         Enqueuing(t) \/ pc[t] = "elock"
  PROVE  [Abs!Next]_Abs!vars
<1>. USE DEF Goto
<1>0. TypeOK /\ BufferIs
  BY BufferValue DEF IInv
<1>1. \A u \in Threads \ {t} : pc'[u] = pc[u] /\ op'[u] = op[u] /\ got'[u] = got[u]
  BY <1>0, StepFrame
<1>2. op[t] \in {"enqueue", "enqueue_batch", "enqueue_null_array"}
  BY DEF CallFacts, CallFactsOf, Enqueuing
<1>3. ASSUME got' = got, pc[t] # "dadvance", pc'[t] # "dadvance", UNCHANGED <<head, tail>>,
             \A k \in Slots : k # head => items'[k] = items[k]
      PROVE  bufferBar' = bufferBar
  <2>1. \A u \in Threads : pc[u] = "dadvance" <=> pc'[u] = "dadvance"
    BY <1>1, <1>3
  <2>. QED
    BY <1>3, <2>1, BufferStays
<1>4. CASE EnqueueLock(t) \/ EnqueueRoom(t) \/ EnqueueStore(t)
  <2>. USE DEF EnqueueLock, EnqueueRoom, EnqueueStore, shared
  <2>1. /\ pc[t] \in {"elock", "eloop", "estore"} /\ pc'[t] \in {"eloop", "estore", "epublish"}
        /\ UNCHANGED <<head, tail, destroyed, op, args, next, got>>
    BY <1>0, <1>4 DEF TypeOK
  <2>2. \A k \in Slots : k # head => items'[k] = items[k]
    BY <1>0, <1>4, MaskIndex DEF TypeOK
  <2>3. bufferBar' = bufferBar
    BY <1>3, <2>1, <2>2
  <2>4. phaseBar' = phaseBar /\ replyBar' = replyBar
    BY <1>1, <2>1, BarsAre, BarsStay
  <2>. QED
    BY <2>1, <2>3, <2>4 DEF Abs!vars
<1>5. CASE EnqueueStop(t)
  <2>. USE DEF EnqueueStop, shared
  <2>1. /\ pc[t] = "eloop" /\ pc'[t] = "eunlock" /\ op[t] # "destroy_queue"
        /\ UNCHANGED <<head, tail, destroyed, op, args, next, got, items>>
    BY <1>0, <1>2, <1>5 DEF TypeOK
  <2>2. bufferBar' = bufferBar
    BY <1>3, <2>1
  <2>3. phaseBar[t] = "called" /\ phaseBar'[t] = "done" /\ replyBar'[t] = replyBar[t]
    BY <2>1, BarsAre
  <2>4. phaseBar' = [phaseBar EXCEPT ![t] = "done"] /\ replyBar' = replyBar
    BY <1>1, <2>3, PhaseMoves
  <2>5. op[t] \in Abs!Putting
    BY <1>2, <1>5 DEF Abs!Putting
  <2>6. \/ next[t] > Len(args[t]) \/ Len(bufferBar) = Capacity - 1
        \/ op[t] = "enqueue_batch" /\ args[t][next[t]] = NULL
    <3>1. next[t] \in Nat /\ Len(args[t]) \in Nat
      BY <1>0, LenProperties DEF TypeOK
    <3>2. is_queue_full => Len(bufferBar) = Capacity - 1
      BY <1>0 DEF BufferIs, is_queue_full
    <3>. QED
      BY <1>5, <3>1, <3>2 DEF HasNoNext, HasNext
  <2>7. Abs!PutEnd(t)
    BY <2>1, <2>2, <2>3, <2>4, <2>5, <2>6 DEF Abs!PutEnd
  <2>. QED
    BY <2>7 DEF Abs!Next
<1>6. CASE EnqueueNullArray(t)
  <2>. USE DEF EnqueueNullArray, shared
  <2>1. /\ pc[t] = "eloop" /\ pc'[t] = "idle" /\ op[t] = "enqueue_null_array"
        /\ op' = [op EXCEPT ![t] = "none"]
        /\ UNCHANGED <<head, tail, destroyed, args, next, got, items>>
    BY <1>0, <1>6 DEF TypeOK
  <2>2. bufferBar' = bufferBar
    BY <1>3, <2>1
  <2>3. phaseBar[t] = "called" /\ phaseBar'[t] = "idle" /\ replyBar'[t] = replyBar[t]
    BY <2>1, BarsAre
  <2>4. phaseBar' = [phaseBar EXCEPT ![t] = "idle"] /\ replyBar' = replyBar
    BY <1>1, <2>3, PhaseMoves
  <2>5. Abs!PutNothing(t)
    BY <2>1, <2>2, <2>3, <2>4 DEF Abs!PutNothing
  <2>. QED
    BY <2>5 DEF Abs!Next
<1>7. CASE EnqueuePublish(t)
  <2>1. /\ pc[t] = "epublish" /\ pc'[t] = "eloop" /\ next' = [next EXCEPT ![t] = @ + 1]
        /\ UNCHANGED <<destroyed, op, args, got>>
    BY <1>0, <1>7 DEF EnqueuePublish, TypeOK
  <2>2. /\ Len(bufferBar) < Capacity - 1
        /\ bufferBar' = IF args[t][next[t]] = NULL
                        THEN bufferBar ELSE Append(bufferBar, args[t][next[t]])
    BY <1>7, BufferPublish
  <2>3. phaseBar[t] = "called" /\ phaseBar' = phaseBar /\ replyBar' = replyBar
    BY <1>1, <2>1, BarsAre, BarsStay
  <2>4. op[t] \in Abs!Putting
    BY <1>2, <2>1 DEF CallFacts, CallFactsOf, Abs!Putting
  <2>5. next[t] <= Len(args[t])
    BY <2>1 DEF IInv, LocalFacts
  <2>6. Abs!Put(t)
    BY <2>1, <2>2, <2>3, <2>4, <2>5 DEF Abs!Put
  <2>. QED
    BY <2>6 DEF Abs!Next
<1>8. CASE EnqueueUnlock(t)
  <2>1. /\ pc[t] = "eunlock" /\ pc'[t] = "idle" /\ op[t] # "destroy_queue"
        /\ op' = [op EXCEPT ![t] = "none"] /\ args' = [args EXCEPT ![t] = <<>>]
        /\ next' = [next EXCEPT ![t] = 1]
        /\ UNCHANGED <<head, tail, destroyed, got, items>>
    BY <1>0, <1>2, <1>8 DEF EnqueueUnlock, TypeOK
  <2>2. bufferBar' = bufferBar
    BY <1>3, <2>1
  <2>3. phaseBar[t] = "done" /\ phaseBar'[t] = "idle" /\ replyBar'[t] = NULL
    BY <2>1, BarsAre
  <2>4. phaseBar' = [phaseBar EXCEPT ![t] = "idle"] /\ replyBar' = [replyBar EXCEPT ![t] = NULL]
    BY <1>1, <2>3, BarsMove
  <2>5. Abs!Return(t)
    BY <2>1, <2>2, <2>3, <2>4 DEF Abs!Return
  <2>. QED
    BY <2>5 DEF Abs!Next
<1>9. pc[t] \in {"elock"} \cup EnqueueLabels
  BY DEF Enqueuing
<1>. QED
  BY <1>4, <1>5, <1>6, <1>7, <1>8, <1>9 DEF Step, EnqueueLabels, DequeueLock, DequeueEmpty,
     DequeueNonEmpty, DequeueRead, DequeueClear, DequeueAdvance, DequeueUnlock, DrainNext, DrainEnd

\* The dequeuer's steps: an item is taken when tail moves past it.
LEMMA DequeuerImplements ==
  ASSUME IInv, IInv', CallFacts, NEW t \in Threads, Step(t),
         Dequeuing(t) \/ pc[t] \in {"dlock", "drain"}
  PROVE  [Abs!Next]_Abs!vars
<1>. USE DEF Goto
<1>0. TypeOK /\ BufferIs /\ EntriesAre
  BY BufferValue, EntryValues DEF IInv
<1>1. \A u \in Threads \ {t} : pc'[u] = pc[u] /\ op'[u] = op[u] /\ got'[u] = got[u]
  BY <1>0, StepFrame
<1>2. op[t] \in {"dequeue", "peek_queue", "destroy_queue"}
  BY DEF CallFacts, CallFactsOf, Dequeuing
<1>3. ASSUME pc[t] # "dadvance", pc'[t] # "dadvance", UNCHANGED <<head, tail, items>>
      PROVE  bufferBar' = bufferBar
  <2>1. \A u \in Threads : pc[u] = "dadvance" <=> pc'[u] = "dadvance"
    BY <1>1, <1>3
  <2>2. \A u \in Threads : pc[u] = "dadvance" => got'[u] = got[u]
    BY <1>1, <1>3
  <2>. QED
    BY <1>3, <2>1, <2>2, BufferStays
<1>4. is_queue_empty <=> bufferBar = <<>>
  <2>1. Len(bufferBar) = 0 <=> bufferBar = <<>>
    BY <1>0, EmptySeq DEF BufferIs
  <2>. QED
    BY <1>0, <2>1 DEF BufferIs, is_queue_empty
<1>5. CASE DequeueLock(t) \/ DequeueNonEmpty(t) \/ DrainNext(t)
  <2>. USE DEF DequeueLock, DequeueNonEmpty, DrainNext, shared
  <2>1. /\ pc[t] \in {"dlock", "dcheck", "drain"} /\ pc'[t] \in {"dlock", "dcheck", "dread"}
        /\ UNCHANGED <<items, head, tail, destroyed, op, args, next, got>>
    BY <1>0, <1>5 DEF TypeOK
  <2>2. bufferBar' = bufferBar
    BY <1>3, <2>1
  <2>3. phaseBar' = phaseBar /\ replyBar' = replyBar
    BY <1>1, <2>1, BarsAre, BarsStay
  <2>. QED
    BY <2>1, <2>2, <2>3 DEF Abs!vars
<1>6. CASE DequeueEmpty(t)
  <2>1. /\ pc[t] = "dcheck" /\ pc'[t] = "dunlock" /\ got'[t] = NULL /\ is_queue_empty
        /\ UNCHANGED <<items, head, tail, destroyed, op, args, next>>
    BY <1>0, <1>6 DEF DequeueEmpty, shared, TypeOK
  <2>2. bufferBar' = bufferBar /\ bufferBar = <<>>
    BY <1>3, <1>4, <2>1
  <2>3. CASE op[t] = "destroy_queue"
    <3>1. phaseBar' = phaseBar /\ replyBar' = replyBar
      BY <1>1, <2>1, <2>3, BarsAre, BarsStay
    <3>. QED
      BY <2>1, <2>2, <3>1 DEF Abs!vars
  <2>4. CASE op[t] # "destroy_queue"
    <3>1. phaseBar[t] = "called" /\ phaseBar'[t] = "done" /\ replyBar'[t] = replyBar[t]
      BY <2>1, <2>4, BarsAre
    <3>2. phaseBar' = [phaseBar EXCEPT ![t] = "done"] /\ replyBar' = replyBar
      BY <1>1, <3>1, PhaseMoves
    <3>3. Abs!FindEmpty(t)
      BY <1>2, <2>1, <2>2, <2>4, <3>1, <3>2 DEF Abs!FindEmpty
    <3>. QED
      BY <3>3 DEF Abs!Next
  <2>. QED
    BY <2>3, <2>4
<1>7. CASE DequeueRead(t)
  <2>1. /\ pc[t] = "dread" /\ pc'[t] = AfterRead(t) /\ got'[t] = items[Mask[tail]]
        /\ UNCHANGED <<items, head, tail, destroyed, op, args, next>>
    BY <1>0, <1>7 DEF DequeueRead, OldestEntry, shared, TypeOK
  <2>2. bufferBar' = bufferBar
    BY <1>3, <2>1 DEF AfterRead
  <2>3. CASE op[t] # "peek_queue"
    <3>1. phaseBar' = phaseBar /\ replyBar' = replyBar
      BY <1>1, <2>1, <2>3, BarsAre, BarsStay DEF AfterRead
    <3>. QED
      BY <2>1, <2>2, <3>1 DEF Abs!vars
  <2>4. CASE op[t] = "peek_queue"
    <3>1. phaseBar[t] = "called" /\ phaseBar'[t] = "done" /\ replyBar'[t] = items[Mask[tail]]
      BY <2>1, <2>4, BarsAre DEF AfterRead
    <3>2. bufferBar # <<>>
      BY <1>4, <2>1 DEF IInv, ChecksStayTrue
    <3>3. Head(bufferBar) = items[Mask[tail]]
      <4>1. \A u \in Threads : pc[u] # "dadvance"
        BY <2>1 DEF IInv, MutualExclusion, Dequeuing, DequeueLabels
      <4>2. EntryAt(1) = items[Mask[tail + 1 - 1]] /\ tail + 1 - 1 = tail
        BY <1>0, <4>1 DEF EntriesAre, TypeOK, Slots
      <4>3. 1 \in 1 .. Distance(head, tail)
        BY <1>0, <1>4, <3>2, QueueAssumption DEF BufferIs, is_queue_empty
      <4>4. bufferBar[1] = items[Mask[tail]]
        BY <1>0, <4>2, <4>3 DEF BufferIs
      <4>. QED
        BY <1>0, <3>2, <4>4 DEF BufferIs
    <3>4. /\ phaseBar' = [phaseBar EXCEPT ![t] = "done"]
          /\ replyBar' = [replyBar EXCEPT ![t] = Head(bufferBar)]
      BY <1>1, <3>1, <3>3, BarsMove
    <3>5. Abs!Look(t)
      BY <2>1, <2>2, <2>4, <3>1, <3>2, <3>4 DEF Abs!Look
    <3>. QED
      BY <3>5 DEF Abs!Next
  <2>. QED
    BY <2>3, <2>4
<1>8. CASE DequeueClear(t)
  <2>1. /\ pc[t] = "dclear" /\ pc'[t] = "dadvance"
        /\ UNCHANGED <<head, tail, destroyed, op, args, next, got>>
    BY <1>0, <1>8 DEF DequeueClear, TypeOK
  <2>2. bufferBar' = bufferBar
    BY <1>8, BufferClear
  <2>3. phaseBar' = phaseBar /\ replyBar' = replyBar
    BY <1>1, <2>1, BarsAre, BarsStay
  <2>. QED
    BY <2>1, <2>2, <2>3 DEF Abs!vars
<1>9. CASE DequeueAdvance(t)
  <2>1. /\ pc[t] = "dadvance" /\ pc'[t] = "dunlock" /\ op[t] # "peek_queue"
        /\ UNCHANGED <<destroyed, op, args, next, got>>
    BY <1>0, <1>9 DEF DequeueAdvance, TypeOK, CallFacts, CallFactsOf
  <2>2. bufferBar # <<>> /\ bufferBar' = Tail(bufferBar) /\ Head(bufferBar) = got[t]
    BY <1>9, BufferAdvance
  <2>3. CASE op[t] = "destroy_queue"
    <3>1. phaseBar[t] = "called" /\ phaseBar' = phaseBar /\ replyBar' = replyBar
      BY <1>1, <2>1, <2>3, BarsAre, BarsStay
    <3>2. Abs!Drain(t)
      BY <2>1, <2>2, <2>3, <3>1 DEF Abs!Drain
    <3>. QED
      BY <3>2 DEF Abs!Next
  <2>4. CASE op[t] = "dequeue"
    <3>1. phaseBar[t] = "called" /\ phaseBar'[t] = "done" /\ replyBar'[t] = got[t]
      BY <2>1, <2>4, BarsAre
    <3>2. /\ phaseBar' = [phaseBar EXCEPT ![t] = "done"]
          /\ replyBar' = [replyBar EXCEPT ![t] = Head(bufferBar)]
      BY <1>1, <2>2, <3>1, BarsMove
    <3>3. Abs!Take(t)
      BY <2>1, <2>2, <2>4, <3>1, <3>2 DEF Abs!Take
    <3>. QED
      BY <3>3 DEF Abs!Next
  <2>. QED
    BY <1>2, <2>1, <2>3, <2>4
<1>10. CASE DequeueUnlock(t)
  <2>1. /\ pc[t] = "dunlock" /\ UNCHANGED <<items, head, tail, destroyed, args, next>>
        /\ pc'[t] = IF op[t] = "destroy_queue" THEN "drain" ELSE "idle"
        /\ args[t] = <<>> /\ next[t] = 1
    BY <1>0, <1>10 DEF DequeueUnlock, TypeOK, CallFacts, CallFactsOf, EnqueueLabels
  <2>2. bufferBar' = bufferBar
    BY <1>3, <2>1
  <2>3. CASE op[t] = "destroy_queue"
    <3>1. op' = op
      BY <1>0, <1>10, <2>3 DEF DequeueUnlock, TypeOK
    <3>2. phaseBar' = phaseBar /\ replyBar' = replyBar
      BY <1>1, <2>1, <2>3, <3>1, BarsAre, BarsStay
    <3>. QED
      BY <2>1, <2>2, <3>1, <3>2 DEF Abs!vars
  <2>4. CASE op[t] # "destroy_queue"
    <3>1. op' = [op EXCEPT ![t] = "none"]
      BY <1>0, <1>10, <2>4 DEF DequeueUnlock, TypeOK
    <3>2. args' = [args EXCEPT ![t] = <<>>] /\ next' = [next EXCEPT ![t] = 1]
      BY <1>0, <2>1 DEF TypeOK
    <3>3. phaseBar[t] = "done" /\ phaseBar'[t] = "idle" /\ replyBar'[t] = NULL
      BY <2>1, <2>4, BarsAre
    <3>4. phaseBar' = [phaseBar EXCEPT ![t] = "idle"] /\ replyBar' = [replyBar EXCEPT ![t] = NULL]
      BY <1>1, <3>3, BarsMove
    <3>5. Abs!Return(t)
      BY <2>1, <2>2, <3>1, <3>2, <3>3, <3>4 DEF Abs!Return
    <3>. QED
      BY <3>5 DEF Abs!Next
  <2>. QED
    BY <2>3, <2>4
<1>11. CASE DrainEnd(t)
  <2>1. /\ pc[t] = "drain" /\ pc'[t] = "idle" /\ op[t] = "destroy_queue" /\ is_queue_empty
        /\ op' = [op EXCEPT ![t] = "none"] /\ destroyed' = TRUE
        /\ UNCHANGED <<items, head, tail, args, next, got>>
    BY <1>0, <1>11 DEF DrainEnd, TypeOK, CallFacts, CallFactsOf
  <2>2. bufferBar' = bufferBar /\ bufferBar = <<>>
    BY <1>3, <1>4, <2>1
  <2>3. phaseBar[t] = "called" /\ phaseBar'[t] = "idle" /\ replyBar'[t] = replyBar[t]
    BY <2>1, BarsAre
  <2>4. phaseBar' = [phaseBar EXCEPT ![t] = "idle"] /\ replyBar' = replyBar
    BY <1>1, <2>3, PhaseMoves
  <2>5. Abs!Destroy(t)
    BY <2>1, <2>2, <2>3, <2>4 DEF Abs!Destroy
  <2>. QED
    BY <2>5 DEF Abs!Next
<1>12. pc[t] \in {"dlock", "drain"} \cup DequeueLabels
  BY DEF Dequeuing
<1>. QED
  BY <1>5, <1>6, <1>7, <1>8, <1>9, <1>10, <1>11, <1>12 DEF Step, DequeueLabels, EnqueueLock,
     EnqueueStop, EnqueueNullArray, EnqueueRoom, EnqueueStore, EnqueuePublish, EnqueueUnlock

\* The ring buffer implements the bounded queue: every call returns what a
\* queue whose operations take effect at one instant each would return.
THEOREM QueueImplementsBoundedQueue == Spec => ImplementsBoundedQueue
<1>1. OwnInv /\ OwnInv' /\ [Next]_vars => [Abs!Next]_Abs!vars
  <2>. SUFFICES ASSUME OwnInv, OwnInv', [Next]_vars PROVE [Abs!Next]_Abs!vars
    OBVIOUS
  <2>0. IInv /\ IInv' /\ CallFacts
    BY DEF OwnInv
  <2>1. ASSUME NEW t \in Threads, Begin(t)
        PROVE  [Abs!Next]_Abs!vars
    BY <2>0, <2>1, BeginImplements
  <2>2. ASSUME NEW t \in Threads, Step(t)
        PROVE  [Abs!Next]_Abs!vars
    <3>1. pc[t] # "idle" /\ pc[t] \in Labels
      BY <2>0, <2>2, StepFrame DEF IInv, TypeOK
    <3>2. \/ Enqueuing(t) \/ pc[t] = "elock"
          \/ Dequeuing(t) \/ pc[t] \in {"dlock", "drain"}
      BY <3>1 DEF Labels, Enqueuing, Dequeuing
    <3>. QED
      BY <2>0, <2>2, <3>2, EnqueuerImplements, DequeuerImplements
  <2>3. CASE UNCHANGED vars
    <3>1. bufferBar' = bufferBar
      BY <2>0, <2>3, BufferStays DEF vars, shared, local
    <3>2. phaseBar' = phaseBar /\ replyBar' = replyBar
      BY <2>3 DEF vars, local, phaseBar, replyBar
    <3>. QED
      BY <2>3, <3>1, <3>2 DEF vars, shared, local, Abs!vars
  <2>. QED
    BY <2>1, <2>2, <2>3 DEF Next
<1>. QED
  BY <1>1, BarsInit, Ownership, PTL DEF Spec, ImplementsBoundedQueue, Abs!Spec
=============================================================================

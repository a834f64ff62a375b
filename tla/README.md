# A TLA+ model of mt-pipeline

The repository is a family of small C programs that push items through a row
of processing stages. Every stage is a group of POSIX threads; the stages are
connected by bounded queues. This directory holds TLA+ modules that model the
queue and the programs built on it, TLC configurations that check them on small
instances, and TLAPS proofs about the queue, the four programs, the lifecycle of their stages and the
command line parser for every size.

## 1. The system

| Component | Source | State | Operations | Interacts with |
|---|---|---|---|---|
| Ring buffer queue | `src/queue.h` | `items[]`, `head`, `tail`, `capacity`, two spin locks | `create_queue`, `enqueue`, `enqueue_batch`, `dequeue`, `peek_queue`, `is_queue_empty/full`, `get_queue_size`, `destroy_queue` | shared by all threads of the stage before it and the stage behind it |
| pipeline-app | `src/pipeline-app.c` | 4 queues, 3 stages, an `is_running` flag per stage, per-thread counters, an item with time stamps per stage | `generate_items`, `poll_jobs` (each worker), `sink`, `main` | everything else |
| mt-pipeline | `src/mt-pipeline.c` | as pipeline-app, one thread per stage, no stamps | the same | as above |
| rtc-app | `src/rtc-app.c` | as pipeline-app, one stage that does the whole work ("run to completion"), and the sums of times of the sink | the same | as above |
| mt-pipeline-shm | `src/mt-pipeline-shm.c` | 3 queues that hold the *same* item, `steps_ok[3]` in the item | the generator enqueues an item three times; stages 2 and 3 wait for the mark of the stage before | queue, stages |
| Stage and pipeline lifecycle | `src/pipeline.h` | `Stage`, `Pipeline`, the local `thread_args` of `start_stage` | `create_stage`, `start_stage`, `stop_stage`, `create_pipeline`, `add_pipeline_stage`, `start_pipeline`, `stop_pipeline`, `destroy_pipeline` | the programs use `create_stage` and the fields; only the obsolete `.bak` calls the rest |
| Clock and simulated work | `src/simulation.h` | the clock | `get_current_time`, `busy_poll_ns` | all threads |
| Command line parser | `src/argparse.c/.h` | the argument array and a pointer into it, the rest of the current argument (`optvalue`), the options' variables | `argparse_parse`, `argparse_short_opt`, `argparse_long_opt`, `argparse_getvalue` | `main` of each program |

### What is hard in it

* **Queue.** Enqueuers and dequeuers run at the same time: each side has a spin
  lock of its own, and the tests for a full or an empty queue read the other
  side's index without its lock. What keeps them apart is only the order of the
  accesses to the slot and to the index, and one slot that always stays free.
  The array is not initialised, and `head = 0`, `tail = -1` make a fresh queue
  report one entry.
* **Programs.** An item is a heap pointer handed from thread to thread; it may be
  freed by the generator, by any worker or by the sink. Items disappear at five
  kinds of places, each counted by another thread. `main` stops the stages while
  workers hold items; the queues are freed after the last join.
* **mt-pipeline-shm.** One pointer is in up to three queues and is freed by the
  last stage, or by the generator once per full queue.
* **rtc-app.** The sink subtracts unsigned times that three threads have taken, and
  adds up rounded quotients.
* **Lifecycle.** `start_stage` hands its threads the address of a local variable, which
  the call for the next stage overwrites while they read it; a failing
  `pthread_create` leaves a stage half started.
* **Parser.** Operands are moved within the array that is being read, and the rest of
  an argument lives on in a field that the next one may find.

### What makes each part correct

* Queue: mutual exclusion per side; a test stays true until it is used; no slot
  is accessed by both sides at once; the slots between `tail` and `head` hold
  items; every item has one owner; the whole is a linearizable bounded FIFO.
* Programs: every allocated item has exactly one holder; the sink reads only
  items that passed every stage; the counters balance; order is kept where the
  configuration implies it; the shutdown terminates and frees nothing that is in
  use.
* rtc-app: the parts of the latencies add up to the whole, whatever the threads do.
* Lifecycle: a thread that takes its queues from a stage takes none of an earlier stage;
  no stage is freed while a thread runs; a join ends unless a thread of the joined stage
  has lost sight of its own flag.
* Parser: operands and values are those that a reading of the arguments without
  pointers gives.
* The complete list of hazards, each at its line and with the property that
  covers it, is in `PROJECT.json`.

## 2. The modules

| Module | Contents |
|---|---|
| `Queue` | `queue.h` at the grain of its shared accesses, with the most general callers |
| `BoundedQueue` | abstract specification: a bounded FIFO whose operations are atomic |
| `QueueClaims` | properties taken from the source's comments and needed by the proofs |
| `QueueProps` | type invariant, safety invariants, the inductive invariant `IInv`, the refinement mapping |
| `QueueProofs` | TLAPS proofs: safety, ownership, refinement |
| `MCQueueClaims`, `MCQueue` | instances for TLC |
| `Pipeline` | `pipeline-app.c`: generator, workers, sink, `main` |
| `Delivery` | abstract specification: the life of an item |
| `PipelineProps` | invariants, the parts that make them inductive, refinement of `Delivery`, liveness |
| `PipelineProofs` | TLAPS proofs: types, control and shutdown, ownership of items, stamps, counts |
| `DeliveryProofs` | TLAPS proofs: order, refinement of `Delivery` |
| `MCPipeline` | instances for TLC |
| `MtPipeline`, `MCMt` | `mt-pipeline.c`: extends `Pipeline`; its instance |
| `MtProofs` | TLAPS proofs that the results about `Pipeline` hold for it |
| `RtcApp`, `RtcProps`, `MCRtc` | `rtc-app.c`: extends `Pipeline` with clock, stamps and sums; its property, the order of the stamps, and instance |
| `RtcProofs` | TLAPS proofs: the results about `Pipeline` by a mapping to it, and the times |
| `ShmPipeline` | `mt-pipeline-shm.c`: its generator and stages; extends `Pipeline`, whose `main`, sink and clock it shares |
| `ShmProps`, `MCShm` | its properties, the parts of its inductive invariants, and instances |
| `ShmProofs` | TLAPS proofs: control by a mapping to `Pipeline`, ownership, marks, counts |
| `StageLifecycle`, `LifecycleProps`, `MCLifecycle` | `pipeline.h` with the calls and stage threads of `mt-pipeline.c.bak`; properties and the inductive invariant `IInv`, instance |
| `LifecycleProofs` | TLAPS proofs |
| `Argparse`, `ArgparseProps`, `MCArgparse` | `argparse.c` as a sequential machine; an independent reading of the arguments, the properties and the inductive invariant `ParseInv`, instance |
| `ArgparseProofs` | TLAPS proofs: the reading, step by step, and that the parser follows it |

Definitions named in a comment as *mutants* are deliberately wrong versions of
the definition below them. Nothing uses them: `PROJECT.json` pairs each with the
property that notices when it replaces the right one.

### Queue

`items`, `head`, `tail` and the two locks are the fields of `struct Queue`. `pc`,
`op`, `args`, `next` and `got` are the thread's place in the code and its local
variables. Each action is one access to shared memory another thread can see:

| `queue.h` | actions |
|---|---|
| 116/143 lock | `EnqueueLock` |
| 119, 146-150 tests | `EnqueueRoom`, `EnqueueStop` |
| 126 store | `EnqueueStore` |
| 127-132 read back, move `head` | `EnqueuePublish` |
| 137/174 unlock | `EnqueueUnlock` |
| 145 null array, return without unlock | `EnqueueNullArray` |
| 183/207 lock | `DequeueLock` |
| 186 test | `DequeueEmpty`, `DequeueNonEmpty` |
| 192 read | `DequeueRead` |
| 193 clear | `DequeueClear` |
| 195 move `tail` | `DequeueAdvance` |
| 200 unlock | `DequeueUnlock` |
| 79-97 drain and free | `DrainNext`, `DrainEnd` |

`Mask` is `& (capacity - 1)`, computed bit by bit, so that a capacity that is not
a power of two behaves as it does in C; `x` starts at -1 because `tail` does.
`heap` is the set of allocated items. The caller actions (`CallEnqueue`, ...) say
what the programs may do: enqueue a new item or the one they dequeued last, free
what the queue refuses, own what they dequeue.

The build is `gcc -O0` on x86 with full fences at the index updates. Each
thread's accesses are therefore taken in program order; weaker memory is not
modelled. A failing `malloc` or spin lock initialisation ends the process and is
left out.

### Pipeline

`main` is a program counter over the phases of `main()`; `generator`, `sinker` and
`worker` are those of the threads. A queue operation is one step: `Queue`
implements `BoundedQueue`, whose operations are. The phantom entry of a fresh queue
is a null pointer here (what large fresh allocations contain); `queue_fresh` shows
what else may happen. Time is the step `Expire`, at any moment after the thread
has started. `Terminated` is the stuttering of a process that has exited.
`CreateFails` is any failing `pthread_create`: `main` returns 1 and takes the
process with it.

Left out: nanosecond values, CPU pinning and priorities, printing, the options
other than the sizes. `-n` above `MAX_THREADS` writes beyond an array and is
outside the model, as is a queue size that is not a power of two (see
`queue_odd_capacity`) or below 2.

`Delivery` is the life of each item: `placeBar` says where it is, and every step of
the program moves one item to its next place, in the order of the ids out of the
generator, or destroys a queue.

### MtPipeline and RtcApp

Generator, sink and `main` of `mt-pipeline.c` and `rtc-app.c` are those of
`pipeline-app.c`, call for call, so that both modules extend `Pipeline` and replace
the stage threads. An item of mt-pipeline has no stamps (`BusyPoll`). In `RtcApp` a
worker takes the start time (`StartWork`), waits until `Duration` has passed
(`WorkDone`, the loop of `busy_poll_ns`), and takes the end time (`FinishWork`).
`clock` is what `get_current_time` returns; `Tick` moves it, at any moment, so that
it can move between any two steps of the threads. Differences are taken modulo `Modulus`
(2^64 in the code), as unsigned numbers, and divided by `Unit` (1000). The generator
and the sink end by the clock (`RtcExpire`).

### ShmPipeline

The elements of `Items` are addresses; `heap` is the set of allocated ones and
`stamps[a]` is the `steps_ok` array of the item at `a`. `malloc` may hand out a freed
address again. `NewItem` is the allocation, `PublishItem` one of the three enqueues
that follow, so that the stages run in between. A stage that finds no mark polls
again (`WaitOn`). An access to a freed item is undefined behaviour: reading a mark
returns either value (`StepsOk`), writing one has no effect or hits the new item
at that address, and the process may die (`Crash`).

### StageLifecycle

`main` goes through `create_stage` and `add_pipeline_stage`, `start_pipeline`,
`stop_pipeline` and `destroy_pipeline`. `thread_args` is what is in the place of the local
variable of `start_stage`: all calls have it at one place of the stack, so a thread reads
what the last call stored. Once that call has returned, other calls of `main` may put anything
there (`OverwriteFrame`): `GARBAGE` is any other pointer, usable or not. A thread follows
`thread_args` once for each queue (`TakeInputQueue`, `TakeOutputQueue`; `mt-pipeline.c.bak:34`,
35) and again in every round for the flag (`LoadStage`, and `Poll` or `Exit`; line 41), so
that `main` may store or overwrite in between. With a queue from a garbage pointer it
is "astray": it may work for ever, exit, or take the process with it (`ExitAstray`,
`ThreadCrashes`). A flag read through garbage may look like either value (`FlagRead`), each
time anew. What an astray thread writes elsewhere in memory is not modelled. `CreateFails` is
a failing `pthread_create`: the stage keeps the threads it has, and `start_pipeline`
goes on. `stop_stage` joins `num_threads` handles even so; joining one never stored does
nothing or crashes (`JoinCrashes`). The programs and the `.bak` pass `create_stage`
`handler` and `args` in the opposite order of its prototype (`pipeline-app.c:239`);
only the `.bak` starts threads with these fields. The module has them as the prototype does.
Neither way does line 37 of the `.bak` read a duration: `stage->args` is the `ThreadArgs` that
`create_stage` allocates (`pipeline.h:123`), whose first word is the address of the stage. A
wrong duration is still a duration (`TakeDuration`).

### Argparse

An argument is a record: its dashes, its letters or symbols, its value after an
equals sign. `argv`, `cpidx` and `optvalue` are the fields of `struct argparse`, `pos` is
where its pointer `argv` is. There is one action per case of the loop in `argparse_parse` and
per option found in `argparse_short_opt` and `argparse_long_opt`; `Get` is
`argparse_getvalue`. `--help` ends the program. The value of an option is the text
that was accepted, not the number. `ArgparseProps` reads the same arguments with
recursive functions over the list that know neither a pointer nor a rest
(`ReadFrom`, `OperandsFrom`, `ValueIn`). Both readings differ if an argument has left a
rest behind (`LeavesRest`: `--verbose=5` for a flag, or `-xn` with an unknown `x`
that the flags tolerate); then the next option takes it as its value, and the properties
say nothing but that there was such an argument. `ArgparseAssumption` gives the arguments
their form and says that no name is given to two options: the code takes the first in the
array, and no program's array has a name twice.

## 3. The runs

| Run | Configuration | Question |
|---|---|---|
| `queue_safety` | capacity 4, 3 threads, 4 items, batches up to 2, null arrays | `TypeOK`, `MutualExclusion`, `ChecksStayTrue`, `SlotsNotShared`, `WindowFilled`, `OneOwner`, `NothingLost` |
| `queue_refines` | capacity 4, 2 threads, 3 items, batches up to 2, null arrays, an array of garbage; `FairSpec` | `ImplementsBoundedQueue`, `NothingOverwritten`, `SectionsEnd` |
| `queue_fresh`, `queue_odd_capacity` | smallest that show it | findings |
| `pipeline_safety` | 2 stages of 2 threads, capacity 2, 2 items | `TypeOK`, `OneHolder`, `StampsComplete`, `QueuesBalance`, `CountsAddUp`, `QueuesOutliveUsers`, `StagesRunToTheEnd` |
| `mt_order` | `MtPipeline`: 3 stages of 1 thread, capacity 4, 3 items; `MtFairSpec` | `InOrder`, `ImplementsDelivery`, `Termination` |
| `rtc_times` | `RtcApp`: 2 threads, capacity 2, 2 items, `Duration` 2, `Unit` 2, `RunTime` 2 | `TimesAddUp` |
| `shm_safety` | 3 stages of 1 thread, capacity 2, one batch of 2 items | `TypeOK`, `LastStageOwns`, `LiveUntilDrop`, `StagesInOrder`, `MarksCome`, `LastStageCounts` |
| `shm_freed`, `shm_hang` | smallest that show it | findings |
| `lifecycle` | 3 stages of 2 threads, room for 2; `FairSpec` | `TypeOK`, `NoEarlierStage`, `FreedStagesUnused`, `HangsOnlyOnLostFlags` |
| `argparse` | 5 options, every list of up to 3 of 18 arguments, every choice of flags | `TypeOK`, `RestsUsedUp`, `OperandsKept`, `ValuesRight` |

**Why these bounds are enough.** A capacity of 4 holds three items, so the queue is
full, empty and wraps around, with both sides in the middle of an operation; one
item more than fits makes a batch stop half way. Three threads put two on one side
and one on the other. In the pipeline, capacity 2 holds one item: with two
items every queue is found full, the generator and the workers drop; the phantom
entry makes the generator drop even its first item. Two stages have a first, an
inner and a last queue, two threads per stage overtake each other. Capacity 4 in
`mt_order` lets two items be in one queue, which is what order is about, and three
stages have an inner one.

In `shm_safety`, two items and two addresses with capacity 2 have each queue
found full or not independently of the others, and addresses reused while a stage
still holds them.

In `rtc_times` the clock reaches 2 before the generator and the sink may end and goes
on as long as a thread works, an item is worked on for one microsecond of two
nanoseconds, and 64 is far above every sum, so that a difference that wraps shows. Odd and
even times occur, which is what rounding is about. `RunTime` also bounds the clock: it
goes on later only for a thread that is waiting.

In `lifecycle` a third stage is refused, the arguments of the first are overwritten by those of
the second or by garbage, between any two reads of a thread, and the caller may also start one
stage only. Two threads per stage are in different places of their reads, and one of them
may be missing. In `argparse` there is an option of every type, with and
without a long name, one that cannot be negated, and arguments of every form: operands
with and without a dash, clusters with a value at the end, inside or in the next argument,
unknown letters, negated names, empty and unwanted values, `-` and `--`. Three arguments
are enough for an option, its value and one more thing that the two may disturb.

`MaxItems` is the only bound on a counter: the generator starts no batch that would
exceed it. The clock may expire at any moment, so the end of a run is not
affected.

**Deadlock** is checked in all other runs. In the queue runs it is not:
no call is possible once the queue is destroyed, and after a null array the
threads really do wait for ever.

**Fairness.** `Queue`: weak fairness of each thread's steps inside the queue, that
is, a thread that can run does run. None is assumed for calls, and a spin lock
may pass any waiter over. `MtPipeline`: weak fairness of each thread and of the
clock. The code justifies it: all threads are ordinary POSIX threads, every wait
of theirs is a poll or a join, and `is_running` is read from memory in every round
(`-O0`). The steps of `Pipeline` contain the atomic queue operations, so that a thread is taken
to get the spin lock eventually, which `SectionsEnd` supports: no critical section waits
for another thread. `ShmPipeline` assumes the same, except that a worker
polling a freed item need never see the mark. `StageLifecycle`: weak fairness of `main` and of
each thread as long as it does what the source says (`Thread`). There is none for overwriting
the frame, for the end of a thread astray or for a crash, and the value of a flag read through
garbage is chosen freely each time: what a dead frame holds is never of help.

## 4. Findings

* `queue_fresh`: a fresh queue has size 1, and its first `dequeue` or `peek_queue`
  returns an array element nobody has written (`queue.h:57`, comment of line 185).
* `queue_odd_capacity`: with a capacity that is not a power of two the mask does
  not wrap; an enqueue overwrites an item and reports success (`queue.h:132`).
* `shm_freed`: the generator frees an item that the second or third queue refuses
  although the first stage already has its address (`mt-pipeline-shm.c:162`).
* `shm_hang`: stages 2 and 3 wait for a mark without looking at `is_running`; when the
  stages are stopped with an item left in the first queue, `main` never returns
  (`mt-pipeline-shm.c:80`). `MarksCome` says that this is the only way, until a queue
  overflows, for a wait not to end.

What else the code does wrong, found while modelling, without a run of its own:

* `enqueue_batch(queue, NULL, n)` returns with the lock taken (`EnqueueNullArray`,
  `queue.h:145`); no program calls it so.
* One item may count as three drops (`PublishItem`, `mt-pipeline-shm.c:160`), and the last
  stage of mt-pipeline-shm does not free the item that the sink's queue refuses
  (`LoseItem`, `mt-pipeline-shm.c:107`): `LastStageCounts` says that these and no others
  are lost.
* `rtc-app.c:174` prints `total_wait_time` as the average sink time; `total_sink_time` is
  computed and never used.
* A thread that reads `thread_args->stage->is_running` late (`mt-pipeline.c.bak:41`) watches
  the flag of the stage started last, and `stop_stage` of an earlier one waits for it before that
  one is stopped: the join never ends (`pipeline.h:160`, 189). With a single stage, as in the
  `.bak`, the same may happen to a thread that finds garbage after `start_stage` has returned.
  These are the threads of `LostItsFlag`, and `HangsOnlyOnLostFlags` says that there is no
  other way for the joins not to end. The `.bak` leaves out two of its three calls of
  `add_pipeline_stage`, so that those stages are never freed either.
* The stages of pipeline-app and rtc-app count what they drop in local variables, whose `printf`
  is commented out (`pipeline-app.c:78`, `rtc-app.c:78`; it is there in `mt-pipeline.c:74`). The
  numbers these programs print therefore fall short of the items generated by what the stages
  have dropped, and by what was drained. `CountsAddUp` is about the threads' own counts, printed
  or not.
* `destroy_queue` does not free the items it drains (`queue.h:79`); `CountsAddUp` says
  that these and no others are still allocated at the end.
* A flag that is given a value, or an unknown letter that the flags tolerate, leaves a
  rest that the next option takes as its value: `--verbose=5 --threads 3` gives `threads`
  the 5 and returns the 3 as an operand (`argparse.c:192`, 75-77). `RestsUsedUp` says which
  arguments alone can do this; `OperandsKept` and `ValuesRight` exempt command lines that have
  one (`Clean`).
* An integer option accepts the empty text as 0 (`argparse.c:98`), and cuts a long off to
  an int (`argparse.c:92`).
* `-n` is not checked against `MAX_THREADS`, and negative durations become huge unsigned ones
  (`pipeline-app.c:215`, 282).

## 5. The proofs

Everything below is proved for every value of the constants that satisfies the named
assumptions. Where TLC checks the same property on a run, section 3 says which.

### Queue (`QueueProofs`)

For any finite or infinite set of threads and items, any batch arguments and every
capacity for which masking is the remainder (`MaskAssumption`, true for powers of two;
TLC evaluates it for the configured ones). The other assumption, `QueueAssumption`, gives
the constants their types.

| Theorem | Statement |
|---|---|
| `Invariance` | `Spec => []IInv` |
| `TypeCorrect` | `Spec => []TypeOK` |
| `Exclusion` | `Spec => []MutualExclusion` |
| `ChecksHold` | `Spec => []ChecksStayTrue` |
| `NoSlotRace` | `Spec => []SlotsNotShared` |
| `WindowHolds` | `Spec => []WindowFilled` |
| `NoOverwrite` | `Spec => NothingOverwritten` |
| `NoSecondOwner` | `Spec => []OneOwner` |
| `NoItemLost` | `Spec => []NothingLost` |
| `QueueImplementsBoundedQueue` | `Spec => ImplementsBoundedQueue` |

None of the invariants is inductive alone. Mutual exclusion needs that a lock is
taken whenever a thread is between lock and unlock. That an enqueuer's test stays
true needs exclusion (no other enqueuer moves `head`) and that dequeuers only make
room. That the two sides never meet in a slot follows from the tests: the slot
`head` is not between `tail` and `head`, and the slot `tail` is. `FreshRoom` handles
`tail = -1`, the only index that is not in the array, whose distance to `head` is
also that of `Capacity - 1`. `WindowFilled` needs `LocalFacts`, what each thread
knows about the slot it has just stored or cleared, and `FreeSlotsClear`, that a
slot outside the window is empty unless the enqueuer has just stored there: this
is also what `NoOverwrite` rests on. The conjunction of these is `IInv`. The proof
that a step preserves it goes action by action, over a lemma on the distance
between two indices modulo the capacity.

*Ownership.* `OneOwner` counts owners, which no step can be shown to preserve; `OwnersApart`
says the same of each pair of owners (two slots of the window, a slot and a thread's
hands, two threads' hands), and every step hands at most one item from one to
another. It needs `CallFacts`: what `args`, `next` and `got` hold at each point of a call,
for instance that the arguments of a batch from `next` on are distinct items. An item
is owned by the window from `EnqueuePublish`, where `head` moves, to `DequeueClear`, and
by the caller otherwise. `NothingLost` holds until `destroy_queue` starts, which frees
entries one by one.

*Refinement.* An operation of `BoundedQueue` takes effect where `head` moves
(`EnqueuePublish`) or `tail` moves (`DequeueAdvance`). Between `DequeueClear` and
`DequeueAdvance` the slot is already empty although the entry is still counted;
`EntryAt` then reads it from the local variable of the one thread that can be there.
The proof shows that the window with this repair changes by `Append` and `Tail` at these
two steps and by nothing else, and that the other steps are local to the caller.

### StageLifecycle (`LifecycleProofs`)

For any number of stages and threads (`LifecycleAssumption`). `LifecycleInvariance` is
`Spec => []IInv`; from it follow `LifecycleTypes` (`TypeOK`), `NoThreadGoesBack`
(`NoEarlierStage`) and `NoUseAfterFree` (`FreedStagesUnused`). `IInv` says at each
point of `main` which stages are added, started, joined and freed (`Started`, `StagesAdded`,
`StagesJoined`), and that `thread_args` holds the stage started last, or garbage when no call of
`start_stage` is active (`ArgsStored`). A thread exists only of a started stage
(`ThreadsStarted`), so a stage it finds is its own or a later one, and one found at its second
read is not before the one of its first. `NoEarlierStage` claims nothing of threads that are
astray, and `FreedStagesUnused` holds of them because `main` joins them too, if need be for
ever.

### Pipeline (`PipelineProofs`, `DeliveryProofs`)

For any number of stages, a finite set of threads per stage, any set of items, and any queue
and batch size (`PipelineAssumption`, which the arrays of the code justify).

| Theorem | Statement |
|---|---|
| `PipelineTypes` | `Spec => [](TypeOK /\ QueuesFit)` |
| `NoStageGivesUp` | `Spec => []StagesRunToTheEnd` |
| `NoQueueFreedInUse` | `Spec => []QueuesOutliveUsers` |
| `NoItemShared` | `Spec => []OneHolder` |
| `SinkReadsAllStamps` | `Spec => []StampsComplete` |
| `CountsBalance` | `Spec => []QueuesBalance` |
| `EveryItemCounted` | `Spec => []CountsAddUp` |
| `NothingOvertakes` | `Spec => []InOrder` |
| `PipelineImplementsDelivery` | `Spec => ImplementsDelivery` |

*Control* (`ControlInv`). Each thread is tied to the point `main` has reached:
`JoinedThreadsEnded` says that what `main` has joined has ended, `StartedStagesRun` that a
stage whose flag is set and that `main` has started does not end. `QueuesOutliveUsers` is then
the last point of `main`, after all joins.

*Items* (`ItemInv`). `OneHolder` counts again; `QueuesDistinct`, `HandsApart` and
`HeapIsHeld` say pairwise that places differ and that every allocated item is somewhere,
and `HandsFull` which threads hold one. `StampsSoFar` is `StampsComplete` for every place an
item may be at.

*Counts.* `QueuesBalance` relates, for every queue and at every instant, what its
producers report as forwarded to what its consumers report, what is in it and who has
just taken something from it. The totals are sums over the threads, so the proof rests
on lemmas about sums that change at one thread, from the folds of the community modules.
`CountsAddUp` speaks of the end, where `DrainedSoFar` leaves the queues empty, and of all
stages: their losses are added up by an induction over the number of stages (`TotalsAddUp`). It
is done by the least number at which the claim would fail. Its second half, that what is
still allocated is what was drained, follows with `HeapCounted`: at every instant the allocated
items are as many as those generated and not counted as freed. `QueuesFit` says that no queue has
more entries than its ring buffer has room for, the phantom one of a fresh queue included.

*Order* (`OrderInv`). With one thread per stage, ids rise in every queue, and what a thread
holds is between the queue behind it and the queue in front. `InOrder` needs this for every
pair of queues at once, an item that moves being compared with all before and behind.

*Delivery.* `placeBar` maps each item to its place. By `ItemInv` it has one only, so that every
step changes the place of one item or none.

### MtPipeline (`MtProofs`)

Every step of `MtPipeline` either is one of `Pipeline` or, in `BusyPoll`, leaves out the stamp.
The invariants above that do not mention stamps are therefore kept by the lemmas proved
for `Pipeline`: `MtNoItemShared`, `MtShutdownInOrder`, `MtCountsAddUp`, `MtNothingOvertakes`,
`MtImplementsDelivery`. The last two say what `mt_order` checks.

### RtcApp (`RtcProofs`)

`RtcApp` splits the work on an item in two: a thread is "busy" between the two readings of the
clock. With `workerBar`, which takes a busy thread for one that processes, every step of
`RtcApp` is one of `Pipeline`, leaves its variables alone, or is the end of the work,
in which no stamp is set. The module takes the lemmas of `DeliveryProofs` under
this mapping (`INSTANCE ... WITH worker <- workerBar`) and needs none of them again.

| Theorem | Statement |
|---|---|
| `RtcNoItemShared` | `RtcSpec => [](P!OneHolder /\ P!QueuesOutliveUsers)` |
| `RtcCountsAddUp` | `RtcSpec => [](P!QueuesBalance /\ P!CountsAddUp)` |
| `RtcNothingOvertakes` | `RtcSpec => []P!InOrder` |
| `RtcImplementsDelivery` | `RtcSpec => P!ImplementsDelivery` |
| `RtcTimesAddUp` | `RtcSpec => [](clock < Modulus => TimesAddUp)` |

*Times.* `StampsInOrder` says for an item as far as it has come that `created_at`, `stage_time`,
`finished_at` and the clock are in order, and that at least `Duration` lies between the middle
two. It is an invariant only because of ownership: an item in one thread's hands is in no
other place where its stamps could be read (`HoldersUnique` of `Pipeline`). The
sums then grow by quotients of differences that do not wrap, and a lemma on the rounding of
three quotients gives the two microseconds per item (`PartsOfWhole`). The hypothesis
`clock < Modulus` says that the program has run for less than 2^64 nanoseconds, 584 years: then
no difference of two times exceeds what 64 bits hold.

### ShmPipeline (`ShmProofs`)

For any number of threads per stage (three stages), any set of addresses, any queue and
batch size.

| Theorem | Statement |
|---|---|
| `ShmTypesHold` | `ShmSpec => []TypeOK` |
| `ShmQueuesOutliveUsers` | `ShmSpec => []UsersGone` |
| `LastStageKeepsItems` | `ShmSpec => []LastStageOwns` |
| `NoItemFreedInUse` | `ShmSpec => []LiveUntilDrop` |
| `ItemsWorkedInOrder` | `ShmSpec => []StagesInOrder` |
| `WaitsForComingMarks` | `ShmSpec => []MarksCome` |
| `LastStageAddsUp` | `ShmSpec => []LastStageCounts` |

*Control* (`ShmInv`). The control of the threads is that of `Pipeline` (`ControlInv`), with a
worker that waits for a mark taken for one that processes (`workerBar`) and a generator that
publishes an item taken for one within its batch (`generatorBar`). The ownership of
`Pipeline` does not carry over: here items are shared on purpose. After an access to a
freed item has ended the process (`Crashed`), `ControlInv` is gone, since threads are cut off
anywhere, but nothing moves any more (`NothingAfterCrash`); the parts of `ShmInv` that the
theorems use hold there too. `StepKinds` sorts the steps once for all by what they do to
the items: nothing (`Quiet`), a step of the generator, a worker or the sink, or the
destruction of a queue.

*The last stage* (`LastApart`). `LastStageOwns` counts places; `LastApart` says the same of
each pair of places from the queue of the last stage on, and that the generator no longer has
what is there. The generator puts an item into that queue last, and sets its pointer to null
when it has freed it, which is why this holds however often queues overflow and
addresses are reused.

*The marks* (`MarksInv`). As long as no queue was found full, a live item is for each stage
exactly one of: marked, in one place of that stage (its queue, or a worker that has not
marked it), or yet to be put into the stage's queue; and the marks are set in order. The
three properties follow: an item in a stage's queue or hands lacks that stage's mark, so
it has not reached the sink, which is the only one to free it; an item being processed has the
mark before; and a mark that is missing is owed by a stage that has the item, because the
generator fills the queues in the order of the stages.

*The counts* (`CountsInv`). The properties' sets of queue positions and of places are replaced
by sets of items, whose cardinality each step changes by one or not at all. That
there are as many entries as items in the queue to the sink is a bijection, from `Distinct` in
`LastApart` (`SinkQueueCounts`).

### Argparse (`ArgparseProofs`)

For any set of options without a name twice, any symbols, and any argument lists
(`ArgparseAssumption`).

| Theorem | Statement |
|---|---|
| `ParseInvariance` | `Spec => []ParseInv` |
| `ArgparseTypes` | `Spec => []TypeOK` |
| `NoRestLeftOver` | `Spec => []RestsUsedUp` |
| `OperandsReturned` | `Spec => []OperandsKept` |
| `OptionsHaveTheirValues` | `Spec => []ValuesRight` |

The last two are about command lines in which no argument leaves a rest: the properties have this
as their hypothesis `Clean`, since with a rest they are false (section 4).

*The reading.* `ReadFrom` and `OperandsFrom` are recursive functions over the positions of
the argument list. That functions with these equations exist is proved, not assumed: if there
were none from some position on, the least distance from the end at which this happens
contradicts itself (`ReadingExists`, `OperandsExist`, by `LeastNatural`). From there on only
their equations are used (`ReadFromSteps`, `OperandsFromSteps`); `ReadingInduction` is the
induction from the end of the list backwards, over sets of positions.

*The parser.* The properties speak of the end, so that the invariant has to say what holds
at each position. `ArrayBehind` is what makes moving the operands within the array harmless:
the number moved is less than the number read, so that what is still to be read is the
original list. `FollowsReading` says that what the reading has from the pointer on, together
with what the parser has already, is what the reading has from the start (`ReadUpTo`): the
positions read (`ComesTo`), the operands (`OperandsUpTo`) and for each option its last giver
(`ValuesUpTo`). Within a cluster the rest is a suffix of the argument that starts no later
than its last letter (`InCluster`), so that the letters before it are flags. Once an
argument has left a rest (`Tainted`) nothing is claimed, and that is kept for ever.
`RestsUsedUp` is the contrapositive: a parser that follows the reading holds no rest.

### Only model-checked

* Liveness (`SectionsEnd`, `Termination`, `HangsOnlyOnLostFlags`): the prover does not reason about
  fairness.
* The claims that the code refutes (section 4): TLC's counterexamples.

Every invariant and every action property of a passing run is proved. Of rtc-app, what it has
in common with `Pipeline` is proved without a run of its own, whose states are those of
`Pipeline` with a clock. `InOrder` and `ImplementsDelivery` are not claimed of mt-pipeline-shm: an
item of it is in several places at once, which `Delivery` does not describe.

## 6. Not modelled

* Input checks that are missing (`-n` above `MAX_THREADS`, negative sizes and durations, a queue
  size below 2): assumptions on the constants instead.
* Priorities and CPU pinning, the format of the output, the build and helper scripts.
* A failing `malloc`, spin lock initialisation or `clock_gettime`: the process ends.
* In the parser: the usage text, float options (parsed as integer ones are), the numeric values.
* The generator and the sink of `mt-pipeline.c.bak`: those of mt-pipeline, except that an item
  the queue refuses is not freed. The file is not built.
* Weaker memory than the program order of `-O0` on x86.

## 7. Plan

The models are complete along the plan: `Queue`, `Pipeline`, `ShmPipeline`, `StageLifecycle`,
`MtPipeline`, `RtcApp`, `Argparse`. So are the proofs of every safety property the runs check.
What may still be worth proving is, of `ShmPipeline`, what holds once a queue has
overflowed, beyond `LastStageOwns` and `LastStageCounts`: how many drops there can be for one
item, and that without a drop at the last stage no item leaks.

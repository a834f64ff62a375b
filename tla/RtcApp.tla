------------------------------- MODULE RtcApp -------------------------------
(***************************************************************************)
(* rtc-app.c: Pipeline with a single stage, whose threads do all the work  *)
(* on an item at once, and with the times that its sink adds up.  The      *)
(* clock counts nanoseconds from the start of the program.                 *)
(***************************************************************************)
EXTENDS Pipeline

CONSTANTS
  Duration,   \* duration_stage: how long a thread works on an item
  Unit,       \* nanoseconds in a microsecond
  Modulus,    \* 2^64: times are unsigned
  RunTime     \* duration_s; bound: later, the clock goes on only for work

ASSUME RtcAssumption ==
  /\ NStages = 1
  /\ Duration \in Nat /\ RunTime \in Nat
  /\ Unit \in Nat \ {0} /\ Modulus \in Nat \ {0}

VARIABLES
  clock,                                 \* what get_current_time returns
  created_at, stage_time, finished_at,   \* fields of each item
  total_latency, total_wait_time, total_sink_time, total_processing_time

times == <<created_at, stage_time, finished_at>>
totals == <<total_latency, total_wait_time, total_sink_time, total_processing_time>>
rtc_vars == <<vars, clock, times, totals>>

RtcInit ==
  /\ Init
  /\ clock = 0
  /\ created_at = [x \in Items |-> 0]
  /\ stage_time = [x \in Items |-> 0]
  /\ finished_at = [x \in Items |-> 0]
  /\ total_latency = 0 /\ total_wait_time = 0
  /\ total_sink_time = 0 /\ total_processing_time = 0

\* Mutant: busy_poll_ns does not wait.
WorkSkipped(w) == TRUE

\* busy_poll_ns has seen its time pass.
WorkDone(w) == clock - stage_time[item[w]] >= Duration

\* Time passes.
Tick ==
  /\ ~Ended
  /\ clock < RunTime \/ \E w \in Workers : worker[w] = "busy" /\ ~WorkDone(w)
  /\ clock' = clock + 1
  /\ UNCHANGED <<vars, times, totals>>

-----------------------------------------------------------------------------
\* The new item, whether enqueued or dropped, carries its time of birth.
RtcGenerateItem ==
  /\ GenerateItem
  /\ created_at' = [created_at EXCEPT ![tx] = clock]
  /\ UNCHANGED <<clock, stage_time, finished_at, totals>>

RtcGenerator ==
  \/ RtcGenerateItem
  \/ ((GeneratorBatch \/ GeneratorBatchEnd \/ GeneratorExit)
        /\ UNCHANGED <<clock, times, totals>>)

\* Mutant: the stamp goes to the wrong place.
StampNothing(w) == UNCHANGED stage_time

StampStart(w) == stage_time' = [stage_time EXCEPT ![item[w]] = clock]

StartWork(w) ==
  /\ WorkerAt(w, "process")
  /\ StampStart(w)
  /\ WorkerGoto(w, "busy")
  /\ UNCHANGED <<queue, destroyed, items, counts, is_running, main, generator, sinker>>
  /\ UNCHANGED <<i, item, sink_item, expired, clock, created_at, finished_at, totals>>

FinishWork(w) ==
  /\ WorkerAt(w, "busy")
  /\ WorkDone(w)
  /\ finished_at' = [finished_at EXCEPT ![item[w]] = clock]
  /\ WorkerGoto(w, "forward")
  /\ UNCHANGED <<queue, destroyed, items, counts, is_running, main, generator, sinker>>
  /\ UNCHANGED <<i, item, sink_item, expired, clock, created_at, stage_time, totals>>

\* poll_jobs.
RtcWorker(w) ==
  \/ ((WorkerCheck(w) \/ WorkerPoll(w) \/ WorkerForward(w) \/ WorkerDrop(w))
        /\ UNCHANGED <<clock, times, totals>>)
  \/ StartWork(w) \/ FinishWork(w)

\* The microseconds from time t to time u.
Elapsed(t, u) == ((u - t) % Modulus) \div Unit

\* The sink adds up four times of the item.
RtcSinkConsume ==
  /\ SinkConsume
  /\ total_latency' = total_latency + Elapsed(created_at[sink_item], clock)
  /\ total_wait_time' =
       total_wait_time + Elapsed(created_at[sink_item], stage_time[sink_item])
  /\ total_sink_time' = total_sink_time + Elapsed(finished_at[sink_item], clock)
  /\ total_processing_time' =
       total_processing_time + Elapsed(stage_time[sink_item], finished_at[sink_item])
  /\ UNCHANGED <<clock, times>>

RtcSink ==
  \/ RtcSinkConsume
  \/ ((SinkCheck \/ SinkPoll) /\ UNCHANGED <<clock, times, totals>>)

RtcMain == Main /\ UNCHANGED <<clock, times, totals>>

\* No thread starts before time 0, so none ends before RunTime.
RtcExpire(thread) ==
  /\ clock >= RunTime
  /\ Expire(thread)
  /\ UNCHANGED <<clock, times, totals>>

RtcNext ==
  \/ RtcMain \/ (CreateFails /\ UNCHANGED <<clock, times, totals>>)
  \/ RtcGenerator \/ RtcSink \/ Tick
  \/ \E w \in Workers : RtcWorker(w)
  \/ \E thread \in {"generator", "sink"} : RtcExpire(thread)
  \/ (Terminated /\ UNCHANGED <<clock, times, totals>>)

RtcSpec == RtcInit /\ [][RtcNext]_rtc_vars
=============================================================================

------------------------------ MODULE RtcProps ------------------------------
(***************************************************************************)
(* What makes the report of rtc-app.c right, whatever the interleaving.    *)
(***************************************************************************)
EXTENDS RtcApp

\* The sum of latencies that the sink builds is the sum of the wait,
\* processing and sink times, up to the two microseconds per item that the
\* divisions round off, and the processing time is at least the time the
\* threads were told to work: no difference of two threads' times ever wraps
\* around below zero (rtc-app.c:60-62, 113, 157-162).
TimesAddUp ==
  /\ total_latency - (total_wait_time + total_processing_time + total_sink_time)
       \in 0 .. 2 * processed
  /\ total_processing_time >= processed * (Duration \div Unit)

-----------------------------------------------------------------------------
(* The rest of the invariant that the proofs need.                          *)

WorkerLabels == {"none", "check", "poll", "process", "busy", "forward", "exited"}

RtcTypes ==
  /\ worker \in [Workers -> WorkerLabels]
  /\ clock \in Nat
  /\ created_at \in [Items -> Nat]
  /\ stage_time \in [Items -> Nat]
  /\ finished_at \in [Items -> Nat]
  /\ total_latency \in Nat /\ total_wait_time \in Nat
  /\ total_sink_time \in Nat /\ total_processing_time \in Nat

\* A thread works on item x; one has finished the work.
Working(x) == \E w \in Workers : worker[w] = "busy" /\ item[w] = x
Worked(x) ==
  \/ \E w \in Workers : worker[w] = "forward" /\ item[w] = x
  \/ \E p \in DOMAIN queue[NStages] : queue[NStages][p] = x
  \/ sink_item = x

\* The times of an item are in order, as far as it has come.
StampsInOrder ==
  \A x \in Items :
    /\ created_at[x] <= clock
    /\ Working(x) => created_at[x] <= stage_time[x] /\ stage_time[x] <= clock
    /\ Worked(x) =>
         /\ created_at[x] <= stage_time[x]
         /\ stage_time[x] + Duration <= finished_at[x]
         /\ finished_at[x] <= clock
=============================================================================

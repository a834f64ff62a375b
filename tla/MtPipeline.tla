----------------------------- MODULE MtPipeline -----------------------------
(***************************************************************************)
(* mt-pipeline.c: Pipeline with three stages of one thread, whose items    *)
(* carry no stamps.  A worker only spends time on its item.                *)
(***************************************************************************)
EXTENDS Pipeline

ASSUME MtAssumption == NStages = 3 /\ Cardinality(Threads) = 1

\* busy_poll_ns.
BusyPoll(w) ==
  /\ WorkerAt(w, "process")
  /\ WorkerGoto(w, "forward")
  /\ UNCHANGED <<queue, destroyed, items, counts, is_running, main, generator, sinker>>
  /\ UNCHANGED <<i, item, sink_item, expired>>

\* poll_jobs.
MtWorker(w) ==
  WorkerCheck(w) \/ WorkerPoll(w) \/ BusyPoll(w) \/ WorkerForward(w) \/ WorkerDrop(w)

MtGenerator == Generator
MtSink == Sink
MtMain == Main

MtNext ==
  \/ MtMain \/ CreateFails
  \/ MtGenerator \/ MtSink
  \/ \E w \in Workers : MtWorker(w)
  \/ \E thread \in {"generator", "sink"} : Expire(thread)
  \/ Terminated

MtSpec == Init /\ [][MtNext]_vars

\* Every thread keeps being scheduled, and time passes.
MtFairSpec ==
  /\ MtSpec
  /\ WF_vars(MtMain) /\ WF_vars(MtGenerator) /\ WF_vars(MtSink)
  /\ \A w \in Workers : WF_vars(MtWorker(w))
  /\ \A thread \in {"generator", "sink"} : WF_vars(Expire(thread))
=============================================================================

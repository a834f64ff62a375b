--------------------------- MODULE StageLifecycle ---------------------------
(***************************************************************************)
(* The stages and the pipeline of pipeline.h: create, add, start, stop and *)
(* destroy, in the order in which mt-pipeline.c.bak calls them, with the   *)
(* stage threads of that program as their handler.                         *)
(*                                                                         *)
(* start_stage gives every thread the address of its local thread_args.    *)
(* All calls of start_stage have that variable at one place of main's      *)
(* stack.  A thread that looks there sees what the last call has stored,   *)
(* or, once that call has returned, anything that other calls of main have *)
(* left in its place.                                                      *)
(***************************************************************************)
EXTENDS Integers, Sequences

CONSTANTS
  MaxStages,    \* MAX_STAGES
  NumStages,    \* the stages that the caller creates, 1 .. NumStages
  NumThreads,   \* num_threads of each
  NULL,
  GARBAGE       \* what a dead stack frame holds: any pointer, usable or not

ASSUME LifecycleAssumption ==
  /\ MaxStages \in Nat /\ NumStages \in Nat /\ NumThreads \in Nat \ {0}
  /\ NULL \notin 1 .. NumStages /\ GARBAGE \notin 1 .. NumStages /\ NULL # GARBAGE

Created == 1 .. NumStages
Threads == Created \X (1 .. NumThreads)

VARIABLES
  stages,       \* pipeline->stages
  is_running,   \* the flag of each stage
  thread_args,  \* what is in the place of start_stage's local variable
  thread,       \* what each thread does next
  input_queue,  \* the stage whose input queue each thread has taken
  output_queue, \* the stage whose output queue each thread has taken
  stage,        \* the stage whose flag each thread is about to read
  freed,        \* the stages that destroy_stage has freed
  main          \* what main does next, and with which stage

queues == <<input_queue, output_queue>>
threads == <<thread, queues, stage>>
vars == <<stages, is_running, thread_args, threads, freed, main>>

MainAt(phase, n) == main = <<phase, n>>
MainGoto(phase, n) == main' = <<phase, n>>
Ended == main \in {<<"return", 0>>, <<"crash", 0>>}

\* create_pipeline.
Init ==
  /\ stages = <<>>
  /\ is_running = [s \in Created |-> FALSE]
  /\ thread_args = NULL
  /\ thread = [t \in Threads |-> "none"]
  /\ input_queue = [t \in Threads |-> NULL]
  /\ output_queue = [t \in Threads |-> NULL]
  /\ stage = [t \in Threads |-> NULL]
  /\ freed = {}
  /\ main = <<"add", 1>>

\* Mutant: the last element is one past the end of the array.
HasRoomForOneMore == Len(stages) <= MaxStages

HasRoom == Len(stages) < MaxStages

\* create_stage and add_pipeline_stage, which refuses one too many.
AddStage(s) ==
  /\ MainAt("add", s)
  /\ stages' = IF HasRoom THEN Append(stages, s) ELSE stages
  /\ MainGoto("add", s + 1)
  /\ UNCHANGED <<is_running, thread_args, threads, freed>>

\* The loops of start_pipeline, stop_pipeline and destroy_pipeline come to
\* their n-th stage, or to their end.
NextStage(phase, n, after) ==
  IF n < Len(stages) THEN MainGoto(phase, n + 1) ELSE MainGoto(after, 0)

\* The caller starts with one stage or more.
StartPipeline(s) ==
  /\ MainAt("add", s)
  /\ stages # <<>>
  /\ MainGoto("start", 1)
  /\ UNCHANGED <<stages, is_running, thread_args, threads, freed>>

-----------------------------------------------------------------------------
(* start_stage.                                                             *)

\* Mutant: the threads of all stages get the first one's arguments.
StoreFirst(s) == thread_args' = stages[1]

StoreArgs(s) == thread_args' = s

StartStage(n) ==
  /\ MainAt("start", n)
  /\ is_running' = [is_running EXCEPT ![stages[n]] = TRUE]
  /\ StoreArgs(stages[n])
  /\ MainGoto("create", n)
  /\ UNCHANGED <<stages, threads, freed>>

CreateThread(n, t) ==
  /\ MainAt("create", n)
  /\ t[1] = stages[n] /\ thread[t] = "none"
  /\ \A k \in 1 .. t[2] - 1 : thread[<<t[1], k>>] # "none"
  /\ thread' = [thread EXCEPT ![t] = "created"]
  /\ UNCHANGED <<stages, is_running, thread_args, queues, stage, freed, main>>

StageStarted(n) ==
  /\ MainAt("create", n)
  /\ \A k \in 1 .. NumThreads : thread[<<stages[n], k>>] # "none"
  /\ NextStage("start", n, "wait")
  /\ UNCHANGED <<stages, is_running, thread_args, threads, freed>>

\* pthread_create fails: the stage keeps the threads it has, and the pipeline
\* goes on with the next stage.
CreateFails(n) ==
  /\ MainAt("create", n)
  /\ \E k \in 1 .. NumThreads : thread[<<stages[n], k>>] = "none"
  /\ is_running' = [is_running EXCEPT ![stages[n]] = FALSE]
  /\ NextStage("start", n, "wait")
  /\ UNCHANGED <<stages, thread_args, threads, freed>>

-----------------------------------------------------------------------------
(* stop_stage, for every stage of the pipeline.                             *)

\* The caller has joined its generator and its sink.
StopPipeline ==
  /\ MainAt("wait", 0)
  /\ MainGoto("stop", 1)
  /\ UNCHANGED <<stages, is_running, thread_args, threads, freed>>

\* Mutant: the flag is left alone.
KeepFlag(s) == UNCHANGED is_running

ClearFlag(s) == is_running' = [is_running EXCEPT ![s] = FALSE]

StopStage(n) ==
  /\ MainAt("stop", n)
  /\ ClearFlag(stages[n])
  /\ MainGoto("join", n)
  /\ UNCHANGED <<stages, thread_args, threads, freed>>

\* Mutant: the joins stop at the first thread.
FirstExited(s) == thread[<<s, 1>>] \in {"none", "exited"}

\* A handle that was never stored may be one that no thread has.
AllExited(s) == \A k \in 1 .. NumThreads : thread[<<s, k>>] \in {"none", "exited"}

JoinStage(n) ==
  /\ MainAt("join", n)
  /\ AllExited(stages[n])
  /\ IF n < Len(stages) THEN MainGoto("stop", n + 1) ELSE MainGoto("destroy", 1)
  /\ UNCHANGED <<stages, is_running, thread_args, threads, freed>>

\* Or anything else: pthread_join follows it.
JoinCrashes(n) ==
  /\ MainAt("join", n)
  /\ \E k \in 1 .. NumThreads : thread[<<stages[n], k>>] = "none"
  /\ MainGoto("crash", 0)
  /\ UNCHANGED <<stages, is_running, thread_args, threads, freed>>

\* destroy_stage, for every stage of the pipeline.
DestroyStage(n) ==
  /\ MainAt("destroy", n)
  /\ freed' = freed \cup {stages[n]}
  /\ NextStage("destroy", n, "return")
  /\ UNCHANGED <<stages, is_running, thread_args, threads>>

Main ==
  \/ \E s \in 1 .. NumStages + 1 : StartPipeline(s) \/ (s \in Created /\ AddStage(s))
  \/ \E n \in 1 .. Len(stages) :
       \/ StartStage(n) \/ StageStarted(n) \/ CreateFails(n)
       \/ \E t \in Threads : CreateThread(n, t)
       \/ StopStage(n) \/ JoinStage(n) \/ JoinCrashes(n) \/ DestroyStage(n)
  \/ StopPipeline

-----------------------------------------------------------------------------
(* The place of thread_args once start_stage has returned.                  *)

\* The other calls of main - printf, the next pthread_attr_init, stop_stage,
\* pthread_join, destroy_stage - have their frames where start_stage had its.
OverwriteFrame ==
  /\ main[1] \in {"start", "wait", "stop", "join", "destroy"}
  /\ thread_args \in Created
  /\ thread_args' = GARBAGE
  /\ UNCHANGED <<stages, is_running, threads, freed, main>>

-----------------------------------------------------------------------------
(* A thread: poll_jobs of mt-pipeline.c.bak.  It follows thread_args for    *)
(* each of its queues, for its duration, and for the flag of the loop.      *)

Runs(t, from, to) ==
  /\ ~Ended
  /\ thread[t] = from
  /\ thread' = [thread EXCEPT ![t] = to]

\* With a queue that is none, or not the program's, a thread may do anything.
GoesAstray(t, from) ==
  /\ Runs(t, from, "astray")
  /\ input_queue' = [input_queue EXCEPT ![t] = NULL]

TakeInputQueue(t) ==
  /\ IF thread_args = GARBAGE
     THEN GoesAstray(t, "created")
     ELSE /\ Runs(t, "created", "input")
          /\ input_queue' = [input_queue EXCEPT ![t] = thread_args]
  /\ UNCHANGED <<stages, is_running, thread_args, output_queue, stage, freed, main>>

TakeOutputQueue(t) ==
  /\ IF thread_args = GARBAGE
     THEN GoesAstray(t, "input") /\ UNCHANGED output_queue
     ELSE /\ Runs(t, "input", "output")
          /\ output_queue' = [output_queue EXCEPT ![t] = thread_args]
          /\ UNCHANGED input_queue
  /\ UNCHANGED <<stages, is_running, thread_args, stage, freed, main>>

\* A wrong duration is still a duration.
TakeDuration(t) ==
  /\ Runs(t, "output", "loop")
  /\ UNCHANGED <<stages, is_running, thread_args, queues, stage, freed, main>>

\* The loop reads thread_args->stage, and then the flag of what it has read.
LoadStage(t) ==
  /\ Runs(t, "loop", "test")
  /\ stage' = [stage EXCEPT ![t] = thread_args]
  /\ UNCHANGED <<stages, is_running, thread_args, queues, freed, main>>

\* Where there is no stage, what it reads may look like either value.
FlagRead(t) == IF stage[t] = GARBAGE THEN BOOLEAN ELSE {is_running[stage[t]]}

Poll(t) ==
  /\ Runs(t, "test", "loop")
  /\ TRUE \in FlagRead(t)
  /\ stage' = [stage EXCEPT ![t] = NULL]
  /\ UNCHANGED <<stages, is_running, thread_args, queues, freed, main>>

Exit(t) ==
  /\ Runs(t, "test", "exited")
  /\ FALSE \in FlagRead(t)
  /\ stage' = [stage EXCEPT ![t] = NULL]
  /\ input_queue' = [input_queue EXCEPT ![t] = NULL]
  /\ output_queue' = [output_queue EXCEPT ![t] = NULL]
  /\ UNCHANGED <<stages, is_running, thread_args, freed, main>>

Thread(t) ==
  \/ TakeInputQueue(t) \/ TakeOutputQueue(t) \/ TakeDuration(t)
  \/ LoadStage(t) \/ Poll(t) \/ Exit(t)

\* A thread astray may come to the end of its loop, or work on for ever.
ExitAstray(t) ==
  /\ Runs(t, "astray", "exited")
  /\ UNCHANGED <<stages, is_running, thread_args, queues, stage, freed, main>>

\* A pointer that is none takes the process with it.
FollowsGarbage(t) ==
  \/ thread[t] = "astray"
  \/ thread[t] \in {"created", "input", "output"} /\ thread_args = GARBAGE
  \/ thread[t] = "test" /\ stage[t] = GARBAGE

ThreadCrashes(t) ==
  /\ ~Ended
  /\ FollowsGarbage(t)
  /\ MainGoto("crash", 0)
  /\ UNCHANGED <<stages, is_running, thread_args, threads, freed>>

Next ==
  \/ Main
  \/ OverwriteFrame
  \/ \E t \in Threads : Thread(t) \/ ExitAstray(t) \/ ThreadCrashes(t)
  \/ (Ended /\ UNCHANGED vars)

Spec == Init /\ [][Next]_vars

\* Every thread, main's included, keeps being scheduled.  What a thread finds
\* in a dead frame, or does with it, need never be of help.
FairSpec == Spec /\ WF_vars(Main) /\ \A t \in Threads : WF_vars(Thread(t))
=============================================================================

--------------------------- MODULE LifecycleProps ---------------------------
(***************************************************************************)
(* What holds of the lifecycle of the stages although all threads share    *)
(* one thread_args, which may be gone when they look at it.                *)
(***************************************************************************)
EXTENDS StageLifecycle

MainPhases == {"add", "start", "create", "wait", "stop", "join", "destroy", "return", "crash"}

ThreadPhases == {"none", "created", "input", "output", "loop", "test", "astray", "exited"}

\* Every variable has its type; the array of stages does not overflow.
TypeOK ==
  /\ stages \in Seq(Created) /\ Len(stages) <= MaxStages
  /\ is_running \in [Created -> BOOLEAN]
  /\ thread_args \in Created \cup {NULL, GARBAGE}
  /\ thread \in [Threads -> ThreadPhases]
  /\ input_queue \in [Threads -> Created \cup {NULL}]
  /\ output_queue \in [Threads -> Created \cup {NULL}]
  /\ stage \in [Threads -> Created \cup {NULL, GARBAGE}]
  /\ freed \in SUBSET Created
  /\ main \in MainPhases \X (0 .. NumStages + 1)

\* A stage in thread_args is the last one that was started, so the queues a
\* thread takes from it are those of its own stage or of later ones, and its
\* output queue is never of an earlier stage than its input queue: it cannot
\* send items back (mt-pipeline.c.bak:34-35, pipeline.h:158-174).  This says
\* nothing of a thread that has looked at the place after the frame was gone,
\* and works, astray, with whatever it found.
NoEarlierStage ==
  \A t \in Threads :
    /\ thread[t] \in {"input", "output", "loop", "test"} =>
         input_queue[t] \in Created /\ t[1] <= input_queue[t]
    /\ thread[t] \in {"output", "loop", "test"} =>
         output_queue[t] \in Created /\ input_queue[t] <= output_queue[t]

\* No thread can look at a stage that has been freed, also when creating
\* some of the threads failed, and whatever the threads have read: main frees
\* the first stage when every thread that was created has ended, if need be
\* never (pipeline.h:171-179, 186-193, 231-239).
FreedStagesUnused ==
  freed # {} => \A t \in Threads : thread[t] \in {"none", "exited"}

-----------------------------------------------------------------------------
(* The rest of the invariant that the proofs need.                          *)

\* The array of stages, while the caller adds them and from then on.
StagesAdded ==
  /\ \A k \in DOMAIN stages : stages[k] = k
  /\ main[1] = "add" =>
       Len(stages) = IF main[2] <= MaxStages THEN main[2] - 1 ELSE MaxStages
  /\ main[1] \notin {"add", "crash"} => stages # <<>>
  /\ main[1] \in {"start", "create", "stop", "join", "destroy"} => main[2] \in DOMAIN stages
  /\ main[1] \in {"wait", "return", "crash"} => main[2] = 0

\* How many stages start_stage has been called for; a crash forgets it.
Started ==
  IF main[1] = "add" THEN 0
  ELSE IF main[1] = "start" THEN main[2] - 1
  ELSE IF main[1] = "create" THEN main[2]
  ELSE Len(stages)

\* What thread_args has: the last stage that was started or, when no call of
\* start_stage is active, garbage.
ArgsStored ==
  main[1] # "crash" =>
    /\ Started = 0 => thread_args = NULL
    /\ Started # 0 => thread_args \in {Started, GARBAGE}
    /\ main[1] = "create" => thread_args = Started

\* A thread exists only of a stage that has been started, and has taken the
\* queues of such stages only.
ThreadsStarted ==
  main[1] # "crash" =>
    \A t \in Threads :
      /\ thread[t] # "none" => t[1] <= Started
      /\ thread[t] = "input" => input_queue[t] <= Started

\* The flag that a thread is about to read is that of a stage, or garbage.
FlagsFound ==
  \A t \in Threads : thread[t] = "test" => stage[t] # NULL

\* The stages whose threads main has joined: those before the one it is at,
\* and in the end all of them.
StagesJoined ==
  /\ main[1] \in {"stop", "join"} =>
       \A t \in Threads : t[1] < main[2] => thread[t] \in {"none", "exited"}
  /\ main[1] \in {"destroy", "return"} =>
       \A t \in Threads : thread[t] \in {"none", "exited"}
  /\ freed # {} => main[1] \in {"destroy", "return"}

IInv ==
  /\ TypeOK
  /\ StagesAdded
  /\ ArgsStored
  /\ ThreadsStarted
  /\ FlagsFound
  /\ StagesJoined
  /\ NoEarlierStage

-----------------------------------------------------------------------------
\* A thread of the n-th stage that does not see the flag of its own stage: it
\* works with garbage, or the last call of start_stage was for another stage,
\* or something has overwritten what it stored.
LostItsFlag(t, n) ==
  /\ t[1] = stages[n] /\ thread[t] \notin {"none", "exited"}
  /\ thread[t] = "astray" \/ thread_args # stages[n]

\* stop_pipeline may wait for ever, for one reason only: the stage it waits
\* for has a thread that does not see its flag.  A thread that does see it
\* ends, whatever it was doing when main cleared the flag and whatever the
\* other threads do (pipeline.h:186-193, mt-pipeline.c.bak:41).
HangsOnlyOnLostFlags ==
  <>[](\/ Ended
       \/ \E n \in DOMAIN stages, t \in Threads : MainAt("join", n) /\ LostItsFlag(t, n))
=============================================================================

--------------------------- MODULE LifecycleProofs ---------------------------
(***************************************************************************)
(* The invariants of LifecycleProps hold in every behaviour of             *)
(* StageLifecycle, for any number of stages and threads.                   *)
(***************************************************************************)
EXTENDS LifecycleProps, SequenceTheorems, TLAPS

-----------------------------------------------------------------------------
\* The stages and their number, from the invariant.
LEMMA StagesBounded ==
  ASSUME TypeOK, StagesAdded
  PROVE  /\ Len(stages) \in 0 .. NumStages
         /\ Len(stages) <= MaxStages
         /\ DOMAIN stages = 1 .. Len(stages)
         /\ \A n \in 1 .. Len(stages) : n \in Created /\ stages[n] = n
<1>1. /\ Len(stages) \in Nat /\ Len(stages) <= MaxStages
      /\ DOMAIN stages = 1 .. Len(stages)
      /\ \A n \in 1 .. Len(stages) : stages[n] \in Created
  BY LenProperties, ElementOfSeq DEF TypeOK
<1>2. \A n \in 1 .. Len(stages) : n \in Created /\ stages[n] = n
  BY <1>1 DEF StagesAdded
<1>3. Len(stages) <= NumStages
  <2>1. CASE Len(stages) = 0
    BY <2>1, LifecycleAssumption
  <2>2. CASE Len(stages) # 0
    BY <1>1, <1>2, <2>2 DEF Created
  <2>. QED
    BY <2>1, <2>2
<1>. QED
  BY <1>1, <1>2, <1>3, LifecycleAssumption

\* How many stages have been started, wherever main is.
LEMMA StartedBounded ==
  ASSUME TypeOK, StagesAdded
  PROVE  Started \in Nat /\ Started <= NumStages
<1>1. Len(stages) \in 0 .. NumStages
  BY StagesBounded
<1>2. main[1] \in {"start", "create"} => main[2] \in 1 .. Len(stages)
  BY StagesBounded DEF StagesAdded
<1>. QED
  BY <1>1, <1>2, LifecycleAssumption DEF Started

\* What main does without touching a thread leaves what is known of the
\* threads as it was, the more so when it has started another stage.
LEMMA ThreadsKept ==
  ASSUME IInv, UNCHANGED threads, main[1] # "crash",
         Started \in Nat, Started' \in Nat, Started <= Started'
  PROVE  ThreadsStarted' /\ FlagsFound' /\ NoEarlierStage'
<1>1. UNCHANGED <<thread, input_queue, output_queue, stage>>
  BY DEF threads, queues
<1>2. FlagsFound' /\ NoEarlierStage'
  BY <1>1 DEF IInv, FlagsFound, NoEarlierStage
<1>3. ASSUME NEW t \in Threads
      PROVE  /\ thread'[t] # "none" => t[1] <= Started'
             /\ thread'[t] = "input" => input_queue'[t] <= Started'
  <2>1. t[1] \in Nat
    BY DEF Threads, Created
  <2>2. thread[t] = "input" => input_queue[t] \in Nat
    BY DEF IInv, NoEarlierStage, Created
  <2>3. /\ thread[t] # "none" => t[1] <= Started
        /\ thread[t] = "input" => input_queue[t] <= Started
    BY DEF IInv, ThreadsStarted
  <2>. QED
    BY <1>1, <2>1, <2>2, <2>3
<1>4. ThreadsStarted'
  BY <1>3 DEF ThreadsStarted
<1>. QED
  BY <1>2, <1>4

LEMMA InvInit == Init => IInv
<1>. SUFFICES ASSUME Init PROVE IInv
  OBVIOUS
<1>1. stages \in Seq(Created) /\ Len(stages) = 0 /\ DOMAIN stages = {}
  BY EmptySeq DEF Init
<1>2. TypeOK
  BY <1>1, LifecycleAssumption DEF Init, TypeOK, MainPhases, ThreadPhases
<1>3. StagesAdded /\ ArgsStored
  BY <1>1, LifecycleAssumption DEF Init, StagesAdded, ArgsStored, Started
<1>4. ThreadsStarted /\ FlagsFound /\ StagesJoined /\ NoEarlierStage
  BY DEF Init, ThreadsStarted, FlagsFound, StagesJoined, NoEarlierStage
<1>. QED
  BY <1>2, <1>3, <1>4 DEF IInv

\* create_stage and add_pipeline_stage.
LEMMA InvAdd ==
  ASSUME IInv, NEW s \in Created, AddStage(s)
  PROVE  IInv'
<1>0. /\ stages \in Seq(Created) /\ Len(stages) \in Nat /\ DOMAIN stages = 1 .. Len(stages)
      /\ main = <<"add", s>> /\ s \in 1 .. NumStages
      /\ main' = <<"add", s + 1>>
      /\ Len(stages) = IF s <= MaxStages THEN s - 1 ELSE MaxStages
      /\ \A k \in 1 .. Len(stages) : stages[k] = k
  BY StagesBounded DEF IInv, TypeOK, AddStage, MainAt, MainGoto, StagesAdded, Created
<1>1. /\ stages' \in Seq(Created) /\ Len(stages') \in Nat /\ DOMAIN stages' = 1 .. Len(stages')
      /\ Len(stages') = IF s + 1 <= MaxStages THEN s ELSE MaxStages
      /\ \A k \in 1 .. Len(stages') : stages'[k] = k
  <2>1. CASE HasRoom
    <3>1. stages' = Append(stages, s) /\ Len(stages) = s - 1
      BY <1>0, <2>1, LifecycleAssumption DEF AddStage, HasRoom
    <3>. QED
      BY <1>0, <2>1, <3>1, AppendProperties, LenProperties, LifecycleAssumption DEF HasRoom
  <2>2. CASE ~HasRoom
    <3>1. stages' = stages /\ Len(stages) = MaxStages
      BY <1>0, <2>2, LifecycleAssumption DEF AddStage, HasRoom
    <3>. QED
      BY <1>0, <2>2, <3>1, LifecycleAssumption DEF HasRoom
  <2>. QED
    BY <2>1, <2>2
<1>2. UNCHANGED <<is_running, thread_args, threads, freed>>
  BY DEF AddStage
<1>3. Started = 0 /\ Started' = 0
  BY <1>0 DEF Started
<1>4. TypeOK'
  BY <1>0, <1>1, <1>2, LifecycleAssumption DEF IInv, TypeOK, MainPhases, threads, queues
<1>5. StagesAdded' /\ ArgsStored' /\ StagesJoined'
  BY <1>0, <1>1, <1>2, <1>3, LifecycleAssumption DEF IInv, StagesAdded, ArgsStored, StagesJoined
<1>6. ThreadsStarted' /\ FlagsFound' /\ NoEarlierStage'
  BY <1>0, <1>2, <1>3, ThreadsKept
<1>. QED
  BY <1>4, <1>5, <1>6 DEF IInv

\* start_pipeline comes to its first stage.
LEMMA InvStartPipeline ==
  ASSUME IInv, NEW s \in 1 .. NumStages + 1, StartPipeline(s)
  PROVE  IInv'
<1>0. /\ main = <<"add", s>> /\ main' = <<"start", 1>> /\ stages # <<>>
      /\ 1 \in 1 .. Len(stages) /\ DOMAIN stages = 1 .. Len(stages)
      /\ UNCHANGED <<stages, is_running, thread_args, threads, freed>>
  BY StagesBounded, EmptySeq DEF IInv, TypeOK, StartPipeline, MainAt, MainGoto
<1>1. Started = 0 /\ Started' = 0
  BY <1>0 DEF Started
<1>2. TypeOK'
  BY <1>0, LifecycleAssumption DEF IInv, TypeOK, MainPhases, threads, queues
<1>3. StagesAdded' /\ ArgsStored' /\ StagesJoined'
  BY <1>0, <1>1 DEF IInv, StagesAdded, ArgsStored, StagesJoined
<1>4. ThreadsStarted' /\ FlagsFound' /\ NoEarlierStage'
  BY <1>0, <1>1, ThreadsKept
<1>. QED
  BY <1>2, <1>3, <1>4 DEF IInv

\* The flag and the arguments of the next stage; no thread of it exists yet.
LEMMA InvStartStage ==
  ASSUME IInv, NEW n \in 1 .. Len(stages), StartStage(n)
  PROVE  IInv'
<1>0. /\ main = <<"start", n>> /\ main' = <<"create", n>>
      /\ n \in Created /\ stages[n] = n /\ DOMAIN stages = 1 .. Len(stages)
      /\ thread_args' = n
      /\ is_running' = [is_running EXCEPT ![n] = TRUE]
      /\ UNCHANGED <<stages, threads, freed>>
  BY StagesBounded DEF IInv, StartStage, StoreArgs, MainAt, MainGoto
<1>1. Started = n - 1 /\ Started' = n /\ n \in Nat /\ n # 0
  BY <1>0 DEF Started, Created
<1>2. TypeOK'
  BY <1>0, LifecycleAssumption DEF IInv, TypeOK, MainPhases, Created, threads, queues
<1>3. StagesAdded' /\ ArgsStored' /\ StagesJoined'
  BY <1>0, <1>1 DEF IInv, StagesAdded, ArgsStored, StagesJoined
<1>4. ThreadsStarted' /\ FlagsFound' /\ NoEarlierStage'
  BY <1>0, <1>1, ThreadsKept
<1>. QED
  BY <1>2, <1>3, <1>4 DEF IInv

\* The new thread has read nothing yet.
LEMMA InvCreateThread ==
  ASSUME IInv, NEW n \in 1 .. Len(stages), NEW t \in Threads, CreateThread(n, t)
  PROVE  IInv'
<1>0. /\ main = <<"create", n>> /\ main' = main
      /\ t[1] = n /\ n \in Created
      /\ thread' = [thread EXCEPT ![t] = "created"]
      /\ UNCHANGED <<stages, is_running, thread_args, input_queue, output_queue, stage, freed>>
  BY StagesBounded DEF IInv, CreateThread, MainAt, queues
<1>1. Started = n /\ Started' = Started /\ n \in Nat
  BY <1>0 DEF Started, Created
<1>2. TypeOK'
  BY <1>0 DEF IInv, TypeOK, ThreadPhases
<1>3. StagesAdded' /\ ArgsStored' /\ StagesJoined'
  BY <1>0, <1>1 DEF IInv, TypeOK, StagesAdded, ArgsStored, StagesJoined
<1>4. ThreadsStarted'
  BY <1>0, <1>1 DEF IInv, TypeOK, ThreadsStarted
<1>5. FlagsFound' /\ NoEarlierStage'
  BY <1>0 DEF IInv, TypeOK, FlagsFound, NoEarlierStage
<1>. QED
  BY <1>2, <1>3, <1>4, <1>5 DEF IInv

\* start_stage returns, with all threads or with those that could be created.
LEMMA InvStageStarted ==
  ASSUME IInv, NEW n \in 1 .. Len(stages), StageStarted(n) \/ CreateFails(n)
  PROVE  IInv'
<1>1. /\ Len(stages) \in 0 .. NumStages /\ DOMAIN stages = 1 .. Len(stages)
      /\ n \in Created /\ stages[n] = n
  BY StagesBounded DEF IInv
<1>2. /\ main = <<"create", n>>
      /\ main' = IF n < Len(stages) THEN <<"start", n + 1>> ELSE <<"wait", 0>>
      /\ UNCHANGED <<stages, thread_args, threads, freed>>
  BY DEF StageStarted, CreateFails, NextStage, MainAt, MainGoto
<1>3. is_running' \in [Created -> BOOLEAN]
  BY <1>1 DEF StageStarted, CreateFails, IInv, TypeOK
<1>4. Started = n /\ Started' = n /\ n \in Nat
  <2>1. n \in Nat /\ Len(stages) \in Nat /\ n <= Len(stages) /\ Started = n
    BY <1>1, <1>2, LifecycleAssumption DEF Created, Started
  <2>2. CASE n < Len(stages)
    <3>1. main' = <<"start", n + 1>>
      BY <1>2, <2>2
    <3>. QED
      BY <2>1, <3>1 DEF Started
  <2>3. CASE n = Len(stages)
    <3>1. main' = <<"wait", 0>>
      BY <1>2, <2>3
    <3>. QED
      BY <1>2, <2>1, <2>3, <3>1 DEF Started
  <2>. QED
    BY <2>1, <2>2, <2>3
<1>5. TypeOK'
  BY <1>1, <1>2, <1>3, LifecycleAssumption
     DEF IInv, TypeOK, MainPhases, Created, threads, queues
<1>6. StagesAdded' /\ StagesJoined'
  BY <1>1, <1>2, LifecycleAssumption DEF IInv, StagesAdded, StagesJoined, Created
<1>7. ArgsStored'
  BY <1>2, <1>4 DEF IInv, ArgsStored
<1>8. ThreadsStarted' /\ FlagsFound' /\ NoEarlierStage'
  <2>1. UNCHANGED threads /\ main[1] # "crash"
    BY <1>2
  <2>. QED
    BY <1>4, <2>1, ThreadsKept
<1>. QED
  BY <1>5, <1>6, <1>7, <1>8 DEF IInv

\* stop_pipeline comes to its first stage.
LEMMA InvStopPipeline ==
  ASSUME IInv, StopPipeline
  PROVE  IInv'
<1>0. /\ main = <<"wait", 0>> /\ main' = <<"stop", 1>>
      /\ UNCHANGED <<stages, is_running, thread_args, threads, freed>>
      /\ 1 \in 1 .. Len(stages) /\ DOMAIN stages = 1 .. Len(stages)
  BY StagesBounded, EmptySeq
     DEF IInv, TypeOK, StopPipeline, MainAt, MainGoto, StagesAdded
<1>1. Started = Len(stages) /\ Started' = Len(stages) /\ Len(stages) \in Nat
  BY <1>0 DEF Started
<1>2. TypeOK'
  BY <1>0, LifecycleAssumption DEF IInv, TypeOK, MainPhases, threads, queues
<1>3. StagesAdded' /\ ArgsStored'
  BY <1>0, <1>1 DEF IInv, StagesAdded, ArgsStored
<1>4. StagesJoined'
  <2>1. \A t \in Threads : ~(t[1] < 1)
    BY DEF Threads, Created
  <2>. QED
    BY <1>0, <2>1 DEF IInv, StagesJoined
<1>5. ThreadsStarted' /\ FlagsFound' /\ NoEarlierStage'
  BY <1>0, <1>1, ThreadsKept
<1>. QED
  BY <1>2, <1>3, <1>4, <1>5 DEF IInv

\* stop_stage resets the flag.
LEMMA InvStopStage ==
  ASSUME IInv, NEW n \in 1 .. Len(stages), StopStage(n)
  PROVE  IInv'
<1>0. /\ main = <<"stop", n>> /\ main' = <<"join", n>> /\ n \in Created
      /\ is_running' \in [Created -> BOOLEAN]
      /\ UNCHANGED <<stages, thread_args, threads, freed>>
      /\ DOMAIN stages = 1 .. Len(stages) /\ Len(stages) \in 0 .. NumStages
  BY StagesBounded DEF IInv, TypeOK, StopStage, ClearFlag, MainAt, MainGoto
<1>1. Started = Len(stages) /\ Started' = Len(stages) /\ Len(stages) \in Nat
  BY <1>0, LifecycleAssumption DEF Started
<1>2. TypeOK'
  BY <1>0, LifecycleAssumption DEF IInv, TypeOK, MainPhases, Created, threads, queues
<1>3. StagesAdded' /\ ArgsStored'
  BY <1>0, <1>1 DEF IInv, StagesAdded, ArgsStored
<1>4. StagesJoined'
  BY <1>0 DEF IInv, StagesJoined, threads
<1>5. ThreadsStarted' /\ FlagsFound' /\ NoEarlierStage'
  BY <1>0, <1>1, ThreadsKept
<1>. QED
  BY <1>2, <1>3, <1>4, <1>5 DEF IInv

\* After the last join every thread has ended: threads of a stage that was
\* never started do not exist.
LEMMA InvJoinStage ==
  ASSUME IInv, NEW n \in 1 .. Len(stages), JoinStage(n)
  PROVE  IInv'
<1>0. /\ main = <<"join", n>> /\ n \in Created /\ stages[n] = n
      /\ main' = IF n < Len(stages) THEN <<"stop", n + 1>> ELSE <<"destroy", 1>>
      /\ UNCHANGED <<stages, is_running, thread_args, threads, freed>>
      /\ Len(stages) \in 0 .. NumStages /\ DOMAIN stages = 1 .. Len(stages)
  BY StagesBounded DEF IInv, JoinStage, MainAt, MainGoto
<1>1. Started = Len(stages) /\ Started' = Len(stages) /\ Len(stages) \in Nat
  BY <1>0, LifecycleAssumption DEF Started
<1>2. TypeOK'
  BY <1>0, LifecycleAssumption DEF IInv, TypeOK, MainPhases, Created, threads, queues
<1>3. StagesAdded' /\ ArgsStored'
  BY <1>0, <1>1, LifecycleAssumption DEF IInv, StagesAdded, ArgsStored, Created
<1>4. ASSUME NEW t \in Threads, t[1] < n + 1
      PROVE  thread[t] \in {"none", "exited"}
  <2>1. CASE t[1] = n
    <3>1. PICK k \in 1 .. NumThreads : t = <<n, k>>
      BY <2>1 DEF Threads
    <3>. QED
      BY <1>0, <3>1 DEF JoinStage, AllExited
  <2>2. CASE t[1] < n
    BY <1>0, <2>2 DEF IInv, StagesJoined
  <2>. QED
    BY <1>0, <1>4, <2>1, <2>2 DEF Threads, Created
<1>5. StagesJoined'
  <2>0. thread' = thread
    BY <1>0 DEF threads
  <2>1. CASE n < Len(stages)
    BY <1>0, <1>4, <2>0, <2>1 DEF IInv, StagesJoined
  <2>2. CASE n = Len(stages)
    <3>1. \A t \in Threads : t[1] < n + 1 \/ thread[t] = "none"
      BY <1>0, <1>1, <2>2 DEF IInv, ThreadsStarted, Threads, Created
    <3>2. main' = <<"destroy", 1>>
      BY <1>0, <2>2
    <3>. QED
      BY <1>0, <1>4, <2>0, <3>1, <3>2 DEF IInv, StagesJoined
  <2>. QED
    BY <1>1, <2>1, <2>2
<1>6. ThreadsStarted' /\ FlagsFound' /\ NoEarlierStage'
  <2>1. UNCHANGED threads /\ main[1] # "crash"
    BY <1>0
  <2>. QED
    BY <1>1, <2>1, ThreadsKept
<1>. QED
  BY <1>2, <1>3, <1>5, <1>6 DEF IInv

\* The process goes, before any stage has been freed.
LEMMA InvCrash ==
  ASSUME IInv, main[1] \notin {"destroy", "return"}, main' = <<"crash", 0>>,
         UNCHANGED <<stages, is_running, thread_args, threads, freed>>
  PROVE  IInv'
<1>1. TypeOK'
  BY LifecycleAssumption DEF IInv, TypeOK, MainPhases, threads, queues
<1>2. StagesAdded' /\ ArgsStored' /\ ThreadsStarted' /\ StagesJoined'
  BY DEF IInv, StagesAdded, ArgsStored, ThreadsStarted, StagesJoined, threads
<1>3. FlagsFound' /\ NoEarlierStage'
  BY DEF IInv, FlagsFound, NoEarlierStage, threads, queues
<1>. QED
  BY <1>1, <1>2, <1>3 DEF IInv

LEMMA InvDestroyStage ==
  ASSUME IInv, NEW n \in 1 .. Len(stages), DestroyStage(n)
  PROVE  IInv'
<1>0. /\ main = <<"destroy", n>> /\ n \in Created /\ stages[n] = n
      /\ main' = IF n < Len(stages) THEN <<"destroy", n + 1>> ELSE <<"return", 0>>
      /\ freed' = freed \cup {n}
      /\ UNCHANGED <<stages, is_running, thread_args, threads>>
      /\ Len(stages) \in 0 .. NumStages /\ DOMAIN stages = 1 .. Len(stages)
  BY StagesBounded DEF IInv, DestroyStage, NextStage, MainAt, MainGoto
<1>1. Started = Len(stages) /\ Started' = Len(stages) /\ Len(stages) \in Nat
  BY <1>0, LifecycleAssumption DEF Started
<1>2. TypeOK'
  BY <1>0, LifecycleAssumption DEF IInv, TypeOK, MainPhases, Created, threads, queues
<1>3. StagesAdded' /\ ArgsStored'
  BY <1>0, <1>1, LifecycleAssumption DEF IInv, StagesAdded, ArgsStored, Created
<1>4. StagesJoined'
  <2>1. main'[1] \in {"destroy", "return"} /\ main[1] = "destroy" /\ thread' = thread
    BY <1>0 DEF threads
  <2>. QED
    BY <2>1 DEF IInv, StagesJoined
<1>5. ThreadsStarted' /\ FlagsFound' /\ NoEarlierStage'
  <2>1. UNCHANGED threads /\ main[1] # "crash"
    BY <1>0
  <2>. QED
    BY <1>1, <2>1, ThreadsKept
<1>. QED
  BY <1>2, <1>3, <1>4, <1>5 DEF IInv

\* Garbage takes the place of a stage that no call of start_stage holds there.
LEMMA InvOverwriteFrame ==
  ASSUME IInv, OverwriteFrame
  PROVE  IInv'
<1>0. /\ main[1] \in {"start", "wait", "stop", "join", "destroy"}
      /\ thread_args \in Created /\ thread_args' = GARBAGE
      /\ UNCHANGED <<stages, is_running, threads, freed, main>>
  BY DEF OverwriteFrame
<1>1. Started' = Started
  BY <1>0 DEF Started
<1>2. Started \in Nat
  BY StartedBounded DEF IInv
<1>3. TypeOK' /\ StagesAdded' /\ StagesJoined'
  BY <1>0 DEF IInv, TypeOK, StagesAdded, StagesJoined, threads, queues
<1>4. ArgsStored'
  <2>1. Started # 0
    BY <1>0, LifecycleAssumption DEF IInv, ArgsStored, Created
  <2>. QED
    BY <1>0, <1>1, <2>1 DEF ArgsStored
<1>5. ThreadsStarted' /\ FlagsFound' /\ NoEarlierStage'
  <2>1. UNCHANGED threads /\ main[1] # "crash" /\ Started <= Started' /\ Started' \in Nat
    BY <1>0, <1>1, <1>2
  <2>. QED
    BY <1>2, <2>1, ThreadsKept
<1>. QED
  BY <1>3, <1>4, <1>5 DEF IInv

-----------------------------------------------------------------------------
(* A step of a thread: main and what it has started stay as they are.       *)

\* What remains to be shown of a thread that goes on.
LEMMA InvRuns ==
  ASSUME IInv, NEW t \in Threads, NEW from \in ThreadPhases, NEW to \in ThreadPhases,
         Runs(t, from, to), from # "none", from # "exited", to # "none",
         input_queue' \in [Threads -> Created \cup {NULL}],
         output_queue' \in [Threads -> Created \cup {NULL}],
         stage' \in [Threads -> Created \cup {NULL, GARBAGE}],
         UNCHANGED <<stages, is_running, thread_args, freed, main>>,
         \A u \in Threads \ {t} : /\ input_queue'[u] = input_queue[u]
                                  /\ output_queue'[u] = output_queue[u]
                                  /\ stage'[u] = stage[u],
         to \in {"input", "output", "loop", "test"} =>
           input_queue'[t] \in Created /\ t[1] <= input_queue'[t],
         to \in {"output", "loop", "test"} =>
           output_queue'[t] \in Created /\ input_queue'[t] <= output_queue'[t],
         to = "input" => input_queue'[t] <= Started,
         to = "test" => stage'[t] # NULL
  PROVE  IInv'
<1>0. /\ thread[t] = from /\ thread' = [thread EXCEPT ![t] = to]
      /\ thread \in [Threads -> ThreadPhases]
  BY DEF Runs, IInv, TypeOK
<1>1. thread'[t] = to /\ \A u \in Threads \ {t} : thread'[u] = thread[u]
  BY <1>0
<1>2. TypeOK'
  BY <1>0 DEF IInv, TypeOK
<1>3. StagesAdded' /\ ArgsStored' /\ Started' = Started
  BY DEF IInv, StagesAdded, ArgsStored, Started
<1>4. ThreadsStarted'
  BY <1>0, <1>1, <1>3 DEF IInv, ThreadsStarted
<1>5. NoEarlierStage' /\ FlagsFound'
  BY <1>1 DEF IInv, NoEarlierStage, FlagsFound
<1>6. StagesJoined'
  <2>1. /\ main[1] \notin {"destroy", "return"}
        /\ main[1] \in {"stop", "join"} => ~(t[1] < main[2])
    BY <1>0 DEF IInv, StagesJoined
  <2>. QED
    BY <1>1, <2>1 DEF IInv, StagesJoined
<1>. QED
  BY <1>2, <1>3, <1>4, <1>5, <1>6 DEF IInv

\* What a live thread can find in thread_args: the last stage started, which
\* is its own or a later one, or garbage.
LEMMA FoundInArgs ==
  ASSUME IInv, NEW t \in Threads, thread[t] # "none", ~Ended
  PROVE  /\ Started \in Nat /\ t[1] \in Nat /\ t[1] <= Started
         /\ thread_args \in {Started, GARBAGE}
         /\ thread_args \in Created \cup {GARBAGE}
<1>1. main[1] # "crash"
  <2>1. main = <<main[1], main[2]>>
    BY DEF IInv, TypeOK
  <2>. QED
    BY <2>1 DEF IInv, StagesAdded, Ended
<1>2. Started \in Nat /\ t[1] \in Nat /\ t[1] # 0
  BY StartedBounded DEF IInv, Threads, Created
<1>3. t[1] <= Started
  BY <1>1 DEF IInv, ThreadsStarted
<1>4. thread_args \in {Started, GARBAGE}
  BY <1>1, <1>2, <1>3 DEF IInv, ArgsStored
<1>5. thread_args # NULL
  BY <1>2, <1>3, <1>4, StartedBounded, LifecycleAssumption DEF IInv
<1>. QED
  BY <1>2, <1>3, <1>4, <1>5 DEF IInv, TypeOK

LEMMA InvTakeInputQueue ==
  ASSUME IInv, NEW t \in Threads, TakeInputQueue(t)
  PROVE  IInv'
<1>1. UNCHANGED <<stages, is_running, thread_args, output_queue, stage, freed, main>>
  BY DEF TakeInputQueue
<1>2. CASE thread_args = GARBAGE
  <2>1. Runs(t, "created", "astray") /\ input_queue' = [input_queue EXCEPT ![t] = NULL]
    BY <1>2 DEF TakeInputQueue, GoesAstray
  <2>. QED
    BY <1>1, <2>1, InvRuns DEF IInv, TypeOK, ThreadPhases
<1>3. CASE thread_args # GARBAGE
  <2>1. /\ Runs(t, "created", "input")
        /\ input_queue' = [input_queue EXCEPT ![t] = thread_args]
    BY <1>3 DEF TakeInputQueue
  <2>2. thread_args \in Created /\ thread_args = Started /\ t[1] <= thread_args
    BY <1>3, <2>1, FoundInArgs DEF Runs
  <2>3. /\ input_queue' \in [Threads -> Created \cup {NULL}] /\ input_queue'[t] = thread_args
        /\ \A u \in Threads \ {t} : input_queue'[u] = input_queue[u]
    BY <2>1, <2>2 DEF IInv, TypeOK
  <2>4. thread_args <= Started
    BY <2>2 DEF Created
  <2>. QED
    BY <1>1, <2>1, <2>2, <2>3, <2>4, InvRuns DEF IInv, TypeOK, ThreadPhases
<1>. QED
  BY <1>2, <1>3

\* The stages started meanwhile are later ones.
LEMMA InvTakeOutputQueue ==
  ASSUME IInv, NEW t \in Threads, TakeOutputQueue(t)
  PROVE  IInv'
<1>1. UNCHANGED <<stages, is_running, thread_args, stage, freed, main>>
  BY DEF TakeOutputQueue
<1>2. CASE thread_args = GARBAGE
  <2>1. /\ Runs(t, "input", "astray") /\ input_queue' = [input_queue EXCEPT ![t] = NULL]
        /\ output_queue' = output_queue
    BY <1>2 DEF TakeOutputQueue, GoesAstray
  <2>. QED
    BY <1>1, <2>1, InvRuns DEF IInv, TypeOK, ThreadPhases
<1>3. CASE thread_args # GARBAGE
  <2>1. /\ Runs(t, "input", "output") /\ input_queue' = input_queue
        /\ output_queue' = [output_queue EXCEPT ![t] = thread_args]
    BY <1>3 DEF TakeOutputQueue
  <2>2. thread_args \in Created /\ thread_args = Started
    BY <1>3, <2>1, FoundInArgs DEF Runs
  <2>3. main[1] # "crash"
    <3>1. main = <<main[1], main[2]>>
      BY DEF IInv, TypeOK
    <3>. QED
      BY <2>1, <3>1 DEF Runs, IInv, StagesAdded, Ended
  <2>4. input_queue[t] \in Created /\ t[1] <= input_queue[t] /\ input_queue[t] <= thread_args
    BY <2>1, <2>2, <2>3 DEF Runs, IInv, NoEarlierStage, ThreadsStarted
  <2>5. /\ output_queue' \in [Threads -> Created \cup {NULL}] /\ output_queue'[t] = thread_args
        /\ \A u \in Threads \ {t} : output_queue'[u] = output_queue[u]
    BY <2>1, <2>2 DEF IInv, TypeOK
  <2>. QED
    BY <1>1, <2>1, <2>2, <2>4, <2>5, InvRuns DEF IInv, TypeOK, ThreadPhases
<1>. QED
  BY <1>2, <1>3

LEMMA InvThread ==
  ASSUME IInv, NEW t \in Threads, Thread(t) \/ ExitAstray(t)
  PROVE  IInv'
<1>1. CASE TakeDuration(t)
  <2>1. /\ Runs(t, "output", "loop")
        /\ UNCHANGED <<stages, is_running, thread_args, freed, main>>
        /\ UNCHANGED <<input_queue, output_queue, stage>>
    BY <1>1 DEF TakeDuration, queues
  <2>2. thread[t] = "output"
    BY <2>1 DEF Runs
  <2>. QED
    BY <2>1, <2>2, InvRuns DEF IInv, TypeOK, NoEarlierStage, ThreadPhases
<1>2. CASE LoadStage(t)
  <2>1. /\ Runs(t, "loop", "test") /\ stage' = [stage EXCEPT ![t] = thread_args]
        /\ UNCHANGED <<stages, is_running, thread_args, freed, main>>
        /\ UNCHANGED <<input_queue, output_queue>>
    BY <1>2 DEF LoadStage, queues
  <2>2. thread[t] = "loop" /\ thread_args \in Created \cup {GARBAGE}
    BY <2>1, FoundInArgs DEF Runs
  <2>3. thread_args # NULL
    BY <2>2, LifecycleAssumption DEF Created
  <2>. QED
    BY <2>1, <2>2, <2>3, InvRuns DEF IInv, TypeOK, NoEarlierStage, ThreadPhases
<1>3. CASE Poll(t)
  <2>1. /\ Runs(t, "test", "loop") /\ stage' = [stage EXCEPT ![t] = NULL]
        /\ UNCHANGED <<stages, is_running, thread_args, freed, main>>
        /\ UNCHANGED <<input_queue, output_queue>>
    BY <1>3 DEF Poll, queues
  <2>2. thread[t] = "test"
    BY <2>1 DEF Runs
  <2>. QED
    BY <2>1, <2>2, InvRuns DEF IInv, TypeOK, NoEarlierStage, ThreadPhases
<1>4. CASE Exit(t)
  <2>1. /\ Runs(t, "test", "exited") /\ stage' = [stage EXCEPT ![t] = NULL]
        /\ input_queue' = [input_queue EXCEPT ![t] = NULL]
        /\ output_queue' = [output_queue EXCEPT ![t] = NULL]
        /\ UNCHANGED <<stages, is_running, thread_args, freed, main>>
    BY <1>4 DEF Exit
  <2>. QED
    BY <2>1, InvRuns DEF IInv, TypeOK, ThreadPhases
<1>5. CASE ExitAstray(t)
  <2>1. /\ Runs(t, "astray", "exited")
        /\ UNCHANGED <<stages, is_running, thread_args, freed, main>>
        /\ UNCHANGED <<input_queue, output_queue, stage>>
    BY <1>5 DEF ExitAstray, queues
  <2>. QED
    BY <2>1, InvRuns DEF IInv, TypeOK, ThreadPhases
<1>. QED
  BY <1>1, <1>2, <1>3, <1>4, <1>5, InvTakeInputQueue, InvTakeOutputQueue DEF Thread

\* A thread that can take the process with it has not ended, so main has not
\* come to free a stage.
LEMMA InvThreadCrashes ==
  ASSUME IInv, NEW t \in Threads, ThreadCrashes(t)
  PROVE  IInv'
<1>1. thread[t] \notin {"none", "exited"}
  BY DEF ThreadCrashes, FollowsGarbage
<1>2. main[1] \notin {"destroy", "return"}
  BY <1>1 DEF IInv, StagesJoined
<1>. QED
  BY <1>2, InvCrash DEF ThreadCrashes, MainGoto

LEMMA InvStep == IInv /\ [Next]_vars => IInv'
<1>. SUFFICES ASSUME IInv, [Next]_vars PROVE IInv'
  OBVIOUS
<1>1. CASE Main
  <2>1. ASSUME NEW n \in 1 .. Len(stages), JoinCrashes(n)
        PROVE  IInv'
    BY <2>1, InvCrash DEF JoinCrashes, MainAt, MainGoto
  <2>. QED
    BY <1>1, <2>1, InvAdd, InvStartPipeline, InvStartStage, InvCreateThread, InvStageStarted,
       InvStopPipeline, InvStopStage, InvJoinStage, InvDestroyStage DEF Main
<1>2. CASE OverwriteFrame
  BY <1>2, InvOverwriteFrame
<1>3. CASE \E t \in Threads : Thread(t) \/ ExitAstray(t) \/ ThreadCrashes(t)
  BY <1>3, InvThread, InvThreadCrashes
<1>4. CASE UNCHANGED vars
  BY <1>4 DEF vars, threads, queues, IInv, TypeOK, StagesAdded, ArgsStored, Started,
              ThreadsStarted, FlagsFound, StagesJoined, NoEarlierStage
<1>. QED
  BY <1>1, <1>2, <1>3, <1>4 DEF Next

-----------------------------------------------------------------------------
\* The inductive invariant holds in every behaviour.
THEOREM LifecycleInvariance == Spec => []IInv
BY InvInit, InvStep, PTL DEF Spec

\* The variables keep their types, and the array of stages does not overflow.
THEOREM LifecycleTypes == Spec => []TypeOK
<1>1. IInv => TypeOK
  BY DEF IInv
<1>. QED
  BY <1>1, LifecycleInvariance, PTL

\* The queues that a thread takes from a stage are never those of a stage
\* before its own, and its output queue never of one before that of its input.
THEOREM NoThreadGoesBack == Spec => []NoEarlierStage
<1>1. IInv => NoEarlierStage
  BY DEF IInv
<1>. QED
  BY <1>1, LifecycleInvariance, PTL

\* When a stage is freed every thread has ended or was never created.
THEOREM NoUseAfterFree == Spec => []FreedStagesUnused
<1>1. IInv => FreedStagesUnused
  BY DEF IInv, StagesJoined, FreedStagesUnused
<1>. QED
  BY <1>1, LifecycleInvariance, PTL

=============================================================================

-------------------------- MODULE LifecycleProofs --------------------------
(***************************************************************************)
(* Startup and shutdown: the types, that the cleanup is over when it says  *)
(* so, and that run returns without an error only when nothing is left.    *)
(***************************************************************************)
EXTENDS Lifecycle, TLAPS, SequenceTheorems

MainPlace ==
  {"login", "start", "serving", "http", "stopping", "token", "exited", "abandoned"}
StartRecord ==
  [pc : {"idle", "refresh", "stage", "check", "return", "returned"},
   stage : 1..6, ok : BOOLEAN]
FlagRecord == [starting : BOOLEAN, started : BOOLEAN, stopping : BOOLEAN]
StopRecord ==
  [pc : {"none", "waitStart", "cancel", "join", "finish", "done"},
   stage : 1..6, late : BOOLEAN]
TokenRecord == [thread : {"none", "running", "exited"}, cancelled : BOOLEAN]

\* Types; only a goroutine that runs is in the middle of something, and only the
\* publisher queues batches.
Shape ==
  /\ main \in MainPlace /\ start \in StartRecord /\ flags \in FlagRecord
  /\ stopper \in StopRecord /\ token \in TokenRecord
  /\ failed \in BOOLEAN /\ root \in BOOLEAN /\ pipeline \in BOOLEAN
  /\ dropped \in BOOLEAN
  /\ cancelled \subseteq Stages
  /\ thread \in [Stages -> {"none", "running", "exited"}]
  /\ busy \subseteq Stages /\ \A s \in busy : thread[s] = "running"
  /\ queue \in 0..Capacity
  /\ queue > 0 => thread["publisher"] # "none"
  /\ waiting \in [Callers -> {"no", "yes", "stopped", "late"}]

InStart == {"refresh", "stage", "check", "return"}

\* Start: the stages up to start.stage have been started, and no other one.
Starting ==
  /\ start.stage <= Len(StartOrder) + 1
  /\ \A i \in 1..Len(StartOrder) : thread[StartOrder[i]] # "none" <=> i < start.stage
  /\ \A s \in Stages : thread[s] # "none" =>
       \E i \in 1..Len(StartOrder) : s = StartOrder[i]
  /\ start.pc \in {"idle", "refresh"} => start.stage = 1
  /\ start.pc = "stage" => StagesLeft
  /\ start.ok => start.stage = Len(StartOrder) + 1 /\ start.pc \in {"return", "returned"}
  /\ flags.starting <=> start.pc \in InStart
  /\ flags.started => start.ok /\ start.pc = "returned"

\* The cleanup: it begins when Start is over, or before it has begun, which then
\* starts nothing; what it has passed does not run; and once it has closed the
\* publisher's queue nothing is queued any more.
Cleaning ==
  /\ flags.stopping <=> stopper.pc # "none"
  /\ stopper.pc \in {"none", "waitStart"} => stopper.stage = 1
  /\ stopper.pc \in {"finish", "done"} <=> stopper.stage = 6
  /\ stopper.pc \notin {"none", "waitStart"} => start.pc \in {"idle", "returned"}
  /\ \A j \in 1..5 : j < stopper.stage => thread[StopOrder[j]] # "running"
  /\ stopper.stage > 2 \/ (stopper.stage = 2 /\ stopper.pc = "join") => queue = 0
  /\ \A c \in Callers : waiting[c] # "no" => flags.stopping
  /\ \A c \in Callers : waiting[c] = "stopped" => stopper.pc = "done"

\* run: where it is, and what it knows when it leaves.
Leaving ==
  /\ main = "login" => start.pc = "idle" /\ token.thread = "none"
  /\ start.pc \in InStart => main = "start"
  /\ main \in {"serving", "http", "stopping"} => start.pc = "returned"
  /\ main \in {"token", "exited"} /\ ~failed =>
       start.pc = "idle" \/ stopper.pc = "done"
  /\ main = "exited" /\ ~failed => token.thread # "running"
  /\ main = "token" => token.cancelled
  /\ main = "exited" => token.thread = "none" \/ token.cancelled
  /\ main \in {"token", "exited"} => start.pc = "idle" \/ flags.stopping

IInv == Shape /\ Starting /\ Cleaning /\ Leaving

-----------------------------------------------------------------------------
(* Facts about the two orders.                                             *)

LEMMA StopOrderFacts ==
  /\ Len(StopOrder) = 5 /\ StopOrder[1] = "publisher" /\ StopOrder[2] = "workers"
  /\ \A j \in 1..5 : StopOrder[j] \in Stages /\ (j # 2 => StopOrder[j] # "workers")
  /\ \A s \in Stages : \E j \in 1..5 : s = StopOrder[j]
<1>1. /\ StopOrder[1] = "publisher" /\ StopOrder[2] = "workers" /\ StopOrder[3] = "expiry"
      /\ StopOrder[4] = "scheduler" /\ StopOrder[5] = "metadata" /\ Len(StopOrder) = 5
  BY DEF StopOrder
<1>2. 1..5 = {1, 2, 3, 4, 5}
  OBVIOUS
<1>3. QED
  BY <1>1, <1>2 DEF Stages

LEMMA StartOrderFacts ==
  /\ Len(StartOrder) \in {3, 5}
  /\ \A i \in 1..Len(StartOrder) : StartOrder[i] \in Stages
  /\ \A i, j \in 1..Len(StartOrder) : StartOrder[i] = StartOrder[j] => i = j
  /\ \A i \in 1..Len(StartOrder) : StartOrder[i] = "workers" => i < Len(StartOrder)
  /\ \A i \in 1..Len(StartOrder) : StartOrder[i] = "publisher" =>
       \E j \in 1..Len(StartOrder) : j < i /\ StartOrder[j] = "workers"
<1>1. CASE PushEnabled
  <2> DEFINE o == StartOrder
  <2>1. /\ Len(o) = 5 /\ o[1] = "metadata" /\ o[2] = "scheduler" /\ o[3] = "expiry"
        /\ o[4] = "workers" /\ o[5] = "publisher"
    BY <1>1 DEF StartOrder
  <2>2. 1..5 = {1, 2, 3, 4, 5}
    OBVIOUS
  <2> HIDE DEF o
  <2>3. QED
    BY <2>1, <2>2 DEF Stages, o
<1>2. CASE ~PushEnabled
  <2> DEFINE o == StartOrder
  <2>1. /\ Len(o) = 3 /\ o[1] = "metadata" /\ o[2] = "scheduler" /\ o[3] = "expiry"
    BY <1>2 DEF StartOrder
  <2>2. 1..3 = {1, 2, 3}
    OBVIOUS
  <2> HIDE DEF o
  <2>3. QED
    BY <2>1, <2>2 DEF Stages, o
<1>3. QED
  BY <1>1, <1>2

\* The publisher is started after its workers.
LEMMA WorkersFirst ==
  ASSUME Shape, Starting, thread["workers"] = "none"
  PROVE  thread["publisher"] = "none" /\ queue = 0
<1>1. thread["publisher"] = "none"
  <2>1. SUFFICES ASSUME thread["publisher"] # "none" PROVE FALSE
    OBVIOUS
  <2>2. "publisher" \in Stages
    BY DEF Stages
  <2>3. PICK i \in 1..Len(StartOrder) : StartOrder[i] = "publisher"
    BY <2>1, <2>2 DEF Starting
  <2>4. PICK j \in 1..Len(StartOrder) : j < i /\ StartOrder[j] = "workers"
    BY <2>3, StartOrderFacts
  <2>5. i < start.stage /\ start.stage \in Nat
    BY <2>1, <2>3 DEF Starting, Shape, StartRecord
  <2>6. j < start.stage
    BY <2>4, <2>5, StartOrderFacts
  <2>7. QED
    BY <2>4, <2>6 DEF Starting
<1>2. queue \in Nat
  BY LifecycleAssumption DEF Shape
<1>3. QED
  BY <1>1, <1>2 DEF Shape

\* Nothing that was not started runs.
LEMMA IdleRunsNothing ==
  ASSUME Shape, Starting, start.pc = "idle"
  PROVE  \A s \in Stages : thread[s] = "none"
<1>1. start.stage = 1
  BY DEF Starting
<1>2. \A i \in 1..Len(StartOrder) : ~(i < 1)
  BY StartOrderFacts
<1>3. QED
  BY <1>1, <1>2 DEF Starting

\* When the cleanup is over nothing runs and nothing is queued.
LEMMA DoneRunsNothing ==
  ASSUME Shape, Starting, Cleaning, stopper.pc = "done"
  PROVE  /\ \A s \in Stages : thread[s] # "running"
         /\ busy = {} /\ queue = 0
<1>1. stopper.stage = 6
  BY DEF Cleaning
<1>2. \A j \in 1..5 : thread[StopOrder[j]] # "running"
  BY <1>1 DEF Cleaning
<1>3. \A s \in Stages : thread[s] # "running"
  BY <1>2, StopOrderFacts
<1>4. QED
  BY <1>1, <1>3 DEF Shape, Cleaning

-----------------------------------------------------------------------------
(* Types.                                                                  *)

LEMMA InitShape ==
  ASSUME Init
  PROVE  Shape
<1>1. main \in MainPlace /\ failed \in BOOLEAN /\ root \in BOOLEAN /\ pipeline \in BOOLEAN
  BY DEF Init, MainPlace
<1>2. /\ start \in StartRecord /\ flags \in FlagRecord /\ stopper \in StopRecord
      /\ token \in TokenRecord
  BY DEF Init, StartRecord, FlagRecord, StopRecord, TokenRecord
<1>3. /\ dropped \in BOOLEAN /\ cancelled \subseteq Stages /\ busy \subseteq Stages
      /\ \A s \in busy : thread[s] = "running"
      /\ queue = 0 /\ thread = [s \in Stages |-> "none"]
      /\ waiting = [c \in Callers |-> "no"]
  BY DEF Init
<1>4. /\ thread \in [Stages -> {"none", "running", "exited"}]
      /\ waiting \in [Callers -> {"no", "yes", "stopped", "late"}]
  BY <1>3
<1>5. queue \in 0..Capacity /\ ~(queue > 0)
  BY <1>3, LifecycleAssumption
<1>6. QED
  BY <1>1, <1>2, <1>3, <1>4, <1>5 DEF Shape

\* What CallStop leaves of Start, the goroutines and the stages.
LEMMA CallStopShape ==
  ASSUME Shape, NEW c \in Callers, CallStop(c)
  PROVE  /\ waiting' = [waiting EXCEPT ![c] = "yes"]
         /\ waiting' \in [Callers -> {"no", "yes", "stopped", "late"}]
         /\ flags' \in FlagRecord /\ stopper' \in StopRecord /\ pipeline' \in BOOLEAN
<1>1. waiting' = [waiting EXCEPT ![c] = "yes"]
  BY DEF CallStop
<1>2. waiting' \in [Callers -> {"no", "yes", "stopped", "late"}]
  BY <1>1 DEF Shape
<1>3. CASE flags.stopping
  BY <1>1, <1>2, <1>3 DEF CallStop, Shape
<1>4. CASE ~flags.stopping
  <2>1. flags' = [flags EXCEPT !.stopping = TRUE] /\ flags' \in FlagRecord
    BY <1>4 DEF CallStop, Shape, FlagRecord
  <2>2. stopper' \in StopRecord
    BY <1>4 DEF CallStop, Shape, StopRecord
  <2>3. pipeline' \in BOOLEAN
    BY <1>4 DEF CallStop, Shape, FlagRecord
  <2>4. QED
    BY <1>1, <1>2, <2>1, <2>2, <2>3
<1>5. QED
  BY <1>3, <1>4

LEMMA NextStageShape ==
  ASSUME Shape, stopper.stage <= 5
  PROVE  /\ NextStage \in StopRecord /\ NextStage.stage = stopper.stage + 1
         /\ NextStage.pc = IF stopper.stage < 5 THEN "cancel" ELSE "finish"
<1> DEFINE pc == IF stopper.stage < 5 THEN "cancel" ELSE "finish"
           n == stopper.stage + 1
<1>1. stopper \in StopRecord
  BY DEF Shape
<1>2. n \in 1..6 /\ pc \in {"cancel", "finish"}
  BY <1>1 DEF StopRecord
<1>3. NextStage = [stopper EXCEPT !.pc = pc, !.stage = n]
  BY StopOrderFacts DEF NextStage
<1>4. pc = IF stopper.stage < 5 THEN "cancel" ELSE "finish"
  OBVIOUS
<1>5. n = stopper.stage + 1
  OBVIOUS
<1> HIDE DEF pc, n
<1>6. NextStage \in StopRecord /\ NextStage.stage = n /\ NextStage.pc = pc
  BY <1>1, <1>2, <1>3 DEF StopRecord
<1>7. QED
  BY <1>4, <1>5, <1>6

\* A stage is started, in the order of StartOrder.
LEMMA StartStageMoves ==
  ASSUME Shape, StartStage
  PROVE  /\ start' \in StartRecord /\ start'.stage = start.stage + 1 /\ start'.ok = start.ok
         /\ start.pc = "stage" /\ start.stage \in 1..Len(StartOrder)
         /\ start'.pc = IF StartOrder[start.stage] = "workers" THEN "stage" ELSE "check"
<1> DEFINE pc == IF StartOrder[start.stage] = "workers" THEN "stage" ELSE "check"
           n == start.stage + 1
<1>1. start \in StartRecord
  BY DEF Shape
<1>2. start.pc = "stage" /\ start.stage \in 1..Len(StartOrder) /\ n \in 1..6
  BY <1>1, StartOrderFacts DEF StartStage, StagesLeft, StartRecord
<1>3. start' = [start EXCEPT !.pc = pc, !.stage = n]
  BY DEF StartStage
<1>4. pc \in {"stage", "check"}
  OBVIOUS
<1> HIDE DEF pc, n
<1>5. start' \in StartRecord /\ start'.stage = n /\ start'.ok = start.ok /\ start'.pc = pc
  BY <1>1, <1>2, <1>3, <1>4 DEF StartRecord
<1>6. QED
  BY <1>2, <1>5 DEF pc, n

LEMMA ShapeStep ==
  ASSUME Shape, Starting, Cleaning, [Next]_vars
  PROVE  Shape'
<1> USE DEF pool
<1>1. CASE UNCHANGED vars
  BY <1>1 DEF vars, Shape
<1>2. CASE LoginFails \/ RegisterFails \/ Serve \/ ShutDown \/ ExitProcess \/ Signal
  BY <1>2 DEF LoginFails, RegisterFails, Serve, ShutDown, ExitProcess, Signal, Shape, MainPlace,
     TokenRecord, StartRecord
<1>3. CASE LoginSucceeds \/ LeaveEarly \/ CreateFails \/ StopToken \/ ExitToken
  BY <1>3, ZenonT(60)
  DEF LoginSucceeds, LeaveEarly, CreateFails, StopToken, ExitToken, Shape, MainPlace,
     TokenRecord, StopRecord
<1>4. CASE StartFailed \/ ExporterFails \/ StopPipeline \/ OtherCallsStop
  <2>1. PICK c \in Callers : CallStop(c)
    BY <1>4 DEF StartFailed, ExporterFails, StopPipeline, OtherCallsStop, Callers
  <2>2. /\ waiting' \in [Callers -> {"no", "yes", "stopped", "late"}]
        /\ flags' \in FlagRecord /\ stopper' \in StopRecord /\ pipeline' \in BOOLEAN
    BY <2>1, CallStopShape
  <2>3. /\ UNCHANGED <<root, start, cancelled, pool, token>>
        /\ main' \in MainPlace /\ failed' \in BOOLEAN
    BY <1>4 DEF StartFailed, ExporterFails, StopPipeline, OtherCallsStop, Shape, MainPlace
  <2>4. QED
    BY <2>2, <2>3 DEF Shape
<1>5. CASE BeginStart \/ RefreshFails \/ RefreshSucceeds \/ CheckStart \/ ReturnFromStart
  <2>1. UNCHANGED <<main, failed, root, cancelled, pool, waiting, token>>
    BY <1>5 DEF BeginStart, RefreshFails, RefreshSucceeds, CheckStart, ReturnFromStart
  <2>2. start' \in StartRecord
    BY <1>5 DEF BeginStart, RefreshFails, RefreshSucceeds, CheckStart, ReturnFromStart,
       Shape, StartRecord
  <2>3. flags' \in FlagRecord
    <3>1. CASE ReturnFromStart
      <4>1. start.ok \in BOOLEAN /\ flags.stopping \in BOOLEAN
        BY DEF Shape, StartRecord, FlagRecord
      <4> DEFINE s == start.ok /\ ~flags.stopping
      <4>2. s \in BOOLEAN
        BY <4>1
      <4>3. flags' = [flags EXCEPT !.starting = FALSE, !.started = s]
        BY <3>1 DEF ReturnFromStart, FlagsAfterStart
      <4> HIDE DEF s
      <4>4. QED
        BY <4>2, <4>3 DEF Shape, FlagRecord
    <3>2. CASE ~ReturnFromStart
      BY <1>5, <3>2 DEF BeginStart, RefreshFails, RefreshSucceeds, CheckStart, Shape,
         FlagRecord
    <3>3. QED
      BY <3>1, <3>2
  <2>4. stopper' \in StopRecord /\ pipeline' \in BOOLEAN
    BY <1>5 DEF BeginStart, RefreshFails, RefreshSucceeds, CheckStart, ReturnFromStart,
       Shape, StopRecord
  <2>5. QED
    BY <2>1, <2>2, <2>3, <2>4 DEF Shape
<1>6. CASE StartStage
  <2> DEFINE s == StartOrder[start.stage]
  <2>1. start.stage \in 1..Len(StartOrder) /\ s \in Stages
    BY <1>6, StartOrderFacts DEF StartStage, StagesLeft, Shape, StartRecord
  <2>2. start' \in StartRecord
    BY <1>6, StartStageMoves
  <2>3. /\ thread' = [thread EXCEPT ![s] = "running"]
        /\ UNCHANGED <<main, failed, root, pipeline, flags, cancelled, busy, queue,
                       dropped, stopper, waiting, token>>
    BY <1>6 DEF StartStage
  <2> HIDE DEF s
  <2>4. \A b \in busy : thread'[b] = "running"
    BY <2>1, <2>3 DEF Shape
  <2>5. thread' \in [Stages -> {"none", "running", "exited"}]
    BY <2>1, <2>3 DEF Shape
  <2>6. queue > 0 => thread'["publisher"] # "none"
    BY <2>1, <2>3 DEF Shape, Stages
  <2>7. QED
    BY <2>2, <2>3, <2>4, <2>5, <2>6 DEF Shape
<1>7. ASSUME NEW s \in Stages, BeginWork(s) \/ EndWork(s) PROVE Shape'
  <2>1. UNCHANGED <<main, failed, root, pipeline, start, flags, cancelled, thread,
                    dropped, stopper, waiting, token>>
    BY <1>7 DEF BeginWork, EndWork
  <2>2. busy' \subseteq Stages /\ \A b \in busy' : thread[b] = "running"
    BY <1>7 DEF BeginWork, EndWork, Shape
  <2>3. queue' \in 0..Capacity /\ (queue' # queue => thread["publisher"] = "running")
    BY <1>7, LifecycleAssumption DEF BeginWork, EndWork, Shape
  <2>4. queue' > 0 => thread["publisher"] # "none"
    BY <2>3 DEF Shape
  <2>5. QED
    BY <2>1, <2>2, <2>3, <2>4 DEF Shape
<1>8. CASE Pop \/ Delivered
  <2>1. UNCHANGED <<main, failed, root, pipeline, start, flags, cancelled, thread,
                    stopper, waiting, token>>
    BY <1>8 DEF Pop, Delivered
  <2>2. busy' \subseteq Stages /\ \A b \in busy' : thread[b] = "running"
    BY <1>8 DEF Pop, Delivered, Shape, Stages
  <2>3. queue' \in 0..Capacity /\ (queue' > 0 => queue > 0)
    BY <1>8, LifecycleAssumption DEF Pop, Delivered, Shape
  <2>4. dropped' \in BOOLEAN
    <3>1. Ended("workers") \in BOOLEAN
      BY DEF Ended, PipelineEnded, Shape
    <3>2. QED
      BY <1>8, <3>1 DEF Pop, Delivered, Shape
  <2>5. QED
    BY <2>1, <2>2, <2>3, <2>4 DEF Shape
<1>9. ASSUME NEW s \in Stages, Exit(s) PROVE Shape'
  BY <1>9 DEF Exit, Shape
<1>10. ASSUME NEW c \in Callers, StopReturns(c) \/ StopTimesOut(c) PROVE Shape'
  BY <1>10 DEF StopReturns, StopTimesOut, Shape
<1>11. CASE AwaitStart \/ FinishStop
  BY <1>11 DEF AwaitStart, FinishStop, Shape, StopRecord, FlagRecord
<1>12. CASE CancelStage \/ StopWorkers \/ JoinStage
  <2>1. /\ UNCHANGED <<main, failed, root, pipeline, start, flags, thread, busy, dropped,
                       waiting, token>>
        /\ queue' \in {queue, 0}
    BY <1>12 DEF CancelStage, StopWorkers, JoinStage
  <2>2. stopper.stage \in 1..5
    BY <1>12 DEF CancelStage, StopWorkers, JoinStage, Cleaning, Shape, StopRecord
  <2>3. NextStage \in StopRecord
    BY <2>2, NextStageShape
  <2>4. cancelled' \subseteq Stages
    BY <1>12, <2>2, StopOrderFacts DEF CancelStage, StopWorkers, JoinStage, Shape, Stages
  <2>5. stopper' \in StopRecord
    <3>1. CASE StopWorkers
      <4> DEFINE late == Pending > 0
      <4>1. late \in BOOLEAN
        OBVIOUS
      <4>2. stopper' = [stopper EXCEPT !.pc = "join", !.late = late]
        BY <3>1 DEF StopWorkers
      <4> HIDE DEF late
      <4>3. QED
        BY <4>1, <4>2 DEF Shape, StopRecord
    <3>2. CASE CancelStage \/ JoinStage
      BY <2>3, <3>2 DEF CancelStage, JoinStage, Shape, StopRecord
    <3>3. QED
      BY <1>12, <3>1, <3>2
  <2>6. queue' \in 0..Capacity /\ (queue' > 0 => queue > 0)
    BY <2>1, LifecycleAssumption DEF Shape
  <2>7. QED
    BY <2>1, <2>4, <2>5, <2>6 DEF Shape
<1>13. QED
  BY <1>1, <1>2, <1>3, <1>4, <1>5, <1>6, <1>7, <1>8, <1>9, <1>10, <1>11, <1>12
  DEF Next, RunStep, StartStep, StopStep, StageStep, Callers

-----------------------------------------------------------------------------
(* Start: which stages have been started.                                  *)

LEMMA InitStarting ==
  ASSUME Init
  PROVE  Starting
<1>1. /\ start = [pc |-> "idle", stage |-> 1, ok |-> FALSE]
      /\ flags = [starting |-> FALSE, started |-> FALSE, stopping |-> FALSE]
      /\ \A s \in Stages : thread[s] = "none"
  BY DEF Init
<1>2. \A i \in 1..Len(StartOrder) : thread[StartOrder[i]] = "none" /\ ~(i < 1)
  BY <1>1, StartOrderFacts
<1>3. 1 <= Len(StartOrder) + 1
  BY StartOrderFacts
<1>4. QED
  BY <1>1, <1>2, <1>3 DEF Starting, InStart

LEMMA StartingStep ==
  ASSUME Shape, Starting, Cleaning, [Next]_vars
  PROVE  Starting'
<1> USE DEF pool
<1>1. ASSUME UNCHANGED <<start, thread, flags>> PROVE Starting'
  BY <1>1 DEF Starting, StagesLeft
<1>2. ASSUME NEW s \in Stages, Exit(s) PROVE Starting'
  <2>1. UNCHANGED <<start, flags>> /\ \A x \in Stages : thread'[x] = "none" <=> thread[x] = "none"
    BY <1>2 DEF Exit, Shape
  <2>2. \A i \in 1..Len(StartOrder) : thread'[StartOrder[i]] # "none" <=> i < start.stage
    BY <2>1, StartOrderFacts DEF Starting
  <2>3. QED
    BY <2>1, <2>2 DEF Starting, StagesLeft
<1>3. ASSUME UNCHANGED <<start, thread>>, flags'.starting = flags.starting,
             flags'.started => flags.started
      PROVE  Starting'
  BY <1>3 DEF Starting, StagesLeft
<1>4. CASE StartFailed \/ ExporterFails \/ StopPipeline \/ OtherCallsStop
  <2>1. PICK c \in Callers : CallStop(c)
    BY <1>4 DEF StartFailed, ExporterFails, StopPipeline, OtherCallsStop, Callers
  <2>2. flags'.starting = flags.starting /\ flags'.started = flags.started
    BY <2>1 DEF CallStop, Shape, FlagRecord
  <2>3. UNCHANGED <<start, thread>>
    BY <1>4 DEF StartFailed, ExporterFails, StopPipeline, OtherCallsStop
  <2>4. QED
    BY <1>3, <2>2, <2>3
<1>5. CASE FinishStop
  BY <1>3, <1>5 DEF FinishStop, Shape, FlagRecord
<1>6. CASE BeginStart \/ RefreshFails \/ RefreshSucceeds \/ CheckStart \/ ReturnFromStart
  <2>1. thread' = thread /\ start'.stage = start.stage
    BY <1>6 DEF BeginStart, RefreshFails, RefreshSucceeds, CheckStart, ReturnFromStart,
       Shape, StartRecord
  <2>2. flags'.starting <=> start'.pc \in InStart
    BY <1>6 DEF BeginStart, RefreshFails, RefreshSucceeds, CheckStart, ReturnFromStart,
       FlagsAfterStart, Shape, StartRecord, FlagRecord, Starting, InStart
  <2>3. flags'.started => start'.ok /\ start'.pc = "returned"
    BY <1>6, ZenonT(60)
    DEF BeginStart, RefreshFails, RefreshSucceeds, CheckStart, ReturnFromStart,
       FlagsAfterStart, Shape, StartRecord, FlagRecord, Starting
  <2>4. start'.pc \in {"idle", "refresh"} => start.pc \in {"idle", "refresh"}
    BY <1>6 DEF BeginStart, RefreshFails, RefreshSucceeds, CheckStart, ReturnFromStart,
       Shape, StartRecord
  <2>5. start'.pc = "stage" => start.stage <= Len(StartOrder)
    <3>1. start.stage = 1 => start.stage <= Len(StartOrder)
      BY StartOrderFacts
    <3>2. start'.pc = "stage" => start.pc = "refresh" \/ StagesLeft
      BY <1>6 DEF BeginStart, RefreshFails, RefreshSucceeds, CheckStart, ReturnFromStart,
         Shape, StartRecord
    <3>3. QED
      BY <3>1, <3>2 DEF Starting, StagesLeft
  <2>6. start'.ok => start.stage = Len(StartOrder) + 1 /\ start'.pc \in {"return", "returned"}
    <3>1. ~StagesLeft => start.stage = Len(StartOrder) + 1
      BY StartOrderFacts DEF StagesLeft, Starting, Shape, StartRecord
    <3>2. start'.ok => (start.ok \/ ~StagesLeft) /\ start'.pc \in {"return", "returned"}
      BY <1>6, ZenonT(60)
      DEF BeginStart, RefreshFails, RefreshSucceeds, CheckStart, ReturnFromStart,
         Shape, StartRecord, Starting
    <3>3. QED
      BY <3>1, <3>2 DEF Starting
  <2>7. QED
    BY <2>1, <2>2, <2>3, <2>4, <2>5, <2>6 DEF Starting, StagesLeft
<1>7. CASE StartStage
  <2> DEFINE s == StartOrder[start.stage]
             n == start.stage
  <2>1. /\ start'.stage = n + 1 /\ start'.ok = start.ok /\ start.pc = "stage"
        /\ n \in 1..Len(StartOrder)
        /\ start'.pc = IF s = "workers" THEN "stage" ELSE "check"
    BY <1>7, StartStageMoves
  <2>2. /\ s \in Stages /\ Len(StartOrder) \in Nat
        /\ \A i \in 1..Len(StartOrder) : StartOrder[i] \in Stages /\ (StartOrder[i] = s => i = n)
        /\ s = "workers" => n < Len(StartOrder)
    BY <2>1, StartOrderFacts
  <2>3. thread' = [thread EXCEPT ![s] = "running"] /\ flags' = flags
    BY <1>7 DEF StartStage
  <2>4. s = StartOrder[n] /\ n = start.stage
    OBVIOUS
  <2> HIDE DEF s, n
  <2>5. \A x \in Stages : thread'[x] = IF x = s THEN "running" ELSE thread[x]
    BY <2>2, <2>3 DEF Shape
  <2>6. \A i \in 1..Len(StartOrder) : thread'[StartOrder[i]] # "none" <=> i < n + 1
    <3> SUFFICES ASSUME NEW i \in 1..Len(StartOrder)
                 PROVE  thread'[StartOrder[i]] # "none" <=> i < n + 1
      OBVIOUS
    <3>1. CASE i = n
      BY <2>1, <2>4, <2>5, <2>2, <3>1
    <3>2. CASE i # n
      <4>1. thread'[StartOrder[i]] = thread[StartOrder[i]]
        BY <2>2, <2>5, <3>2
      <4>2. thread[StartOrder[i]] # "none" <=> i < n
        BY <2>4 DEF Starting
      <4>3. QED
        BY <2>1, <2>2, <3>2, <4>1, <4>2
    <3>3. QED
      BY <3>1, <3>2
  <2>7. \A x \in Stages : thread'[x] # "none" => \E i \in 1..Len(StartOrder) : x = StartOrder[i]
    BY <2>1, <2>4, <2>5 DEF Starting
  <2>8. /\ n + 1 <= Len(StartOrder) + 1 /\ ~start.ok /\ start.pc \in InStart
        /\ start'.pc \in InStart /\ start'.pc \notin {"idle", "refresh"}
        /\ start'.pc = "stage" => n + 1 <= Len(StartOrder)
    BY <2>1, <2>2 DEF Starting, InStart
  <2>9. QED
    BY <2>1, <2>3, <2>4, <2>6, <2>7, <2>8 DEF Starting, StagesLeft
<1>8. \/ UNCHANGED <<start, thread, flags>>
      \/ \E s \in Stages : Exit(s)
      \/ StartFailed \/ ExporterFails \/ StopPipeline \/ OtherCallsStop \/ FinishStop
      \/ BeginStart \/ RefreshFails \/ RefreshSucceeds \/ CheckStart \/ ReturnFromStart
      \/ StartStage
  <2>1. RunStep => \/ UNCHANGED <<start, thread, flags>>
                   \/ StartFailed \/ ExporterFails \/ StopPipeline
    BY DEF RunStep, LoginFails, LoginSucceeds, LeaveEarly, CreateFails, RegisterFails, Serve,
       StopToken, ShutDown, ExitProcess, StopReturns
  <2>2. StopStep => UNCHANGED <<start, thread, flags>> \/ FinishStop
    BY DEF StopStep, AwaitStart, CancelStage, StopWorkers, JoinStage
  <2>3. ASSUME NEW s \in Stages, StageStep(s) \/ BeginWork(s)
        PROVE  UNCHANGED <<start, thread, flags>> \/ Exit(s)
    BY <2>3 DEF StageStep, BeginWork, EndWork, Pop, Delivered
  <2>4. ASSUME NEW c \in Callers, StopReturns(c) \/ StopTimesOut(c)
        PROVE  UNCHANGED <<start, thread, flags>>
    BY <2>4 DEF StopReturns, StopTimesOut
  <2>5. ExitToken \/ Signal \/ ShutDown \/ ExitProcess \/ UNCHANGED vars
          => UNCHANGED <<start, thread, flags>>
    BY DEF ExitToken, Signal, ShutDown, ExitProcess, vars
  <2>6. QED
    BY <2>1, <2>2, <2>3, <2>4, <2>5 DEF Next, StartStep
<1>9. QED
  BY <1>1, <1>2, <1>4, <1>5, <1>6, <1>7, <1>8

-----------------------------------------------------------------------------
(* The cleanup: what it has passed does not run.                           *)

LEMMA InitCleaning ==
  ASSUME Init
  PROVE  Cleaning
BY DEF Init, Cleaning

\* Its own steps, from one stage to the next.
LEMMA StageStepCleaning ==
  ASSUME Shape, Starting, Cleaning, CancelStage \/ StopWorkers \/ JoinStage
  PROVE  Cleaning'
<1> DEFINE n == stopper.stage
           s == StopOrder[n]
<1>1. /\ UNCHANGED <<start, flags, thread, waiting>> /\ queue' \in {queue, 0}
      /\ stopper.pc \in {"cancel", "join"}
  BY DEF CancelStage, StopWorkers, JoinStage, pool
<1>2. n \in 1..5 /\ s \in Stages /\ (n # 2 => s # "workers") /\ s = StopOrder[n]
      /\ StopOrder[1] = "publisher" /\ StopOrder[2] = "workers"
  BY <1>1, StopOrderFacts DEF Cleaning, Shape, StopRecord
<1>3. /\ NextStage.stage = n + 1 /\ NextStage.pc = IF n < 5 THEN "cancel" ELSE "finish"
  BY <1>2, NextStageShape
<1>4. n = stopper.stage
  OBVIOUS
<1> HIDE DEF n, s
<1>5. ASSUME stopper'.stage = n, stopper'.pc = "join",
             n > 2 \/ n = 2 => queue' = 0
      PROVE  Cleaning'
  BY <1>1, <1>2, <1>4, <1>5 DEF Cleaning
<1>6. ASSUME stopper' = NextStage, thread[s] # "running", n >= 2 => queue' = 0
      PROVE  Cleaning'
  <2>1. stopper'.stage = n + 1 /\ stopper'.pc = IF n < 5 THEN "cancel" ELSE "finish"
    BY <1>3, <1>6
  <2>2. \A j \in 1..5 : j < n + 1 => thread[StopOrder[j]] # "running"
    <3> SUFFICES ASSUME NEW j \in 1..5, j < n + 1
                 PROVE  thread[StopOrder[j]] # "running"
      OBVIOUS
    <3>1. CASE j = n
      BY <1>2, <1>6, <3>1
    <3>2. CASE j # n
      <4>1. j < n
        BY <1>2, <3>2
      <4>2. QED
        BY <1>4, <4>1 DEF Cleaning
    <3>3. QED
      BY <3>1, <3>2
  <2>3. stopper'.pc \in {"finish", "done"} <=> stopper'.stage = 6
    BY <1>2, <2>1
  <2>4. stopper'.stage > 2 \/ (stopper'.stage = 2 /\ stopper'.pc = "join") => queue' = 0
    <3>1. CASE n >= 2
      BY <1>6, <3>1
    <3>2. CASE n = 1
      BY <2>1, <3>2
    <3>3. QED
      BY <1>2, <3>1, <3>2
  <2>5. stopper'.pc \notin {"none", "waitStart", "done"} /\ flags.stopping
    BY <1>1, <2>1 DEF Cleaning
  <2>6. start.pc \in {"idle", "returned"} /\ \A c \in Callers : waiting[c] # "stopped"
    BY <1>1 DEF Cleaning
  <2>7. QED
    BY <1>1, <2>1, <2>2, <2>3, <2>4, <2>5, <2>6 DEF Cleaning
<1>7. CASE StopWorkers
  <2> DEFINE late == Pending > 0
  <2>1. stopper' = [stopper EXCEPT !.pc = "join", !.late = late] /\ queue' = 0
    BY <1>7 DEF StopWorkers
  <2> HIDE DEF late
  <2>2. stopper'.stage = n /\ stopper'.pc = "join"
    BY <1>4, <2>1 DEF Shape, StopRecord
  <2>3. QED
    BY <1>5, <2>1, <2>2
<1>8. CASE CancelStage /\ thread[s] = "none"
  <2>1. stopper' = NextStage /\ queue' = queue
    BY <1>8 DEF CancelStage, n, s
  <2>2. n >= 2 => queue = 0
    <3>1. CASE n = 2
      <4>1. thread["workers"] = "none"
        BY <1>2, <1>8, <3>1
      <4>2. QED
        BY <4>1, WorkersFirst
    <3>2. CASE n > 2
      BY <1>4, <3>2 DEF Cleaning
    <3>3. QED
      BY <1>2, <3>1, <3>2
  <2>3. QED
    BY <1>6, <1>8, <2>1, <2>2
<1>9. CASE CancelStage /\ thread[s] # "none"
  <2>1. /\ stopper' = [stopper EXCEPT !.pc = "join"] /\ queue' = queue /\ s # "workers"
    BY <1>9 DEF CancelStage, n, s
  <2>2. stopper'.stage = n /\ stopper'.pc = "join"
    BY <1>4, <2>1 DEF Shape, StopRecord
  <2>3. n # 2
    BY <1>2, <2>1
  <2>4. n > 2 => queue = 0
    BY <1>4 DEF Cleaning
  <2>5. QED
    BY <1>2, <1>5, <2>1, <2>2, <2>3, <2>4
<1>10. CASE JoinStage
  <2>1. stopper' = NextStage /\ queue' = queue /\ stopper.pc = "join" /\ thread[s] = "exited"
    BY <1>10 DEF JoinStage, Joined, pool, n, s
  <2>2. n >= 2 => queue = 0
    BY <1>2, <1>4, <2>1 DEF Cleaning
  <2>3. QED
    BY <1>6, <2>1, <2>2
<1>11. QED
  BY <1>7, <1>8, <1>9, <1>10

LEMMA CleaningStep ==
  ASSUME Shape, Starting, Cleaning, [Next]_vars
  PROVE  Cleaning'
<1> USE DEF pool
\* Nothing that the cleanup has passed is started again, and nothing is queued
\* behind its back.
<1>1. ASSUME UNCHANGED <<start, flags, stopper, waiting>>,
             \A s \in Stages : thread'[s] = "running" => thread[s] = "running",
             stopper.stage > 1 => queue' <= queue
      PROVE  Cleaning'
  <2>1. queue \in Nat /\ queue' \in Nat
    <3>1. queue' \in 0..Capacity
      BY ShapeStep DEF Shape
    <3>2. QED
      BY <3>1, LifecycleAssumption DEF Shape
  <2>2. \A j \in 1..5 : j < stopper.stage => thread'[StopOrder[j]] # "running"
    BY <1>1, StopOrderFacts DEF Cleaning
  <2>3. stopper.stage > 2 \/ (stopper.stage = 2 /\ stopper.pc = "join") => queue' = 0
    <3>1. stopper.stage > 2 \/ (stopper.stage = 2 /\ stopper.pc = "join") =>
            stopper.stage > 1 /\ queue = 0
      BY DEF Cleaning, Shape, StopRecord
    <3>2. QED
      BY <1>1, <2>1, <3>1
  <2>4. QED
    BY <1>1, <2>2, <2>3 DEF Cleaning
<1>2. ASSUME UNCHANGED <<start, flags, stopper, waiting, thread, queue>> PROVE Cleaning'
  BY <1>2 DEF Cleaning
<1>3. ASSUME NEW s \in Stages, StageStep(s) \/ BeginWork(s) PROVE Cleaning'
  <2>1. UNCHANGED <<start, flags, stopper, waiting>>
    BY <1>3 DEF StageStep, BeginWork, EndWork, Pop, Delivered, Exit
  <2>2. \A x \in Stages : thread'[x] = "running" => thread[x] = "running"
    BY <1>3 DEF StageStep, BeginWork, EndWork, Pop, Delivered, Exit, Shape
  <2>3. stopper.stage > 1 => queue' <= queue
    <3>1. stopper.stage > 1 => "publisher" \notin busy
      BY StopOrderFacts DEF Cleaning, Shape
    <3>2. queue \in Nat
      BY LifecycleAssumption DEF Shape
    <3>3. "publisher" \notin busy => queue' \in {queue, queue - 1}
      BY <1>3, <3>2 DEF StageStep, BeginWork, EndWork, Pop, Delivered, Exit
    <3>4. QED
      BY <3>1, <3>2, <3>3
  <2>4. QED
    BY <1>1, <2>1, <2>2, <2>3
<1>4. CASE StartStage
  <2>1. UNCHANGED <<flags, stopper, waiting, queue>> /\ start.pc = "stage"
    BY <1>4 DEF StartStage
  <2>2. stopper.pc \in {"none", "waitStart"} /\ stopper.stage = 1
    BY <2>1 DEF Cleaning, Shape, StopRecord
  <2>3. QED
    BY <2>1, <2>2 DEF Cleaning
<1>5. CASE BeginStart \/ RefreshFails \/ RefreshSucceeds \/ CheckStart \/ ReturnFromStart
  <2>1. UNCHANGED <<thread, queue, waiting>> /\ stopper'.stage = stopper.stage
    BY <1>5 DEF BeginStart, RefreshFails, RefreshSucceeds, CheckStart, ReturnFromStart,
       Shape, StopRecord
  <2>2. /\ flags'.stopping <=> stopper'.pc # "none"
        /\ flags.stopping => flags'.stopping
    BY <1>5 DEF BeginStart, RefreshFails, RefreshSucceeds, CheckStart, ReturnFromStart,
       FlagsAfterStart, Shape, StopRecord, FlagRecord, Cleaning
  <2>3. stopper'.pc \notin {"none", "waitStart"} =>
          start'.pc \in {"idle", "returned"} /\ stopper' = stopper
    BY <1>5 DEF BeginStart, RefreshFails, RefreshSucceeds, CheckStart, ReturnFromStart,
       Shape, StopRecord, StartRecord, Cleaning
  <2>4. stopper'.pc \in {"none", "waitStart"} =>
          stopper.stage = 1 /\ stopper.pc \in {"none", "waitStart"}
    BY <1>5 DEF BeginStart, RefreshFails, RefreshSucceeds, CheckStart, ReturnFromStart,
       Shape, StopRecord, Cleaning
  <2>5. CASE stopper'.pc \in {"none", "waitStart"}
    BY <2>1, <2>2, <2>4, <2>5 DEF Cleaning
  <2>6. CASE stopper'.pc \notin {"none", "waitStart"}
    BY <2>1, <2>2, <2>3, <2>6 DEF Cleaning
  <2>7. QED
    BY <2>5, <2>6
<1>6. CASE StartFailed \/ ExporterFails \/ StopPipeline \/ OtherCallsStop
  <2>1. PICK c \in Callers : CallStop(c)
    BY <1>6 DEF StartFailed, ExporterFails, StopPipeline, OtherCallsStop, Callers
  <2>2. UNCHANGED <<start, thread, queue>>
    BY <1>6 DEF StartFailed, ExporterFails, StopPipeline, OtherCallsStop
  <2>3. waiting' = [waiting EXCEPT ![c] = "yes"] /\ flags'.stopping
    BY <2>1 DEF CallStop, Shape, FlagRecord
  <2>4. /\ stopper'.stage = stopper.stage /\ stopper'.pc # "none"
        /\ stopper' = stopper \/ /\ stopper.pc = "none" /\ stopper.stage = 1
                                 /\ stopper'.pc \in {"cancel", "waitStart"}
                                 /\ stopper'.pc = "cancel" => start.pc = "idle"
    BY <2>1 DEF CallStop, Shape, StopRecord, Cleaning
  <2>5. \A d \in Callers : waiting'[d] = "stopped" => waiting[d] = "stopped"
    BY <2>3 DEF Shape
  <2>6. CASE stopper' = stopper
    BY <2>2, <2>3, <2>4, <2>5, <2>6 DEF Cleaning
  <2>7. CASE stopper' # stopper
    BY <2>2, <2>3, <2>4, <2>5, <2>7 DEF Cleaning
  <2>8. QED
    BY <2>6, <2>7
<1>7. CASE AwaitStart
  <2>1. /\ UNCHANGED <<start, thread, queue, flags, waiting>> /\ stopper.pc = "waitStart"
        /\ stopper'.pc = "cancel" /\ stopper'.stage = stopper.stage /\ start.pc = "returned"
    BY <1>7 DEF AwaitStart, StartIsOver, Shape, StopRecord
  <2>2. QED
    BY <2>1 DEF Cleaning
<1>8. CASE FinishStop
  <2>1. /\ UNCHANGED <<start, thread, queue, waiting>> /\ stopper.pc = "finish"
        /\ stopper'.pc = "done" /\ stopper'.stage = stopper.stage
        /\ flags'.stopping = flags.stopping
    BY <1>8 DEF FinishStop, Shape, StopRecord, FlagRecord
  <2>2. QED
    BY <2>1 DEF Cleaning
<1>9. ASSUME NEW c \in Callers, StopReturns(c) \/ StopTimesOut(c) PROVE Cleaning'
  <2>1. /\ UNCHANGED <<start, flags, stopper, thread, queue>>
        /\ waiting[c] # "no"
        /\ \A d \in Callers : d # c => waiting'[d] = waiting[d]
        /\ waiting'[c] = "stopped" => stopper.pc = "done"
    BY <1>9 DEF StopReturns, StopTimesOut, Shape
  <2>2. QED
    BY <2>1 DEF Cleaning
<1>10. CASE CancelStage \/ StopWorkers \/ JoinStage
  BY <1>10, StageStepCleaning
<1>11. RunStep \/ ExitToken \/ Signal \/ ShutDown \/ ExitProcess \/ UNCHANGED vars =>
         \/ UNCHANGED <<start, flags, stopper, waiting, thread, queue>>
         \/ StartFailed \/ ExporterFails \/ StopPipeline \/ StopReturns("run")
  BY DEF RunStep, LoginFails, LoginSucceeds, LeaveEarly, CreateFails, RegisterFails, Serve,
     StopToken, ShutDown, ExitProcess, ExitToken, Signal, vars
<1>12. "run" \in Callers
  BY DEF Callers
<1>13. QED
  BY <1>2, <1>3, <1>4, <1>5, <1>6, <1>7, <1>8, <1>9, <1>10, <1>11, <1>12
  DEF Next, StartStep, StopStep

-----------------------------------------------------------------------------
(* run: how it ends.                                                       *)

LEMMA InitLeaving ==
  ASSUME Init
  PROVE  Leaving
BY DEF Init, Leaving, InStart

LEMMA LeavingStep ==
  ASSUME Shape, Starting, Cleaning, Leaving, [Next]_vars
  PROVE  Leaving'
<1> USE DEF pool
\* Once the cleanup is done it stays so.
<1>1. ASSUME UNCHANGED <<main, failed, token, start>>, stopper.pc = "done" => stopper'.pc = "done",
             flags.stopping => flags'.stopping
      PROVE  Leaving'
  BY <1>1 DEF Leaving
<1>2. CASE \/ LoginFails \/ LoginSucceeds \/ LeaveEarly \/ CreateFails
            \/ RegisterFails \/ Serve \/ ShutDown
  <2> USE DEF LoginFails, LoginSucceeds, LeaveEarly, CreateFails, RegisterFails, Serve,
              ShutDown
  <2>1. UNCHANGED <<start, stopper, flags>> /\ main \in {"login", "start", "serving"}
    BY <1>2
  <2>2. /\ main' = "login" => FALSE
        /\ start.pc \in InStart => main' = "start"
        /\ main' \in {"serving", "http", "stopping"} => start.pc = "returned"
        /\ main' \in {"token", "exited"} => start.pc = "idle"
    BY <1>2 DEF Leaving, InStart
  <2>3. main' = "exited" => token'.thread = "none"
    BY <1>2 DEF Leaving
  <2>4. main' = "token" => token'.cancelled
    BY <1>2 DEF Shape, TokenRecord
  <2>5. QED
    BY <2>1, <2>2, <2>3, <2>4 DEF Leaving
<1>3. CASE StopToken
  <2>1. /\ UNCHANGED <<start, stopper, flags>> /\ main' = "token" /\ start.pc = "returned"
    BY <1>3 DEF StopToken, Leaving
  <2>2. (~failed' => stopper.pc = "done") /\ flags.stopping
    BY <1>3 DEF StopToken, Cleaning, Callers
  <2>3. start.pc \notin InStart
    BY <2>1 DEF InStart
  <2>4. token'.cancelled
    BY <1>3 DEF StopToken, Shape, TokenRecord
  <2>5. QED
    BY <2>1, <2>2, <2>3, <2>4 DEF Leaving
<1>4. CASE ExitProcess
  <2>1. /\ UNCHANGED <<start, stopper, token, flags>> /\ main = "token" /\ main' = "exited"
        /\ ~failed' => ~failed /\ token.thread = "exited"
    BY <1>4 DEF ExitProcess
  <2>2. QED
    BY <2>1 DEF Leaving
<1>5. CASE StartFailed \/ ExporterFails \/ StopPipeline \/ OtherCallsStop
  <2>1. PICK c \in Callers : CallStop(c)
    BY <1>5 DEF StartFailed, ExporterFails, StopPipeline, OtherCallsStop, Callers
  <2>2. (stopper.pc = "done" => stopper'.pc = "done") /\ flags'.stopping
    BY <2>1 DEF CallStop, Cleaning, Shape, FlagRecord
  <2>3. UNCHANGED <<start, token>>
    BY <1>5 DEF StartFailed, ExporterFails, StopPipeline, OtherCallsStop
  <2>4. CASE OtherCallsStop
    BY <1>1, <2>2, <2>3, <2>4 DEF OtherCallsStop
  <2>5. CASE StartFailed \/ ExporterFails \/ StopPipeline
    <3>1. main' = "stopping" /\ start.pc = "returned" /\ start.pc \notin InStart
      BY <2>5 DEF StartFailed, ExporterFails, StopPipeline, Leaving, InStart
    <3>2. QED
      BY <2>3, <3>1 DEF Leaving
  <2>6. QED
    BY <1>5, <2>4, <2>5
<1>6. CASE StartStep
  <2>1. /\ UNCHANGED <<main, failed, token>>
        /\ start.pc \in InStart \/ (main = "start" /\ start.pc = "idle")
    BY <1>6 DEF StartStep, BeginStart, RefreshFails, RefreshSucceeds, StartStage, CheckStart,
       ReturnFromStart, InStart
  <2>2. main = "start"
    BY <2>1 DEF Leaving
  <2>3. QED
    BY <2>1, <2>2 DEF Leaving
<1>7. CASE StopStep
  <2>1. /\ UNCHANGED <<main, failed, token, start>> /\ stopper.pc # "done"
        /\ flags'.stopping = flags.stopping
    BY <1>7 DEF StopStep, AwaitStart, CancelStage, StopWorkers, JoinStage, FinishStop, Shape,
       FlagRecord
  <2>2. QED
    BY <1>1, <2>1
<1>8. CASE ExitToken
  BY <1>8 DEF ExitToken, Leaving, Shape, TokenRecord
<1>9. ASSUME NEW s \in Stages, StageStep(s) \/ BeginWork(s) PROVE Leaving'
  <2>1. UNCHANGED <<main, failed, token, start, stopper, flags>>
    BY <1>9 DEF StageStep, BeginWork, EndWork, Pop, Delivered, Exit
  <2>2. QED
    BY <1>1, <2>1
<1>10. ASSUME NEW c \in Callers, StopReturns(c) \/ StopTimesOut(c) PROVE Leaving'
  BY <1>1, <1>10 DEF StopReturns, StopTimesOut
<1>11. CASE Signal \/ UNCHANGED vars
  BY <1>1, <1>11 DEF Signal, vars
<1>12. "run" \in Callers
  BY DEF Callers
<1>13. QED
  BY <1>2, <1>3, <1>4, <1>5, <1>6, <1>7, <1>8, <1>9, <1>10, <1>11, <1>12 DEF Next, RunStep

-----------------------------------------------------------------------------
(* The theorems.                                                           *)

LEMMA Invariance ==
  Spec => []IInv
<1>1. Init => IInv
  BY InitShape, InitStarting, InitCleaning, InitLeaving DEF IInv
<1>2. IInv /\ [Next]_vars => IInv'
  BY ShapeStep, StartingStep, CleaningStep, LeavingStep DEF IInv
<1>3. QED
  BY <1>1, <1>2, PTL DEF Spec

\* The types, and that Ready (scheduled.go) answers "started" only when every stage
\* of the configuration was started and Start is over.
THEOREM LifecycleTypeOK ==
  Spec => []TypeOK
<1>1. IInv => TypeOK
  <2> SUFFICES ASSUME IInv PROVE TypeOK
    OBVIOUS
  <2>1. /\ flags \in [{"starting", "started", "stopping"} -> BOOLEAN]
    BY DEF IInv, Shape, FlagRecord
  <2>2. start.stage \in 1..(Len(StartOrder) + 1)
    BY StartOrderFacts DEF IInv, Shape, Starting, StartRecord
  <2>3. ~(flags.starting /\ flags.started)
    BY DEF IInv, Starting, InStart
  <2>4. flags.started => \A i \in DOMAIN StartOrder : thread[StartOrder[i]] # "none"
    <3>1. DOMAIN StartOrder = 1..Len(StartOrder)
      <4>1. CASE PushEnabled
        <5>1. StartOrder = <<"metadata", "scheduler", "expiry", "workers", "publisher">>
          BY <4>1 DEF StartOrder
        <5>2. DOMAIN StartOrder = 1..5 /\ Len(StartOrder) = 5
          BY <5>1
        <5>3. QED
          BY <5>2
      <4>2. CASE ~PushEnabled
        <5>1. StartOrder = <<"metadata", "scheduler", "expiry">>
          BY <4>2 DEF StartOrder
        <5>2. DOMAIN StartOrder = 1..3 /\ Len(StartOrder) = 3
          BY <5>1
        <5>3. QED
          BY <5>2
      <4>3. QED
        BY <4>1, <4>2
    <3>2. \A i \in 1..Len(StartOrder) : i < Len(StartOrder) + 1
      BY StartOrderFacts
    <3>3. QED
      BY <3>1, <3>2 DEF IInv, Starting
  <2>5. busy \subseteq {s \in Stages : thread[s] = "running"}
    BY DEF IInv, Shape
  <2>6. QED
    BY <2>1, <2>2, <2>3, <2>4, <2>5
    DEF TypeOK, IInv, Shape, MainPlace, StartRecord, StopRecord, TokenRecord
<1>2. QED
  BY <1>1, Invariance, PTL

\* finishStop (scheduled.go): when the cleanup says it is done no goroutine of the
\* pipeline runs, Start can start no other one, and the publisher's queue is empty,
\* whatever Start had got to when Stop or the signal came.
THEOREM LifecycleStopHonest ==
  Spec => []StopHonest
<1>1. IInv => StopHonest
  <2> SUFFICES ASSUME IInv, stopper.pc = "done" PROVE StopHonest
    BY DEF StopHonest
  <2>1. /\ \A s \in Stages : thread[s] # "running"
        /\ busy = {} /\ queue = 0
    BY DoneRunsNothing DEF IInv
  <2>2. start.pc \in {"idle", "returned"}
    BY DEF IInv, Cleaning
  <2>3. ~flags.starting /\ start.pc \notin {"stage", "check"}
    BY <2>2 DEF IInv, Starting, InStart
  <2>4. Running = {} /\ Pending = 0
    BY <2>1 DEF Running, Pending
  <2>5. QED
    BY <2>3, <2>4 DEF StopHonest
<1>2. QED
  BY <1>1, Invariance, PTL

\* server.run leaves nothing behind, in every execution: it returns without an error only
\* when the pipeline and the token manager are gone and no batch is left, and with one only
\* after it has told both to stop, whichever of its steps failed (main.go:84-162).  The exit
\* after a failed registration (main.go:119-121) is excepted: it stops nothing.
THEOREM LifecycleCleanExit ==
  Spec => []CleanExit
<1>1. IInv => CleanExit
  <2> SUFFICES ASSUME IInv, main = "exited"
               PROVE  /\ ~failed => Running = {} /\ Pending = 0 /\ token.thread # "running"
                      /\ token.thread # "none" => token.cancelled
                      /\ start.pc # "idle" => flags.stopping
    BY DEF CleanExit
  <2>1. /\ token.thread # "none" => token.cancelled
        /\ start.pc # "idle" => flags.stopping
        /\ ~failed => token.thread # "running" /\ (start.pc = "idle" \/ stopper.pc = "done")
    BY DEF IInv, Leaving
  <2>2. CASE stopper.pc = "done"
    <3>1. /\ \A s \in Stages : thread[s] # "running"
          /\ busy = {} /\ queue = 0
      BY <2>2, DoneRunsNothing DEF IInv
    <3>2. Running = {} /\ Pending = 0
      BY <3>1 DEF Running, Pending
    <3>3. QED
      BY <2>1, <3>2
  <2>3. CASE start.pc = "idle"
    <3>1. \A s \in Stages : thread[s] = "none"
      BY <2>3, IdleRunsNothing DEF IInv
    <3>2. busy = {} /\ queue = 0
      <4>1. "publisher" \in Stages
        BY DEF Stages
      <4>2. queue \in Nat
        BY LifecycleAssumption DEF IInv, Shape
      <4>3. QED
        BY <3>1, <4>1, <4>2 DEF IInv, Shape
    <3>3. Running = {} /\ Pending = 0
      BY <3>1, <3>2 DEF Running, Pending
    <3>4. QED
      BY <2>1, <3>3
  <2>4. QED
    BY <2>1, <2>2, <2>3
<1>2. QED
  BY <1>1, Invariance, PTL

-----------------------------------------------------------------------------
(* Nobody waits in vain: the safe half of SignalEndsRun.                   *)

\* finishStop: what it joins was started and its context has been ended, with
\* nothing left in the queue the workers would go on with; and it waits for a Start
\* that is over or whose context has been ended.
StopperAwaits ==
  /\ stopper.pc = "join" =>
       LET s == StopOrder[stopper.stage]
       IN s \in cancelled /\ thread[s] # "none" /\ (s = "workers" => queue = 0)
  /\ stopper.pc = "waitStart" =>
       start.pc = "returned" \/ (start.pc \in InStart /\ PipelineEnded)

\* run and the other caller: a Stop is awaited only when a cleanup has begun, the
\* token manager only when its context has been ended, and run calls Stop once.
CallersAwait ==
  /\ \A c \in Callers : waiting[c] = "yes" => stopper.pc # "none"
  /\ main \in {"login", "start", "serving", "http"} => waiting["run"] = "no"
  /\ main = "stopping" => waiting["run"] # "no"
  /\ main = "token" => token.cancelled

LEMMA InitAwaits == Init => StopperAwaits /\ CallersAwait
BY DEF Init, StopperAwaits, CallersAwait, Callers

\* A step that leaves the cleanup where it is, takes back no cancellation and stops
\* no stage from having been started.
LEMMA StopperWaitsOn ==
  ASSUME IInv, StopperAwaits, UNCHANGED stopper, cancelled \subseteq cancelled',
         \A s \in Stages : thread[s] # "none" => thread'[s] # "none",
         stopper.pc = "join" /\ queue = 0 => queue' = 0,
         PipelineEnded => PipelineEnded',
         start.pc \in InStart => start'.pc \in InStart \cup {"returned"},
         start.pc = "returned" => start'.pc = "returned"
  PROVE  StopperAwaits'
<1>1. CASE stopper.pc = "join"
  <2> DEFINE s == StopOrder[stopper.stage]
  <2>1. stopper.stage \in 1..5
    BY <1>1 DEF IInv, Shape, StopRecord, Cleaning
  <2>2. s \in Stages
    BY <2>1, StopOrderFacts
  <2>3. s \in cancelled /\ thread[s] # "none" /\ (s = "workers" => queue = 0)
    BY <1>1 DEF StopperAwaits
  <2>4. s \in cancelled' /\ thread'[s] # "none" /\ (s = "workers" => queue' = 0)
    BY <1>1, <2>2, <2>3
  <2>5. QED
    BY <1>1, <2>4 DEF StopperAwaits
<1>2. CASE stopper.pc # "join"
  BY <1>2 DEF StopperAwaits
<1>3. QED
  BY <1>1, <1>2

LEMMA StopperAwaitsStep ==
  ASSUME IInv, StopperAwaits, [Next]_vars
  PROVE  StopperAwaits'
<1>1. CASE RunStep \/ ShutDown \/ OtherCallsStop \/ ExitProcess
  <2>1. CASE StartFailed \/ ExporterFails \/ StopPipeline \/ OtherCallsStop
    <3>1. PICK c \in Callers : CallStop(c)
      BY <2>1 DEF StartFailed, ExporterFails, StopPipeline, OtherCallsStop, Callers
    <3>2. UNCHANGED <<start, cancelled, thread, queue, root>>
      BY <2>1 DEF StartFailed, ExporterFails, StopPipeline, OtherCallsStop, pool
    <3>3. CASE flags.stopping
      <4>1. UNCHANGED <<stopper, pipeline>>
        BY <3>1, <3>3 DEF CallStop
      <4>2. QED
        BY <3>2, <4>1, StopperWaitsOn DEF PipelineEnded
    <3>4. CASE ~flags.stopping
      <4>1. /\ stopper'.pc \in {"cancel", "waitStart"}
            /\ stopper'.pc = "waitStart" => start.pc # "idle"
            /\ flags.starting => pipeline'
        BY <3>1, <3>4 DEF CallStop, IInv, Shape, StopRecord
      <4>2. start.pc \in InStart => flags.starting
        BY DEF IInv, Starting
      <4>3. start.pc \in InStart \cup {"idle", "returned"}
        BY DEF IInv, Shape, StartRecord, InStart
      <4>4. QED
        BY <3>2, <4>1, <4>2, <4>3 DEF StopperAwaits, PipelineEnded
    <3>5. QED
      BY <3>3, <3>4
  <2>2. CASE ~(StartFailed \/ ExporterFails \/ StopPipeline \/ OtherCallsStop)
    <3>1. UNCHANGED <<stopper, start, cancelled, thread, queue, root, pipeline>>
      BY <1>1, <2>2 DEF RunStep, LoginFails, LoginSucceeds, LeaveEarly, CreateFails,
         RegisterFails, Serve, StopToken, ShutDown, ExitProcess, StopReturns, pool
    <3>2. QED
      BY <3>1, StopperWaitsOn DEF PipelineEnded
  <2>3. QED
    BY <2>1, <2>2
<1>2. CASE StartStep
  <2>1. CASE CheckStart /\ PipelineEnded /\ ~flags.stopping
    <3>1. start'.pc = "return" /\ pipeline' /\ stopper'.pc = "waitStart"
      BY <2>1 DEF CheckStart, IInv, Shape, StartRecord, StopRecord
    <3>2. QED
      BY <3>1 DEF StopperAwaits, InStart, PipelineEnded
  <2>2. CASE ~(CheckStart /\ PipelineEnded /\ ~flags.stopping)
    <3>1. /\ UNCHANGED <<stopper, cancelled, queue, root>> /\ (pipeline => pipeline')
          /\ start.pc \notin {"returned"}
          /\ start.pc \in InStart => start'.pc \in InStart \cup {"returned"}
      BY <1>2, <2>2 DEF StartStep, BeginStart, RefreshFails, RefreshSucceeds, StartStage,
         CheckStart, ReturnFromStart, InStart, pool, IInv, Shape, StartRecord
    <3>2. \A s \in Stages : thread[s] # "none" => thread'[s] # "none"
      BY <1>2 DEF StartStep, BeginStart, RefreshFails, RefreshSucceeds, StartStage,
         CheckStart, ReturnFromStart, pool, IInv, Shape
    <3>3. QED
      BY <3>1, <3>2, StopperWaitsOn DEF PipelineEnded
  <2>3. QED
    BY <2>1, <2>2
<1>3. CASE StopStep
  <2>1. CASE AwaitStart \/ JoinStage \/ FinishStop
    <3>1. stopper'.pc \in {"cancel", "finish", "done"}
      BY <2>1 DEF AwaitStart, JoinStage, FinishStop, NextStage, IInv, Shape, StopRecord
    <3>2. QED
      BY <3>1 DEF StopperAwaits
  <2>2. CASE StopWorkers
    <3>1. /\ stopper'.pc = "join" /\ stopper'.stage = stopper.stage
          /\ StopOrder[stopper.stage] = "workers" /\ thread["workers"] # "none"
          /\ "workers" \in cancelled' /\ queue' = 0 /\ thread' = thread
      BY <2>2 DEF StopWorkers, IInv, Shape, StopRecord
    <3>2. QED
      BY <3>1 DEF StopperAwaits
  <2>3. CASE CancelStage
    <3> DEFINE s == StopOrder[stopper.stage]
    <3>1. CASE thread[s] = "none"
      <4>1. stopper'.pc \in {"cancel", "finish"}
        BY <2>3, <3>1 DEF CancelStage, NextStage, IInv, Shape, StopRecord
      <4>2. QED
        BY <4>1 DEF StopperAwaits
    <3>2. CASE thread[s] # "none"
      <4>1. /\ stopper'.pc = "join" /\ stopper'.stage = stopper.stage
            /\ s # "workers" /\ s \in cancelled' /\ thread' = thread
        BY <2>3, <3>2 DEF CancelStage, IInv, Shape, StopRecord
      <4>2. QED
        BY <3>2, <4>1 DEF StopperAwaits
    <3>3. QED
      BY <3>1, <3>2
  <2>4. QED
    BY <1>3, <2>1, <2>2, <2>3 DEF StopStep
<1>4. ASSUME NEW s \in Stages, StageStep(s) \/ BeginWork(s) PROVE StopperAwaits'
  <2>1. /\ UNCHANGED <<stopper, start, cancelled, root, pipeline>>
        /\ \A t \in Stages : thread[t] # "none" => thread'[t] # "none"
    BY <1>4 DEF StageStep, BeginWork, EndWork, Pop, Delivered, Exit, IInv, Shape
  <2>2. CASE stopper.pc = "join" /\ queue = 0
    <3>1. stopper.stage >= 1 /\ stopper.stage \in Nat
      BY DEF IInv, Shape, StopRecord
    <3>2. CASE stopper.stage = 1
      <4>1. StopOrder[stopper.stage] = "publisher"
        BY <3>2, StopOrderFacts
      <4>2. QED
        BY <2>1, <2>2, <4>1 DEF StopperAwaits, PipelineEnded, Stages
    <3>3. CASE stopper.stage # 1
      <4>1. queue' = 0
        BY <2>1, <2>2, <3>1, <3>3, CleaningStep, <1>4 DEF IInv, Cleaning, Next
      <4>2. QED
        BY <2>1, <4>1, StopperWaitsOn DEF PipelineEnded
    <3>4. QED
      BY <3>2, <3>3
  <2>3. CASE ~(stopper.pc = "join" /\ queue = 0)
    BY <2>1, <2>3, StopperWaitsOn DEF PipelineEnded
  <2>4. QED
    BY <2>2, <2>3
<1>5. CASE ExitToken \/ Signal \/ UNCHANGED vars
  <2>1. UNCHANGED <<stopper, start, cancelled, thread, queue, pipeline>> /\ (root => root')
    BY <1>5 DEF ExitToken, Signal, vars, pool
  <2>2. QED
    BY <2>1, StopperWaitsOn DEF PipelineEnded
<1>6. ASSUME NEW c \in Callers, StopReturns(c) \/ StopTimesOut(c) PROVE StopperAwaits'
  <2>1. UNCHANGED <<stopper, start, cancelled, thread, queue, pipeline, root>>
    BY <1>6 DEF StopReturns, StopTimesOut, pool
  <2>2. QED
    BY <2>1, StopperWaitsOn DEF PipelineEnded
<1>7. QED
  BY <1>1, <1>2, <1>3, <1>4, <1>5, <1>6 DEF Next

LEMMA CallersAwaitStep ==
  ASSUME IInv, IInv', CallersAwait, [Next]_vars
  PROVE  CallersAwait'
<1>1. \A c \in Callers : waiting'[c] = "yes" => stopper'.pc # "none"
  BY DEF IInv, Cleaning
<1>2. "run" \in Callers /\ waiting \in [Callers -> {"no", "yes", "stopped", "late"}]
  BY DEF Callers, IInv, Shape
<1>3. ASSUME UNCHANGED main, waiting'["run"] = waiting["run"], UNCHANGED token.cancelled
      PROVE  CallersAwait'
  BY <1>1, <1>3 DEF CallersAwait
<1>4. CASE RunStep \/ ShutDown \/ ExitProcess
  <2>1. CASE StartFailed \/ ExporterFails \/ StopPipeline
    <3>1. main' = "stopping" /\ waiting' = [waiting EXCEPT !["run"] = "yes"]
      BY <2>1 DEF StartFailed, ExporterFails, StopPipeline, CallStop
    <3>2. waiting'["run"] = "yes"
      BY <3>1, <1>2
    <3>3. QED
      BY <1>1, <3>1, <3>2 DEF CallersAwait
  <2>2. CASE StopToken \/ LeaveEarly \/ CreateFails
    <3>1. main' = "token" /\ token'.cancelled
      BY <2>2 DEF StopToken, LeaveEarly, CreateFails, IInv, Shape, TokenRecord
    <3>2. QED
      BY <1>1, <3>1 DEF CallersAwait
  <2>3. CASE LoginFails \/ RegisterFails \/ ExitProcess
    <3>1. main' \in {"exited", "abandoned"}
      BY <2>3 DEF LoginFails, RegisterFails, ExitProcess
    <3>2. QED
      BY <1>1, <3>1 DEF CallersAwait
  <2>4. CASE LoginSucceeds \/ Serve \/ ShutDown
    <3>1. /\ main \in {"login", "start", "serving"}
          /\ main' \in {"start", "serving", "http"} /\ waiting' = waiting
      BY <2>4 DEF LoginSucceeds, Serve, ShutDown
    <3>2. QED
      BY <1>1, <3>1 DEF CallersAwait
  <2>5. CASE StopReturns("run")
    <3>1. /\ waiting["run"] = "yes" /\ waiting' = [waiting EXCEPT !["run"] = "stopped"]
          /\ UNCHANGED <<main, token>>
      BY <2>5 DEF StopReturns
    <3>2. waiting'["run"] = "stopped"
      BY <3>1, <1>2
    <3>3. QED
      BY <1>1, <3>1, <3>2 DEF CallersAwait
  <2>6. QED
    BY <1>4, <2>1, <2>2, <2>3, <2>4, <2>5 DEF RunStep
<1>5. CASE OtherCallsStop
  <2>1. waiting' = [waiting EXCEPT !["other"] = "yes"] /\ UNCHANGED <<main, token>>
    BY <1>5 DEF OtherCallsStop, CallStop
  <2>2. waiting'["run"] = waiting["run"]
    BY <2>1, <1>2
  <2>3. QED
    BY <2>1, <2>2, <1>3
<1>6. ASSUME NEW c \in Callers, StopReturns(c) \/ StopTimesOut(c) PROVE CallersAwait'
  <2>1. PICK r \in {"stopped", "late"} :
          /\ waiting[c] = "yes" /\ waiting' = [waiting EXCEPT ![c] = r]
          /\ UNCHANGED <<main, token>>
    BY <1>6 DEF StopReturns, StopTimesOut
  <2>2. waiting'["run"] = waiting["run"]
          \/ (waiting["run"] = "yes" /\ waiting'["run"] \in {"stopped", "late"})
    BY <2>1, <1>2
  <2>3. QED
    BY <1>1, <2>1, <2>2 DEF CallersAwait
<1>7. CASE ExitToken
  <2>1. UNCHANGED <<main, waiting>> /\ token'.cancelled = token.cancelled
    BY <1>7 DEF ExitToken, IInv, Shape, TokenRecord
  <2>2. QED
    BY <2>1, <1>3
<1>8. CASE StartStep \/ StopStep \/ Signal \/ UNCHANGED vars
  <2>1. UNCHANGED <<main, waiting, token>>
    BY <1>8 DEF StartStep, BeginStart, RefreshFails, RefreshSucceeds, StartStage,
       CheckStart, ReturnFromStart, StopStep, AwaitStart, CancelStage, StopWorkers,
       JoinStage, FinishStop, Signal, vars
  <2>2. QED
    BY <2>1, <1>3
<1>9. ASSUME NEW s \in Stages, StageStep(s) \/ BeginWork(s) PROVE CallersAwait'
  <2>1. UNCHANGED <<main, waiting, token>>
    BY <1>9 DEF StageStep, BeginWork, EndWork, Pop, Delivered, Exit
  <2>2. QED
    BY <2>1, <1>3
<1>10. QED
  BY <1>4, <1>5, <1>6, <1>7, <1>8, <1>9 DEF Next

\* Whatever is waited for during a shutdown will come: finishStop joins only a stage
\* that was started and then cancelled, or a Start whose context has ended; a caller
\* of Stop waits only when a cleanup is under way; run stops the token manager before
\* it waits for it, and never waits for a Stop that it did not call.  No order of
\* signal, failing start and two callers leads to a join without a cancel.
THEOREM EveryWaitIsAnswered ==
  Spec => [](StopperAwaits /\ CallersAwait)
<1>1. IInv /\ IInv' /\ StopperAwaits /\ CallersAwait /\ [Next]_vars
        => StopperAwaits' /\ CallersAwait'
  BY StopperAwaitsStep, CallersAwaitStep
<1>2. QED
  BY <1>1, InitAwaits, Invariance, PTL DEF Spec
=============================================================================

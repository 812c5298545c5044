----------------------------- MODULE Lifecycle -----------------------------
(***************************************************************************)
(* Startup and shutdown: server.run with the goroutines of                 *)
(* pipeline.Scheduled and of the token manager.                            *)
(*                                                                         *)
(* run logs in, starts the pipeline stage by stage, serves HTTP until a    *)
(* signal or a server error, and then stops the server, the pipeline and   *)
(* the token manager.  Every stage is a goroutine (or a pool of them) that *)
(* ends when its context does.  All contexts descend from the one a signal *)
(* cancels.  One background goroutine (finishStop) owns the cleanup; Stop  *)
(* only waits for it.  Stop may also be called by another goroutine than   *)
(* run, even while Start runs.                                             *)
(***************************************************************************)
EXTENDS Naturals, Sequences

CONSTANTS
  PushEnabled,   \* prometheus.push.enabled
  OtherStops,    \* somebody else may call Stop, too
  Working,       \* bound: the stages that are seen in the middle of their work
  Capacity       \* bound: batches in the publisher's queue

ASSUME LifecycleAssumption ==
  /\ PushEnabled \in BOOLEAN /\ OtherStops \in BOOLEAN
  /\ Working \subseteq {"metadata", "scheduler", "expiry", "publisher"}
  /\ Capacity \in Nat \ {0}

VARIABLES
  main,       \* where run is
  failed,     \* run returns an error
  root,       \* run's context has been cancelled
  pipeline,   \* Scheduled.rootCancel has been called
  start,      \* where Scheduled.Start is
  flags,      \* starting, started, stopping
  cancelled,  \* the stages whose own cancel function has been called
  thread,     \* the goroutines of the stages
  busy,       \* the stages in the middle of a refresh, a page or a request
  queue,      \* batches in the publisher's queue
  dropped,    \* a batch failed because its context had ended
  stopper,    \* finishStop
  waiting,    \* the callers of Stop
  token       \* the token manager's goroutine

pool == <<thread, busy, queue, dropped>>
vars == <<main, failed, root, pipeline, start, flags, cancelled, pool, stopper,
          waiting, token>>

Stages == {"metadata", "scheduler", "expiry", "workers", "publisher"}

StartOrder ==
  IF PushEnabled THEN <<"metadata", "scheduler", "expiry", "workers", "publisher">>
  ELSE <<"metadata", "scheduler", "expiry">>

StopOrder == <<"publisher", "workers", "expiry", "scheduler", "metadata">>

Callers == {"run"} \cup (IF OtherStops THEN {"other"} ELSE {})

PipelineEnded == root \/ pipeline
Ended(s) == PipelineEnded \/ s \in cancelled
\* When run returns the process ends, and every goroutine with it.
Alive == main \notin {"exited", "abandoned"}
Pending == queue + (IF "workers" \in busy THEN 1 ELSE 0)

Init ==
  /\ main = "login" /\ failed = FALSE
  /\ root = FALSE /\ pipeline = FALSE
  /\ start = [pc |-> "idle", stage |-> 1, ok |-> FALSE]
  /\ flags = [starting |-> FALSE, started |-> FALSE, stopping |-> FALSE]
  /\ cancelled = {}
  /\ thread = [s \in Stages |-> "none"]
  /\ busy = {} /\ queue = 0 /\ dropped = FALSE
  /\ stopper = [pc |-> "none", stage |-> 1, late |-> FALSE]
  /\ waiting = [c \in Callers |-> "no"]
  /\ token = [thread |-> "none", cancelled |-> FALSE]

(***************************************************************************)
(* The world: SIGINT or SIGTERM.                                           *)
(***************************************************************************)

Signal ==
  /\ ~root
  /\ root' = TRUE
  /\ UNCHANGED <<main, failed, pipeline, start, flags, cancelled, pool, stopper,
                 waiting, token>>

(***************************************************************************)
(* Scheduled.Start.                                                        *)
(***************************************************************************)

BeginStart ==
  /\ main = "start" /\ start.pc = "idle"
  /\ IF flags.stopping
     THEN /\ start' = [start EXCEPT !.pc = "returned"]
          /\ UNCHANGED flags
     ELSE /\ start' = [start EXCEPT !.pc = "refresh"]
          /\ flags' = [flags EXCEPT !.starting = TRUE]
  /\ UNCHANGED <<main, failed, root, pipeline, cancelled, pool, stopper, waiting,
                 token>>

\* The initial refresh fails: the context ends and Start returns its error.
RefreshFails ==
  /\ start.pc = "refresh"
  /\ pipeline' = TRUE
  /\ start' = [start EXCEPT !.pc = "return"]
  /\ UNCHANGED <<main, failed, root, flags, cancelled, pool, stopper, waiting, token>>

\* It succeeds, which a context that ends meanwhile need not prevent.
RefreshSucceeds ==
  /\ start.pc = "refresh"
  /\ start' = [start EXCEPT !.pc = "stage"]
  /\ UNCHANGED <<main, failed, root, pipeline, flags, cancelled, pool, stopper,
                 waiting, token>>

\* Mutant: the publisher is never started.
StagesLeft_NoPublisher == start.stage <= 3

StagesLeft == start.stage <= Len(StartOrder)

StartStage ==
  /\ start.pc = "stage" /\ StagesLeft
  /\ LET s == StartOrder[start.stage]
     IN /\ thread' = [thread EXCEPT ![s] = "running"]
        /\ start' = [start EXCEPT !.pc = IF s = "workers" THEN "stage" ELSE "check",
                                  !.stage = @ + 1]
  /\ UNCHANGED <<main, failed, root, pipeline, flags, cancelled, busy, queue,
                 dropped, stopper, waiting, token>>

\* rootCtx.Err() after a stage: go on, or abortStart.
CheckStart ==
  /\ start.pc = "check"
  /\ IF ~PipelineEnded
     THEN /\ start' = IF StagesLeft THEN [start EXCEPT !.pc = "stage"]
                      ELSE [start EXCEPT !.pc = "return", !.ok = TRUE]
          /\ UNCHANGED <<pipeline, flags, stopper>>
     ELSE /\ start' = [start EXCEPT !.pc = "return"]
          /\ IF flags.stopping THEN UNCHANGED <<pipeline, flags, stopper>>
             ELSE /\ pipeline' = TRUE
                  /\ flags' = [flags EXCEPT !.stopping = TRUE]
                  /\ stopper' = [stopper EXCEPT !.pc = "waitStart"]
  /\ UNCHANGED <<main, failed, root, cancelled, pool, waiting, token>>

FlagsAfterStart ==
  [flags EXCEPT !.starting = FALSE, !.started = start.ok /\ ~flags.stopping]

\* The deferred function: startDone is closed.
ReturnFromStart ==
  /\ start.pc = "return"
  /\ flags' = FlagsAfterStart
  /\ start' = [start EXCEPT !.pc = "returned"]
  /\ UNCHANGED <<main, failed, root, pipeline, cancelled, pool, stopper, waiting,
                 token>>

(***************************************************************************)
(* The goroutines.                                                         *)
(***************************************************************************)

\* A refresh, a collection, an expiry run, or a page of the publisher begins.
\* The workers of the scheduler and of the publisher are one thread each.
BeginWork(s) ==
  /\ Alive
  /\ s \in Working \ busy /\ thread[s] = "running" /\ ~Ended(s)
  /\ busy' = busy \cup {s}
  /\ UNCHANGED <<main, failed, root, pipeline, start, flags, cancelled, thread,
                 queue, dropped, stopper, waiting, token>>

\* It ends; a page of the publisher ends in a batch or in none, and a page once
\* read is submitted even when the context has ended.
EndWork(s) ==
  /\ Alive
  /\ s \in busy \ {"workers"}
  /\ busy' = busy \ {s}
  /\ queue' \in IF s = "publisher" /\ queue < Capacity THEN {queue, queue + 1}
                ELSE {queue}
  /\ UNCHANGED <<main, failed, root, pipeline, start, flags, cancelled, thread,
                 dropped, stopper, waiting, token>>

\* laneQueue.pop prefers a batch to the end of the context.
Pop ==
  /\ Alive
  /\ thread["workers"] = "running" /\ "workers" \notin busy /\ queue > 0
  /\ queue' = queue - 1
  /\ busy' = busy \cup {"workers"}
  /\ UNCHANGED <<main, failed, root, pipeline, start, flags, cancelled, thread,
                 dropped, stopper, waiting, token>>

\* The request ends, or its context did.
Delivered ==
  /\ Alive
  /\ "workers" \in busy
  /\ dropped' = (dropped \/ Ended("workers"))
  /\ busy' = busy \ {"workers"}
  /\ UNCHANGED <<main, failed, root, pipeline, start, flags, cancelled, thread,
                 queue, stopper, waiting, token>>

Exit(s) ==
  /\ Alive
  /\ thread[s] = "running" /\ s \notin busy /\ Ended(s)
  /\ s = "workers" => queue = 0
  /\ thread' = [thread EXCEPT ![s] = "exited"]
  /\ UNCHANGED <<main, failed, root, pipeline, start, flags, cancelled, busy,
                 queue, dropped, stopper, waiting, token>>

ExitToken ==
  /\ Alive
  /\ token.thread = "running" /\ (root \/ token.cancelled)
  /\ token' = [token EXCEPT !.thread = "exited"]
  /\ UNCHANGED <<main, failed, root, pipeline, start, flags, cancelled, pool,
                 stopper, waiting>>

(***************************************************************************)
(* Scheduled.Stop and finishStop.                                          *)
(***************************************************************************)

\* The first call starts the cleanup; during Start it also ends the pipeline's
\* context.
CallStop(c) ==
  /\ waiting[c] = "no"
  /\ waiting' = [waiting EXCEPT ![c] = "yes"]
  /\ IF flags.stopping THEN UNCHANGED <<pipeline, flags, stopper>>
     ELSE /\ flags' = [flags EXCEPT !.stopping = TRUE]
          /\ pipeline' = (pipeline \/ flags.starting)
          /\ stopper' = [stopper EXCEPT
                           !.pc = IF start.pc = "idle" THEN "cancel" ELSE "waitStart"]

OtherCallsStop ==
  /\ Alive /\ (main = "start" \/ start.pc # "idle")
  /\ OtherStops /\ CallStop("other")
  /\ UNCHANGED <<main, failed, root, start, cancelled, pool, token>>

StopReturns(c) ==
  /\ Alive
  /\ waiting[c] = "yes" /\ stopper.pc = "done"
  /\ waiting' = [waiting EXCEPT ![c] = "stopped"]
  /\ UNCHANGED <<main, failed, root, pipeline, start, flags, cancelled, pool,
                 stopper, token>>

StopTimesOut(c) ==
  /\ Alive
  /\ waiting[c] = "yes"
  /\ waiting' = [waiting EXCEPT ![c] = "late"]
  /\ UNCHANGED <<main, failed, root, pipeline, start, flags, cancelled, pool,
                 stopper, token>>

\* Mutant: the cleanup does not wait for Start.
StartIsOver_Ignored == TRUE

\* Mutant: it waits for a successful start.
StartIsOver_IfStarted == flags.started

StartIsOver == start.pc = "returned"

AwaitStart ==
  /\ Alive
  /\ stopper.pc = "waitStart" /\ StartIsOver
  /\ stopper' = [stopper EXCEPT !.pc = "cancel"]
  /\ UNCHANGED <<main, failed, root, pipeline, start, flags, cancelled, pool,
                 waiting, token>>

NextStage ==
  [stopper EXCEPT !.pc = IF stopper.stage < Len(StopOrder) THEN "cancel" ELSE "finish",
                  !.stage = @ + 1]

\* The stages in reverse order.  What was never started is passed over; the
\* publisher's workers are stopped only after a bounded drain, and what is left
\* in their queue is released.
CancelStage ==
  /\ Alive
  /\ stopper.pc = "cancel"
  /\ LET s == StopOrder[stopper.stage]
     IN IF thread[s] = "none"
        THEN /\ stopper' = NextStage
             /\ UNCHANGED <<cancelled, queue, dropped>>
        ELSE /\ s # "workers"
             /\ cancelled' = cancelled \cup {s}
             /\ stopper' = [stopper EXCEPT !.pc = "join"]
             /\ UNCHANGED <<queue, dropped>>
  /\ UNCHANGED <<main, failed, root, pipeline, start, flags, thread, busy, waiting,
                 token>>

\* WaitIdle returns, idle or after its timeout; then Publisher.StopContext.
StopWorkers ==
  /\ Alive
  /\ stopper.pc = "cancel" /\ StopOrder[stopper.stage] = "workers"
  /\ thread["workers"] # "none"
  /\ cancelled' = cancelled \cup {"workers"}
  /\ queue' = 0
  /\ stopper' = [stopper EXCEPT !.pc = "join", !.late = Pending > 0]
  /\ UNCHANGED <<main, failed, root, pipeline, start, flags, thread, busy, dropped,
                 waiting, token>>

\* Mutant: a stage counts as joined once its context has ended.
Joined_WhenEnded(s) == Ended(s)

Joined(s) == thread[s] = "exited"

JoinStage ==
  /\ Alive
  /\ stopper.pc = "join" /\ Joined(StopOrder[stopper.stage])
  /\ stopper' = NextStage
  /\ UNCHANGED <<main, failed, root, pipeline, start, flags, cancelled, pool,
                 waiting, token>>

FinishStop ==
  /\ Alive
  /\ stopper.pc = "finish"
  /\ pipeline' = TRUE
  /\ flags' = [flags EXCEPT !.started = FALSE]
  /\ stopper' = [stopper EXCEPT !.pc = "done"]
  /\ UNCHANGED <<main, failed, root, start, cancelled, pool, waiting, token>>

(***************************************************************************)
(* server.run.                                                             *)
(***************************************************************************)

\* TokenManager.Start: a login that fails, or succeeds too late, ends run; with
\* a signal received run returns no error.
LoginFails ==
  /\ main = "login"
  /\ main' = "exited"
  /\ failed' = ~root
  /\ UNCHANGED <<root, pipeline, start, flags, cancelled, pool, stopper, waiting,
                 token>>

LoginSucceeds ==
  /\ main = "login" /\ ~root
  /\ token' = [token EXCEPT !.thread = "running"]
  /\ main' = "start"
  /\ UNCHANGED <<failed, root, pipeline, start, flags, cancelled, pool, stopper,
                 waiting>>

\* Before the pipeline is created: a signal stops the token manager only.
LeaveEarly ==
  /\ main = "start" /\ start.pc = "idle" /\ ~flags.stopping /\ root
  /\ token' = [token EXCEPT !.cancelled = TRUE]
  /\ main' = "token"
  /\ UNCHANGED <<failed, root, pipeline, start, flags, cancelled, pool, stopper,
                 waiting>>

\* NewScheduledFromApp returns an error: there is only the token manager to stop, and
\* its own error is dropped.
CreateFails ==
  /\ main = "start" /\ start.pc = "idle" /\ ~flags.stopping
  /\ token' = [token EXCEPT !.cancelled = TRUE]
  /\ main' = "token"
  /\ failed' = TRUE
  /\ UNCHANGED <<root, pipeline, start, flags, cancelled, pool, stopper, waiting>>

\* Start returned, the exporter is created and registered.
Serve ==
  /\ main = "start" /\ start.pc = "returned" /\ start.ok
  /\ main' = "serving"
  /\ UNCHANGED <<failed, root, pipeline, start, flags, cancelled, pool, stopper,
                 waiting, token>>

StartFailed ==
  /\ main = "start" /\ start.pc = "returned" /\ ~start.ok
  /\ main' = "stopping"
  /\ CallStop("run")
  /\ UNCHANGED <<failed, root, start, cancelled, pool, token>>

\* NewValueExporter returns an error, which its checked arguments do not let it: the
\* pipeline and the token manager are stopped, and their errors dropped.
ExporterFails ==
  /\ main = "start" /\ start.pc = "returned" /\ start.ok
  /\ main' = "stopping" /\ failed' = TRUE
  /\ CallStop("run")
  /\ UNCHANGED <<root, start, cancelled, pool, token>>

\* registry.Register returns an error, which it does not for a collector without
\* descriptors in a new registry: run returns at once and stops nothing.
RegisterFails ==
  /\ main = "start" /\ start.pc = "returned" /\ start.ok
  /\ main' = "abandoned" /\ failed' = TRUE
  /\ UNCHANGED <<root, pipeline, start, flags, cancelled, pool, stopper, waiting,
                 token>>

\* A signal, or the HTTP server failed: readiness is withdrawn first.
ShutDown ==
  /\ main = "serving"
  /\ main' = "http"
  /\ \/ root /\ UNCHANGED failed
     \/ failed' = TRUE
  /\ UNCHANGED <<root, pipeline, start, flags, cancelled, pool, stopper, waiting,
                 token>>

\* server.Shutdown returned, in time or with an error; then Scheduled.Stop.
StopPipeline ==
  /\ main = "http"
  /\ main' = "stopping"
  /\ failed' \in {failed, TRUE}
  /\ CallStop("run")
  /\ UNCHANGED <<root, start, cancelled, pool, token>>

StopToken ==
  /\ main = "stopping" /\ waiting["run"] \in {"stopped", "late"}
  /\ main' = "token"
  /\ failed' = (failed \/ waiting["run"] = "late" \/ stopper.late)
  /\ token' = [token EXCEPT !.cancelled = TRUE]
  /\ UNCHANGED <<root, pipeline, start, flags, cancelled, pool, stopper, waiting>>

\* TokenManager.StopContext returns when the goroutine is gone, or late.  A start
\* that failed is an error unless a signal came by now.
ExitProcess ==
  /\ main = "token"
  /\ failed' = (failed \/ token.thread # "exited" \/ (~start.ok /\ ~root))
  /\ main' = "exited"
  /\ UNCHANGED <<root, pipeline, start, flags, cancelled, pool, stopper, waiting,
                 token>>

RunStep ==
  \/ LoginFails \/ LoginSucceeds \/ LeaveEarly \/ CreateFails
  \/ Serve \/ StartFailed \/ ExporterFails \/ RegisterFails
  \/ StopPipeline \/ StopToken
  \/ ShutDown /\ root
  \/ ExitProcess /\ token.thread = "exited"
  \/ StopReturns("run")

StartStep ==
  \/ BeginStart \/ RefreshFails \/ RefreshSucceeds \/ StartStage \/ CheckStart
  \/ ReturnFromStart

StopStep == AwaitStart \/ CancelStage \/ StopWorkers \/ JoinStage \/ FinishStop

StageStep(s) == EndWork(s) \/ Exit(s) \/ (s = "workers" /\ (Pop \/ Delivered))

Next ==
  \/ RunStep \/ StartStep \/ StopStep \/ ExitToken
  \/ \E s \in Stages : StageStep(s) \/ BeginWork(s)
  \/ \E c \in Callers : StopReturns(c) \/ StopTimesOut(c)
  \/ Signal \/ ShutDown \/ OtherCallsStop \/ ExitProcess

\* Goroutines run; requests, refreshes, the drain and Shutdown end within their
\* timeouts.  Nothing obliges a caller's deadline to expire, a signal to come or
\* work to begin.
Fairness ==
  /\ WF_vars(RunStep) /\ WF_vars(StartStep) /\ WF_vars(StopStep)
  /\ WF_vars(ExitToken)
  /\ \A s \in Stages : WF_vars(StageStep(s))

Spec == Init /\ [][Next]_vars /\ Fairness

(***************************************************************************)
(* Properties.                                                             *)
(***************************************************************************)

\* Types; and the flags /ready asks (Scheduled.Ready) say started only when every
\* stage was started, and never while Start still runs.
TypeOK ==
  /\ main \in {"login", "start", "serving", "http", "stopping", "token", "exited",
               "abandoned"}
  /\ failed \in BOOLEAN /\ root \in BOOLEAN /\ pipeline \in BOOLEAN
  /\ start.pc \in {"idle", "refresh", "stage", "check", "return", "returned"}
  /\ start.stage \in 1..(Len(StartOrder) + 1) /\ start.ok \in BOOLEAN
  /\ flags \in [{"starting", "started", "stopping"} -> BOOLEAN]
  /\ ~(flags.starting /\ flags.started)
  /\ flags.started => \A i \in DOMAIN StartOrder : thread[StartOrder[i]] # "none"
  /\ cancelled \subseteq Stages
  /\ thread \in [Stages -> {"none", "running", "exited"}]
  /\ busy \subseteq {s \in Stages : thread[s] = "running"}
  /\ queue \in 0..Capacity /\ dropped \in BOOLEAN
  /\ stopper.pc \in {"none", "waitStart", "cancel", "join", "finish", "done"}
  /\ waiting \in [Callers -> {"no", "yes", "stopped", "late"}]
  /\ token.thread \in {"none", "running", "exited"} /\ token.cancelled \in BOOLEAN

Running == {s \in Stages : thread[s] = "running"}

\* When the cleanup declares itself done nothing of the pipeline runs or will
\* run, whatever Start had got to when Stop or the signal came, and no batch is
\* left pending with its reservation held (scheduled.go:310).
StopHonest ==
  stopper.pc = "done" =>
    Running = {} /\ ~flags.starting /\ Pending = 0
    /\ start.pc \notin {"stage", "check"}

\* run leaves nothing behind.  It returns without an error only after it has joined
\* everything it started, with no batch left in the publisher's queue; and with an error
\* only after it has told the token manager, if it runs, and the pipeline, if Start
\* was called, to stop.  The one exit that does neither (main.go:119-121) is RegisterFails.
CleanExit ==
  main = "exited" =>
    /\ ~failed => Running = {} /\ Pending = 0 /\ token.thread # "running"
    /\ token.thread # "none" => token.cancelled
    /\ start.pc # "idle" => flags.stopping

\* After a signal run returns by itself: no join waits for a goroutine whose
\* context nobody ends, and no deadline of a caller has to expire.
SignalEndsRun == root ~> ~Alive

\* scheduled.go:255: a normal, fully-started stop drains in reverse order; and
\* scheduled.go:310: the publisher receives a graceful drain before it is
\* cancelled.  No batch of a fully started pipeline fails because of the stop
\* before the drain is over.
StopDrains ==
  [][flags.started /\ dropped' /\ ~dropped => "workers" \in cancelled]_vars
=============================================================================

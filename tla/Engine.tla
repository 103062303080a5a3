------------------------------- MODULE Engine -------------------------------
(***************************************************************************)
(* The link supervisor: Engine.Apply / Engine.Stop / Engine.Submit         *)
(* (internal/engine/engine.go) and, at the level of its life cycle and of  *)
(* its write queue, the worker goroutine each running link owns            *)
(* (internal/engine/worker.go).                                            *)
(*                                                                         *)
(* Every call of Apply and of Stop is a process that runs once; so is every*)
(* write command.  One call of Apply starts at most one worker per channel,*)
(* so the worker that call a starts for channel ch is named <<a, ch>>.     *)
(* Polling, telemetry and alarms of a worker are in module Worker.         *)
(***************************************************************************)
EXTENDS Naturals, Sequences, FiniteSets

CONSTANTS
  Channels,     \* channel indexes
  Fps,          \* fingerprints of channel plans
  IdleFps,      \* fingerprints of plans without one valid device
  BadFps,       \* fingerprints of plans whose driver cannot be built
  Applies,      \* calls of Engine.Apply
  Stops,        \* calls of Engine.Stop
  Cmds,         \* write commands handed to Engine.Submit
  QueueCap,     \* capacity of worker.writeCh
  MayPanic,     \* may mapping or encoding a value panic in a worker?
  MayCancel,    \* may the parent context be cancelled?
  CmdChannel,   \* the channel a command addresses
  None

ASSUME EngineAssumption ==
  /\ QueueCap \in Nat \ {0}
  /\ IdleFps \subseteq Fps
  /\ BadFps \subseteq Fps
  /\ Applies \cap Stops = {}
  /\ MayPanic \in BOOLEAN
  /\ MayCancel \in BOOLEAN
  /\ CmdChannel \in [Cmds -> Channels]
  /\ None \notin Fps \cup Applies \cup Stops \cup Cmds \cup Channels
                 \cup (Applies \X Channels)

Callers   == Applies \cup Stops
Workers   == Applies \X Channels
ChannelOf(w) == w[2]

VARIABLES
  applyMu,      \* holder of Engine.applyMu
  pc,           \* control point of every call of Apply and Stop
  plan,         \* plan[a][ch]: the fingerprint call a wants on ch, or None
  workers,      \* Engine.workers
  toStop,       \* workers the holder of applyMu has still to stop
  stopping,     \* the worker whose stop() is running
  stopStage,    \* where that stop() is: "close" or "wait"; "none" outside
  closed,       \* Engine.closed
  ctxDone       \* the context every worker context derives from is cancelled

engineVars == <<applyMu, pc, plan, workers, toStop, stopping, stopStage, closed, ctxDone>>

VARIABLES
  wpc,          \* control point of every worker goroutine
  cancelled,    \* worker.cancel has been called
  open,         \* the driver holds the port or the connection
  queue,        \* worker.writeCh
  cur           \* the command being executed

workerVars == <<wpc, cancelled, open, queue, cur>>

VARIABLES
  cpc,          \* what the caller of Submit knows of its command
  target,       \* the worker pointer Submit has looked up
  answers,      \* number of results published for the command
  lost          \* history: commands that no worker is left to answer

commandVars == <<cpc, target, answers, lost>>

vars == <<engineVars, workerVars, commandVars>>

-----------------------------------------------------------------------------
\* Control points.  A worker is alive from start() to close(done).

WorkerPcs == {"none", "connect", "opening", "wait", "collect", "select",
              "poll", "idle", "write", "drain", "close", "done"}
Alive(w)    == wpc[w] \notin {"none", "done"}
CtxDone(w)  == ctxDone \/ cancelled[w]
FpOf(w)     == plan[w[1]][w[2]]

\* A worker created by newWorker and started: it sits at the top of run.
Running(ch) == workers[ch] # None

EngineInit ==
  /\ applyMu = None
  /\ pc = [t \in Callers |-> "idle"]
  /\ plan = [a \in Applies |-> [ch \in Channels |-> None]]
  /\ workers = [ch \in Channels |-> None]
  /\ toStop = {}
  /\ stopping = None
  /\ stopStage = "none"
  /\ closed = FALSE
  /\ ctxDone = FALSE

WorkerInit ==
  /\ wpc = [w \in Workers |-> "none"]
  /\ cancelled = [w \in Workers |-> FALSE]
  /\ open = [w \in Workers |-> FALSE]
  /\ queue = [w \in Workers |-> << >>]
  /\ cur = [w \in Workers |-> None]

CommandInit ==
  /\ cpc = [c \in Cmds |-> "idle"]
  /\ target = [c \in Cmds |-> None]
  /\ answers = [c \in Cmds |-> 0]
  /\ lost = {}

Init == EngineInit /\ WorkerInit /\ CommandInit

-----------------------------------------------------------------------------
\* Apply: reconcile the running workers with the desired plans.

\* The caller has built its plans and is about to call Apply.
ApplyCall(a) ==
  /\ pc[a] = "idle"
  /\ pc' = [pc EXCEPT ![a] = "wait"]
  /\ \E p \in [Channels -> Fps \cup {None}] : plan' = [plan EXCEPT ![a] = p]
  /\ UNCHANGED <<applyMu, workers, toStop, stopping, stopStage, closed, ctxDone>>
  /\ UNCHANGED <<workerVars, commandVars>>

\* applyMu is taken; a stopped engine refuses the reload.
ApplyRefuse(a) ==
  /\ pc[a] = "wait"
  /\ applyMu = None
  /\ closed
  /\ pc' = [pc EXCEPT ![a] = "refused"]
  /\ UNCHANGED <<applyMu, plan, workers, toStop, stopping, stopStage, closed, ctxDone>>
  /\ UNCHANGED <<workerVars, commandVars>>

\* Mutant of ApplyLock: the check of closed is gone.
LockWhenClosed(a) ==
  /\ pc[a] = "wait"
  /\ applyMu = None
  /\ applyMu' = a
  /\ pc' = [pc EXCEPT ![a] = "diff"]
  /\ UNCHANGED <<plan, workers, toStop, stopping, stopStage, closed, ctxDone>>
  /\ UNCHANGED <<workerVars, commandVars>>

ApplyLock(a) ==
  /\ pc[a] = "wait"
  /\ applyMu = None
  /\ ~closed
  /\ applyMu' = a
  /\ pc' = [pc EXCEPT ![a] = "diff"]
  /\ UNCHANGED <<plan, workers, toStop, stopping, stopStage, closed, ctxDone>>
  /\ UNCHANGED <<workerVars, commandVars>>

\* Mutants of Outdated: every reload restarts every link; only deleted links
\* are stopped.
OutdatedAll(a) == {ch \in Channels : Running(ch)}
OutdatedGone(a) == {ch \in Channels : Running(ch) /\ plan[a][ch] = None}

\* Channels whose running worker is no longer wanted as it is: deleted, or
\* wanted with another fingerprint.
Outdated(a) ==
  {ch \in Channels : Running(ch) /\ FpOf(workers[ch]) # plan[a][ch]}

\* First critical section: take the outdated workers out of the map.
ApplyDiff(a) ==
  /\ pc[a] = "diff"
  /\ toStop' = {workers[ch] : ch \in Outdated(a)}
  /\ workers' = [ch \in Channels |->
                   IF ch \in Outdated(a) THEN None ELSE workers[ch]]
  /\ pc' = [pc EXCEPT ![a] = "stop"]
  /\ UNCHANGED <<applyMu, plan, stopping, stopStage, closed, ctxDone>>
  /\ UNCHANGED <<workerVars, commandVars>>

\* Second critical section: start what is wanted and not running.  A plan
\* whose driver cannot be built fails alone; the others are still started.
ToStart(a) ==
  {ch \in Channels : /\ ~Running(ch)
                     /\ plan[a][ch] # None
                     /\ plan[a][ch] \notin BadFps}

ApplyStart(a) ==
  /\ pc[a] = "stop"
  /\ toStop = {}
  /\ stopping = None
  /\ workers' = [ch \in Channels |->
                   IF ch \in ToStart(a) THEN <<a, ch>> ELSE workers[ch]]
  /\ wpc' = [w \in Workers |->
               IF w[1] = a /\ w[2] \in ToStart(a) THEN "connect" ELSE wpc[w]]
  /\ applyMu' = None
  /\ pc' = [pc EXCEPT ![a] = "done"]
  /\ UNCHANGED <<plan, toStop, stopping, stopStage, closed, ctxDone>>
  /\ UNCHANGED <<cancelled, open, queue, cur, commandVars>>

-----------------------------------------------------------------------------
\* Stop: refuse every later Apply and stop all workers.

StopCall(s) ==
  /\ pc[s] = "idle"
  /\ pc' = [pc EXCEPT ![s] = "wait"]
  /\ UNCHANGED <<applyMu, plan, workers, toStop, stopping, stopStage, closed, ctxDone>>
  /\ UNCHANGED <<workerVars, commandVars>>

\* Mutant of StopLock: channels without a worker are stopped too.
StopLockAll(s) ==
  /\ pc[s] = "wait"
  /\ applyMu = None
  /\ applyMu' = s
  /\ closed' = TRUE
  /\ toStop' = {workers[ch] : ch \in Channels}
  /\ workers' = [ch \in Channels |-> None]
  /\ pc' = [pc EXCEPT ![s] = "stop"]
  /\ UNCHANGED <<plan, stopping, stopStage, ctxDone>>
  /\ UNCHANGED <<workerVars, commandVars>>

StopLock(s) ==
  /\ pc[s] = "wait"
  /\ applyMu = None
  /\ applyMu' = s
  /\ closed' = TRUE
  /\ toStop' = {workers[ch] : ch \in {k \in Channels : Running(k)}}
  /\ workers' = [ch \in Channels |-> None]
  /\ pc' = [pc EXCEPT ![s] = "stop"]
  /\ UNCHANGED <<plan, stopping, stopStage, ctxDone>>
  /\ UNCHANGED <<workerVars, commandVars>>

StopReturn(s) ==
  /\ pc[s] = "stop"
  /\ toStop = {}
  /\ stopping = None
  /\ applyMu' = None
  /\ pc' = [pc EXCEPT ![s] = "done"]
  /\ UNCHANGED <<plan, workers, toStop, stopping, stopStage, closed, ctxDone>>
  /\ UNCHANGED <<workerVars, commandVars>>

-----------------------------------------------------------------------------
\* worker.stop: cancel, close the driver to wake a blocked receive, wait.

WorkerCancel(w) ==
  /\ stopping = None
  /\ w \in toStop
  /\ toStop' = toStop \ {w}
  /\ stopping' = w
  /\ stopStage' = "close"
  /\ cancelled' = [cancelled EXCEPT ![w] = TRUE]
  /\ UNCHANGED <<applyMu, pc, plan, workers, closed, ctxDone>>
  /\ UNCHANGED <<wpc, open, queue, cur, commandVars>>

\* drv.Close of stop(): it may come before, while or after run opens the port.
WorkerForceClose(w) ==
  /\ stopping = w
  /\ stopStage = "close"
  /\ stopStage' = "wait"
  /\ open' = [open EXCEPT ![w] = FALSE]
  /\ UNCHANGED <<applyMu, pc, plan, workers, toStop, stopping, closed, ctxDone>>
  /\ UNCHANGED <<wpc, cancelled, queue, cur, commandVars>>

\* Mutant of WorkerStopped: stop() does not wait for done.
StoppedEarly(w) ==
  /\ stopping = w
  /\ stopStage = "wait"
  /\ stopping' = None
  /\ stopStage' = "none"
  /\ UNCHANGED <<applyMu, pc, plan, workers, toStop, closed, ctxDone>>
  /\ UNCHANGED <<workerVars, commandVars>>

WorkerStopped(w) ==
  /\ stopping = w
  /\ stopStage = "wait"
  /\ wpc[w] = "done"
  /\ stopping' = None
  /\ stopStage' = "none"
  /\ UNCHANGED <<applyMu, pc, plan, workers, toStop, closed, ctxDone>>
  /\ UNCHANGED <<workerVars, commandVars>>

\* runtime.Manager cancels the run context before it calls Engine.Stop.
CancelParent ==
  /\ MayCancel
  /\ ~ctxDone
  /\ ctxDone' = TRUE
  /\ UNCHANGED <<applyMu, pc, plan, workers, toStop, stopping, stopStage, closed>>
  /\ UNCHANGED <<workerVars, commandVars>>

-----------------------------------------------------------------------------
\* The worker goroutine.

Goto(w, from, to) == wpc[w] = from /\ wpc' = [wpc EXCEPT ![w] = to]

\* Top of the loop of run: leave when the context is done, else open.
WorkerConnect(w) ==
  /\ IF CtxDone(w) THEN Goto(w, "connect", "drain")
                   ELSE Goto(w, "connect", "opening")
  /\ UNCHANGED <<engineVars, cancelled, open, queue, cur, commandVars>>

\* Open succeeded.  A link whose plan has no valid device only waits for its
\* context: collectLoop returns before it ever looks at the write queue.
WorkerOpened(w) ==
  /\ Goto(w, "opening", IF FpOf(w) \in IdleFps THEN "idle" ELSE "collect")
  /\ open' = [open EXCEPT ![w] = TRUE]
  /\ UNCHANGED <<engineVars, cancelled, queue, cur, commandVars>>

WorkerOpenFailed(w) ==
  /\ Goto(w, "opening", "wait")
  /\ UNCHANGED <<engineVars, cancelled, open, queue, cur, commandVars>>

\* waitReconnect and slowProbe: a timer sends the loop back to the top (a slow
\* probe has then opened the driver itself), the context ends the goroutine.
WorkerRetry(w) ==
  /\ Goto(w, "wait", "connect")
  /\ \E probed \in BOOLEAN : open' = [open EXCEPT ![w] = probed \/ @]
  /\ UNCHANGED <<engineVars, cancelled, queue, cur, commandVars>>

WorkerWaitDone(w) ==
  /\ CtxDone(w)
  /\ Goto(w, "wait", "drain")
  /\ UNCHANGED <<engineVars, cancelled, open, queue, cur, commandVars>>

\* Mutant of WorkerTake: the command is read, not received, from the queue.
TakePeeks(w) ==
  /\ queue[w] # << >>
  /\ Goto(w, "collect", "write")
  /\ cur' = [cur EXCEPT ![w] = Head(queue[w])]
  /\ UNCHANGED <<engineVars, cancelled, open, queue, commandVars>>

\* drainWrites: take every queued command before the next poll.
WorkerTake(w) ==
  /\ queue[w] # << >>
  /\ Goto(w, "collect", "write")
  /\ cur' = [cur EXCEPT ![w] = Head(queue[w])]
  /\ queue' = [queue EXCEPT ![w] = Tail(@)]
  /\ UNCHANGED <<engineVars, cancelled, open, commandVars>>

WorkerNoWrite(w) ==
  /\ queue[w] = << >>
  /\ Goto(w, "collect", "select")
  /\ UNCHANGED <<engineVars, cancelled, open, queue, cur, commandVars>>

\* execWrite has ended, whatever its outcome; the result is published and the
\* loop of drainWrites goes on.  Its exit on a link error is dead code: the
\* error is rebuilt from its text, which isLinkError never recognises.
WorkerWrite(w) ==
  /\ Goto(w, "write", "collect")
  /\ answers' = [answers EXCEPT ![cur[w]] = @ + 1]
  /\ cur' = [cur EXCEPT ![w] = None]
  /\ UNCHANGED <<engineVars, cancelled, open, queue, cpc, target, lost>>

\* select of collectLoop: with both cases ready, Go picks either.
WorkerTick(w) ==
  /\ Goto(w, "select", "poll")
  /\ UNCHANGED <<engineVars, cancelled, open, queue, cur, commandVars>>

\* Mutant of WorkerSelectDone: the loop watches the engine's context.
SelectParentDone(w) ==
  /\ ctxDone
  /\ Goto(w, "select", "drain")
  /\ UNCHANGED <<engineVars, cancelled, open, queue, cur, commandVars>>

WorkerSelectDone(w) ==
  /\ CtxDone(w)
  /\ Goto(w, "select", "drain")
  /\ UNCHANGED <<engineVars, cancelled, open, queue, cur, commandVars>>

\* A round of polls ends normally, on a link error, or on the context.
WorkerPoll(w) ==
  /\ \/ Goto(w, "poll", "collect")
     \/ Goto(w, "poll", "wait")
     \/ CtxDone(w) /\ Goto(w, "poll", "drain")
  /\ UNCHANGED <<engineVars, cancelled, open, queue, cur, commandVars>>

WorkerIdleDone(w) ==
  /\ CtxDone(w)
  /\ Goto(w, "idle", "drain")
  /\ UNCHANGED <<engineVars, cancelled, open, queue, cur, commandVars>>

\* A panic runs the same deferred calls as a return; the command being
\* executed is forgotten.  Nothing takes the worker out of the map.
WorkerPanic(w) ==
  /\ MayPanic
  /\ Goto(w, "poll", "drain") \/ Goto(w, "write", "drain")
  /\ lost' = lost \cup ({cur[w]} \ {None})
  /\ cur' = [cur EXCEPT ![w] = None]
  /\ UNCHANGED <<engineVars, cancelled, open, queue, cpc, target, answers>>

\* drainPendingWrites: answer what is queued with a failure.
WorkerDrain(w) ==
  /\ wpc[w] = "drain"
  /\ queue[w] # << >>
  /\ answers' = [answers EXCEPT ![Head(queue[w])] = @ + 1]
  /\ queue' = [queue EXCEPT ![w] = Tail(@)]
  /\ UNCHANGED <<engineVars, wpc, cancelled, open, cur, cpc, target, lost>>

\* ... at most one command is answered.
DrainedAfterOne(w) ==
  /\ queue[w] = << >> \/ \E c \in Cmds : target[c] = w /\ answers[c] = 1
  /\ Goto(w, "drain", "close")
  /\ UNCHANGED <<engineVars, cancelled, open, queue, cur, commandVars>>

WorkerDrained(w) ==
  /\ queue[w] = << >>
  /\ Goto(w, "drain", "close")
  /\ UNCHANGED <<engineVars, cancelled, open, queue, cur, commandVars>>

\* Mutant of WorkerExit: only stop() closes the driver.
ExitKeepsPort(w) ==
  /\ Goto(w, "close", "done")
  /\ UNCHANGED <<engineVars, cancelled, open, queue, cur, commandVars>>

\* The remaining deferred calls: close the driver, then close(done).
WorkerExit(w) ==
  /\ Goto(w, "close", "done")
  /\ open' = [open EXCEPT ![w] = FALSE]
  /\ UNCHANGED <<engineVars, cancelled, queue, cur, commandVars>>

-----------------------------------------------------------------------------
\* A write command: HasDevice, then Engine.Submit, each with a lookup of its
\* own under Engine.mu; the send uses the pointer after the unlock.

HasDevice(ch) == Running(ch) /\ FpOf(workers[ch]) \notin IdleFps

SubmitCheck(c) ==
  /\ cpc[c] = "idle"
  /\ cpc' = [cpc EXCEPT ![c] =
               IF HasDevice(CmdChannel[c]) THEN "checked" ELSE "rejected"]
  /\ UNCHANGED <<engineVars, workerVars, target, answers, lost>>

SubmitLookup(c) ==
  /\ cpc[c] = "checked"
  /\ cpc' = [cpc EXCEPT ![c] =
               IF Running(CmdChannel[c]) THEN "sending" ELSE "rejected"]
  /\ target' = [target EXCEPT ![c] = workers[CmdChannel[c]]]
  /\ UNCHANGED <<engineVars, workerVars, answers, lost>>

\* worker.tryWrite: never blocks.  Nothing here knows that the worker may have
\* ended since it was looked up.
SubmitSend(c) ==
  /\ cpc[c] = "sending"
  /\ Len(queue[target[c]]) < QueueCap
  /\ cpc' = [cpc EXCEPT ![c] = "accepted"]
  /\ queue' = [queue EXCEPT ![target[c]] = Append(@, c)]
  /\ lost' = IF wpc[target[c]] \in {"close", "done"} THEN lost \cup {c} ELSE lost
  /\ UNCHANGED <<engineVars, wpc, cancelled, open, cur, target, answers>>

SubmitFull(c) ==
  /\ cpc[c] = "sending"
  /\ Len(queue[target[c]]) >= QueueCap
  /\ cpc' = [cpc EXCEPT ![c] = "rejected"]
  /\ UNCHANGED <<engineVars, workerVars, target, answers, lost>>

-----------------------------------------------------------------------------
ApplyStep(a) == ApplyRefuse(a) \/ ApplyLock(a) \/ ApplyDiff(a) \/ ApplyStart(a)

StopStep(s) == StopLock(s) \/ StopReturn(s)

\* The steps of worker.stop, taken by whoever holds applyMu.
StopWorker(w) == WorkerCancel(w) \/ WorkerForceClose(w) \/ WorkerStopped(w)

WorkerStep(w) ==
  \/ WorkerConnect(w) \/ WorkerOpened(w) \/ WorkerOpenFailed(w)
  \/ WorkerRetry(w) \/ WorkerWaitDone(w)
  \/ WorkerTake(w) \/ WorkerNoWrite(w) \/ WorkerWrite(w)
  \/ WorkerTick(w) \/ WorkerSelectDone(w) \/ WorkerPoll(w)
  \/ WorkerIdleDone(w)
  \/ WorkerDrain(w) \/ WorkerDrained(w) \/ WorkerExit(w)

SubmitStep(c) == SubmitLookup(c) \/ SubmitSend(c) \/ SubmitFull(c)

Next ==
  \/ \E a \in Applies : ApplyCall(a) \/ ApplyStep(a)
  \/ \E s \in Stops : StopCall(s) \/ StopStep(s)
  \/ \E w \in Workers : StopWorker(w) \/ WorkerStep(w) \/ WorkerPanic(w)
  \/ \E c \in Cmds : SubmitCheck(c) \/ SubmitStep(c)
  \/ CancelParent

\* Every goroutine that can run does run: dials, reads and timers all have
\* deadlines.  Go's select picks at random among its ready cases, so a worker
\* that keeps finding its context done leaves in the end.
Fairness ==
  /\ \A a \in Applies : WF_vars(ApplyStep(a))
  /\ \A s \in Stops : WF_vars(StopStep(s))
  /\ \A w \in Workers : /\ WF_vars(StopWorker(w))
                        /\ WF_vars(WorkerStep(w))
                        /\ SF_vars(WorkerSelectDone(w))
  /\ \A c \in Cmds : WF_vars(SubmitStep(c))

Spec == Init /\ [][Next]_vars

FairSpec == Spec /\ Fairness

-----------------------------------------------------------------------------
\* Properties.

TypeOK ==
  /\ applyMu \in Callers \cup {None}
  /\ pc \in [Callers -> {"idle", "wait", "diff", "stop", "done", "refused"}]
  /\ plan \in [Applies -> [Channels -> Fps \cup {None}]]
  /\ workers \in [Channels -> Workers \cup {None}]
  /\ toStop \subseteq Workers
  /\ stopping \in Workers \cup {None}
  /\ stopStage \in {"none", "close", "wait"}
  /\ closed \in BOOLEAN
  /\ ctxDone \in BOOLEAN
  /\ wpc \in [Workers -> WorkerPcs]
  /\ cancelled \in [Workers -> BOOLEAN]
  /\ open \in [Workers -> BOOLEAN]
  /\ queue \in [Workers -> Seq(Cmds)]
  /\ cur \in [Workers -> Cmds \cup {None}]
  /\ cpc \in [Cmds -> {"idle", "checked", "sending", "accepted", "rejected"}]
  /\ target \in [Cmds -> Workers \cup {None}]
  /\ answers \in [Cmds -> Nat]
  /\ lost \subseteq Cmds

\* applyMu is there so that the old and the new worker of a link never overlap
\* during a restart (engine.go, field applyMu): at any time at most one
\* goroutine works for a channel, whatever reloads, stops and panics do.
OneWorkerPerChannel ==
  \A w1, w2 \in Workers :
    Alive(w1) /\ Alive(w2) /\ ChannelOf(w1) = ChannelOf(w2) => w1 = w2

\* The same for the resource: two workers of a channel never both hold its
\* port, and none is left open by a goroutine that has ended, although stop()
\* may close the driver before the goroutine has opened it.
PortExclusive ==
  \A w1, w2 \in Workers :
    open[w1] /\ open[w2] /\ ChannelOf(w1) = ChannelOf(w2) => w1 = w2 /\ Alive(w1)

\* Once Engine.Stop has returned no worker runs, and none ever starts again,
\* whichever Apply was waiting for the lock.
StopIsFinal ==
  \A s \in Stops : pc[s] = "done" => \A w \in Workers : ~Alive(w)

\* A reload only stops workers that its configuration wants changed or gone:
\* a link whose fingerprint is the same keeps its connection.
OnlyOutdatedStopped ==
  \A a \in Applies, w \in Workers :
    applyMu = a /\ (w \in toStop \/ stopping = w) =>
      FpOf(w) # plan[a][ChannelOf(w)]

\* When Apply returns, the running links are exactly the ones its plans ask
\* for, less those whose driver could not be built.
ReloadConverges ==
  [][\A a \in Applies : pc[a] # "done" /\ pc'[a] = "done" =>
       \A ch \in Channels :
         IF plan[a][ch] \in BadFps \cup {None}
         THEN workers'[ch] = None
         ELSE workers'[ch] # None /\ FpOf(workers'[ch]) = plan[a][ch]]_vars

\* "stop() sees done closed only after every receipt has been sent"
\* (worker.go, run): when a worker has ended, in order or by a panic, every
\* command it was given before its last drain has been answered, but for the
\* one whose execution panicked.
ReceiptsBeforeDone ==
  \A c \in Cmds :
    cpc[c] = "accepted" /\ wpc[target[c]] = "done" /\ c \notin lost => answers[c] = 1

\* The write path seen by its callers.
LedgerState ==
  [c \in Cmds |->
    CASE answers[c] > 1 -> "twice"
      [] answers[c] = 1 -> "answered"
      [] cpc[c] = "idle" -> "new"
      [] cpc[c] \in {"checked", "sending"} -> "offered"
      [] OTHER -> cpc[c]]

Ledger == INSTANCE CommandLedger WITH state <- LedgerState

\* Engine implements the ledger of commands.
ImplementsLedger == Ledger!Spec

\* Apply and Stop always return: no caller waits for a worker that waits for it.
CallsReturn ==
  \A t \in Callers : pc[t] = "wait" ~> pc[t] \in {"done", "refused"}

\* The comment on drainPendingWrites: the queue is drained "so that the caller
\* does not wait for its result for ever".  Every accepted command would then
\* be answered.  The code does not keep this promise.
AcceptedIsAnswered ==
  \A c \in Cmds : cpc[c] = "accepted" ~> answers[c] = 1
=============================================================================

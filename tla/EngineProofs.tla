---------------------------- MODULE EngineProofs ----------------------------
(***************************************************************************)
(* Proofs about module Engine, for any number of channels, reloads, stops  *)
(* and commands, and any capacity of the queues.                           *)
(*                                                                         *)
(* The first invariant follows a worker from the map to the set toStop to  *)
(* stopping: while it is alive it is in one of the three, and the three    *)
(* never hold two workers of one channel.  The second says where a write   *)
(* command is between its acceptance and its answer: in one place of one   *)
(* queue, or in the hands of one worker, unless a panic or a worker that   *)
(* had ended has lost it.                                                  *)
(***************************************************************************)
EXTENDS Engine, TLAPS

-----------------------------------------------------------------------------
\* The parts of the inductive invariant.

\* The lock: its holder is the only caller between lock and unlock, and only
\* a holder in its stop loop has workers to stop.
LockInv ==
  /\ \A t \in Callers : pc[t] \in {"diff", "stop"} <=> applyMu = t
  /\ toStop # {} \/ stopping # None => applyMu # None /\ pc[applyMu] = "stop"

\* The map files a worker under its own channel, and only started ones.
MapInv ==
  \A ch \in Channels :
    workers[ch] # None => ChannelOf(workers[ch]) = ch /\ wpc[workers[ch]] # "none"

\* A worker exists only once the call that starts it has returned: the plan it
\* was given cannot change any more.
StartedInv ==
  \A w \in Workers : wpc[w] # "none" => pc[w[1]] = "done"

\* Workers being stopped: out of the map, one per channel, all started.
StopInv ==
  /\ \A w \in toStop : /\ workers[ChannelOf(w)] = None
                       /\ wpc[w] # "none"
                       /\ w # stopping
  /\ stopping # None => workers[ChannelOf(stopping)] = None /\ wpc[stopping] # "none"
  /\ \A w1, w2 \in toStop : ChannelOf(w1) = ChannelOf(w2) => w1 = w2
  /\ stopping # None => \A w \in toStop : ChannelOf(w) # ChannelOf(stopping)

\* No worker runs unseen.
AliveInv ==
  \A w \in Workers :
    Alive(w) => workers[ChannelOf(w)] = w \/ w \in toStop \/ stopping = w

\* Only a live worker holds its port.
PortInv == \A w \in Workers : open[w] => Alive(w)

\* After Stop has taken the lock nothing is in the map and no Apply is inside;
\* after it has returned nothing is left to stop.
ClosedInv ==
  /\ \A s \in Stops : pc[s] \in {"stop", "done"} => closed
  /\ closed => \A ch \in Channels : workers[ch] = None
  /\ closed => \A a \in Applies : pc[a] \notin {"diff", "stop"}
  /\ (\E s \in Stops : pc[s] = "done") => toStop = {} /\ stopping = None

IInv == /\ TypeOK
        /\ LockInv
        /\ MapInv
        /\ StartedInv
        /\ StopInv
        /\ AliveInv
        /\ PortInv
        /\ ClosedInv
        /\ OnlyOutdatedStopped

-----------------------------------------------------------------------------
\* Type correctness.

\* Nothing runs at the start.
LEMMA TypeInit == Init => TypeOK
<1> SUFFICES ASSUME Init PROVE TypeOK
  OBVIOUS
<1>1. /\ pc \in [Callers -> {"idle", "wait", "diff", "stop", "done", "refused"}]
      /\ plan \in [Applies -> [Channels -> Fps \cup {None}]]
      /\ workers \in [Channels -> Workers \cup {None}]
  BY DEF Init, EngineInit
<1>2. /\ wpc \in [Workers -> WorkerPcs]
      /\ cancelled \in [Workers -> BOOLEAN]
      /\ open \in [Workers -> BOOLEAN]
      /\ cur \in [Workers -> Cmds \cup {None}]
  BY DEF Init, WorkerInit, WorkerPcs
<1>3. queue \in [Workers -> Seq(Cmds)]
  BY DEF Init, WorkerInit
<1>4. /\ cpc \in [Cmds -> {"idle", "checked", "sending", "accepted", "rejected"}]
      /\ target \in [Cmds -> Workers \cup {None}]
      /\ answers \in [Cmds -> Nat]
  BY DEF Init, CommandInit
<1> QED BY <1>1, <1>2, <1>3, <1>4 DEF Init, EngineInit, CommandInit, TypeOK

\* The steps of Apply keep the types.
LEMMA ApplyType ==
  ASSUME TypeOK, NEW a \in Applies, ApplyCall(a) \/ ApplyStep(a)
  PROVE  TypeOK'
<1> USE EngineAssumption
<1>1. CASE ApplyCall(a)
  <2>1. plan' \in [Applies -> [Channels -> Fps \cup {None}]]
    BY <1>1 DEF TypeOK, ApplyCall
  <2> QED BY <1>1, <2>1 DEF TypeOK, ApplyCall, workerVars, commandVars, Callers
<1>2. CASE ApplyRefuse(a)
  BY <1>2 DEF TypeOK, ApplyRefuse, workerVars, commandVars, Callers
<1>3. CASE ApplyLock(a)
  BY <1>3 DEF TypeOK, ApplyLock, workerVars, commandVars, Callers
<1>4. CASE ApplyDiff(a)
  <2>1. toStop' \subseteq Workers /\ workers' \in [Channels -> Workers \cup {None}]
    BY <1>4 DEF TypeOK, ApplyDiff, Outdated, Running
  <2> QED BY <1>4, <2>1 DEF TypeOK, ApplyDiff, workerVars, commandVars, Callers
<1>5. CASE ApplyStart(a)
  <2>1. workers' \in [Channels -> Workers \cup {None}]
    BY <1>5 DEF TypeOK, ApplyStart, Workers
  <2>2. wpc' \in [Workers -> WorkerPcs]
    BY <1>5 DEF TypeOK, ApplyStart, WorkerPcs
  <2> QED BY <1>5, <2>1, <2>2 DEF TypeOK, ApplyStart, commandVars, Callers
<1> QED BY <1>1, <1>2, <1>3, <1>4, <1>5 DEF ApplyStep

\* The steps of Stop keep the types.
LEMMA StopType ==
  ASSUME TypeOK, NEW s \in Stops, StopCall(s) \/ StopStep(s)
  PROVE  TypeOK'
<1>1. CASE StopCall(s)
  BY <1>1 DEF TypeOK, StopCall, workerVars, commandVars, Callers
<1>2. CASE StopLock(s)
  <2>1. toStop' \subseteq Workers /\ workers' \in [Channels -> Workers \cup {None}]
    BY <1>2 DEF TypeOK, StopLock, Running
  <2> QED BY <1>2, <2>1 DEF TypeOK, StopLock, workerVars, commandVars, Callers
<1>3. CASE StopReturn(s)
  BY <1>3 DEF TypeOK, StopReturn, workerVars, commandVars, Callers
<1> QED BY <1>1, <1>2, <1>3 DEF StopStep

\* Stopping one worker keeps the types.
LEMMA StopWorkerType ==
  ASSUME TypeOK, NEW w \in Workers, StopWorker(w)
  PROVE  TypeOK'
<1>1. CASE WorkerCancel(w)
  BY <1>1 DEF TypeOK, WorkerCancel, commandVars
<1>2. CASE WorkerForceClose(w)
  BY <1>2 DEF TypeOK, WorkerForceClose, commandVars
<1>3. CASE WorkerStopped(w)
  BY <1>3 DEF TypeOK, WorkerStopped, workerVars, commandVars
<1> QED BY <1>1, <1>2, <1>3 DEF StopWorker

\* The steps of a worker keep the types.
LEMMA WorkerType ==
  ASSUME TypeOK, NEW w \in Workers, WorkerStep(w) \/ WorkerPanic(w)
  PROVE  TypeOK'
<1> USE DEF Goto, WorkerPcs, engineVars, commandVars
<1>1. CASE \/ WorkerConnect(w) \/ WorkerOpenFailed(w) \/ WorkerWaitDone(w)
           \/ WorkerNoWrite(w) \/ WorkerTick(w) \/ WorkerSelectDone(w)
           \/ WorkerPoll(w) \/ WorkerIdleDone(w) \/ WorkerDrained(w)
  BY <1>1 DEF TypeOK, WorkerConnect, WorkerOpenFailed, WorkerWaitDone, WorkerNoWrite,
              WorkerTick, WorkerSelectDone, WorkerPoll, WorkerIdleDone, WorkerDrained
<1>2. CASE WorkerOpened(w) \/ WorkerExit(w)
  BY <1>2 DEF TypeOK, WorkerOpened, WorkerExit
<1>3. CASE WorkerRetry(w)
  <2>1. open' \in [Workers -> BOOLEAN]
    BY <1>3 DEF TypeOK, WorkerRetry
  <2> QED BY <1>3, <2>1 DEF TypeOK, WorkerRetry
<1>4. CASE WorkerTake(w)
  <2>1. Head(queue[w]) \in Cmds /\ Tail(queue[w]) \in Seq(Cmds)
    BY <1>4 DEF TypeOK, WorkerTake
  <2> QED BY <1>4, <2>1 DEF TypeOK, WorkerTake
<1>5. CASE WorkerWrite(w)
  <2>1. answers' \in [Cmds -> Nat]
    <3>1. CASE cur[w] \in Cmds
      BY <1>5, <3>1 DEF TypeOK, WorkerWrite
    <3>2. CASE cur[w] \notin Cmds
      BY <1>5, <3>2 DEF TypeOK, WorkerWrite
    <3> QED BY <3>1, <3>2
  <2>2. cur' \in [Workers -> Cmds \cup {None}] /\ wpc' \in [Workers -> WorkerPcs]
    BY <1>5 DEF TypeOK, WorkerWrite
  <2> QED BY <1>5, <2>1, <2>2 DEF TypeOK, WorkerWrite
<1>6. CASE WorkerDrain(w)
  <2>1. Tail(queue[w]) \in Seq(Cmds)
    BY <1>6 DEF TypeOK, WorkerDrain
  <2> QED BY <1>6, <2>1 DEF TypeOK, WorkerDrain
<1>7. CASE WorkerPanic(w)
  <2>1. lost' \subseteq Cmds
    BY <1>7 DEF TypeOK, WorkerPanic
  <2> QED BY <1>7, <2>1 DEF TypeOK, WorkerPanic
<1> QED BY <1>1, <1>2, <1>3, <1>4, <1>5, <1>6, <1>7 DEF WorkerStep

\* Submitting a write keeps the types.
LEMMA SubmitType ==
  ASSUME TypeOK, NEW c \in Cmds, SubmitCheck(c) \/ SubmitStep(c)
  PROVE  TypeOK'
<1> USE EngineAssumption
<1>1. CASE SubmitCheck(c)
  BY <1>1 DEF TypeOK, SubmitCheck, engineVars, workerVars
<1>2. CASE SubmitLookup(c)
  BY <1>2 DEF TypeOK, SubmitLookup, engineVars, workerVars
<1>3. CASE SubmitSend(c)
  <2>1. queue' \in [Workers -> Seq(Cmds)]
    <3>1. CASE target[c] \in Workers
      BY <1>3, <3>1 DEF TypeOK, SubmitSend
    <3>2. CASE target[c] \notin Workers
      BY <1>3, <3>2 DEF TypeOK, SubmitSend
    <3> QED BY <3>1, <3>2
  <2> QED BY <1>3, <2>1 DEF TypeOK, SubmitSend, engineVars
<1>4. CASE SubmitFull(c)
  BY <1>4 DEF TypeOK, SubmitFull, engineVars, workerVars
<1> QED BY <1>1, <1>2, <1>3, <1>4 DEF SubmitStep

\* Every step keeps the types.
LEMMA TypeStep == TypeOK /\ [Next]_vars => TypeOK'
<1> SUFFICES ASSUME TypeOK, [Next]_vars PROVE TypeOK'
  OBVIOUS
<1>1. CASE UNCHANGED vars
  BY <1>1 DEF TypeOK, vars, engineVars, workerVars, commandVars
<1>2. CASE CancelParent
  BY <1>2 DEF TypeOK, CancelParent, workerVars, commandVars
<1> QED BY <1>1, <1>2, ApplyType, StopType, StopWorkerType, WorkerType, SubmitType DEF Next

\* Every variable keeps its type (engine.go, worker.go: the state of a link
\* supervisor, whatever reloads, stops and commands arrive).
THEOREM TypeCorrect == Spec => []TypeOK
BY TypeInit, TypeStep, PTL DEF Spec

-----------------------------------------------------------------------------
\* The inductive invariant.

\* The invariant holds before anything has started.
LEMMA InitInv == Init => IInv
<1> SUFFICES ASSUME Init PROVE IInv
  OBVIOUS
<1>1. TypeOK
  BY TypeInit
<1>2. applyMu = None /\ None \notin Callers /\ toStop = {} /\ stopping = None /\ ~closed
  BY EngineAssumption DEF Init, EngineInit, Callers
<1>3. /\ \A t \in Callers : pc[t] = "idle"
      /\ \A ch \in Channels : workers[ch] = None
      /\ \A w \in Workers : wpc[w] = "none" /\ ~open[w]
  BY DEF Init, EngineInit, WorkerInit
<1> QED BY <1>1, <1>2, <1>3 DEF IInv, LockInv, MapInv, StartedInv, StopInv, AliveInv, PortInv,
     ClosedInv, OnlyOutdatedStopped, Alive, Callers

\* What a worker goroutine does on its own never disturbs the invariant: it
\* moves between live control points, or from one to "done".
LEMMA WorkerOnly ==
  ASSUME IInv, TypeOK', UNCHANGED engineVars, PortInv',
         \A w \in Workers : wpc'[w] = wpc[w] \/ (Alive(w) /\ wpc'[w] # "none")
  PROVE  IInv'
<1> USE DEF IInv, engineVars
<1>1. LockInv'
  BY DEF LockInv
<1>2. \A w \in Workers : (wpc[w] # "none" <=> wpc'[w] # "none") /\ (Alive(w)' => Alive(w))
  BY DEF Alive
<1>3. MapInv'
  BY <1>2 DEF MapInv, TypeOK
<1>4. StartedInv'
  BY <1>2 DEF StartedInv
<1>5. StopInv'
  BY <1>2 DEF StopInv, TypeOK
<1>6. AliveInv'
  BY <1>2 DEF AliveInv
<1>7. ClosedInv'
  BY DEF ClosedInv
<1>8. OnlyOutdatedStopped'
  BY DEF OnlyOutdatedStopped, FpOf
<1> QED BY <1>1, <1>3, <1>4, <1>5, <1>6, <1>7, <1>8

\* The steps of a worker keep the invariant.
LEMMA WorkerInv ==
  ASSUME IInv, NEW w \in Workers, WorkerStep(w) \/ WorkerPanic(w)
  PROVE  IInv'
<1> USE DEF Goto
<1>1. TypeOK /\ PortInv
  BY DEF IInv
<1>2. TypeOK'
  BY <1>1, WorkerType
<1>3. UNCHANGED engineVars
  BY DEF WorkerStep, WorkerConnect, WorkerOpened, WorkerOpenFailed, WorkerRetry, WorkerWaitDone,
     WorkerTake, WorkerNoWrite, WorkerWrite, WorkerTick, WorkerSelectDone, WorkerPoll,
     WorkerIdleDone, WorkerDrain, WorkerDrained, WorkerExit, WorkerPanic
<1>4. \A x \in Workers : wpc'[x] = wpc[x] \/ (Alive(x) /\ wpc'[x] # "none")
  BY <1>1
  DEF WorkerStep, WorkerConnect, WorkerOpened, WorkerOpenFailed, WorkerRetry, WorkerWaitDone,
      WorkerTake, WorkerNoWrite, WorkerWrite, WorkerTick, WorkerSelectDone, WorkerPoll,
      WorkerIdleDone, WorkerDrain, WorkerDrained, WorkerExit, WorkerPanic, TypeOK, Alive
<1>5. PortInv'
  <2>1. CASE WorkerOpened(w)
    BY <1>1, <2>1 DEF WorkerOpened, TypeOK, Alive, PortInv
  <2>2. CASE WorkerRetry(w)
    BY <1>1, <2>2 DEF WorkerRetry, TypeOK, Alive, PortInv
  <2>3. CASE WorkerExit(w)
    BY <1>1, <2>3 DEF WorkerExit, TypeOK, Alive, PortInv
  <2>4. CASE ~(WorkerOpened(w) \/ WorkerRetry(w) \/ WorkerExit(w))
    BY <1>1, <2>4
    DEF WorkerStep, WorkerConnect, WorkerOpenFailed, WorkerWaitDone,
        WorkerTake, WorkerNoWrite, WorkerWrite, WorkerTick, WorkerSelectDone, WorkerPoll,
        WorkerIdleDone, WorkerDrain, WorkerDrained, WorkerPanic, TypeOK, Alive, PortInv
  <2> QED BY <2>1, <2>2, <2>3, <2>4
<1> QED BY <1>2, <1>3, <1>4, <1>5, WorkerOnly

\* Submitting a write keeps the invariant.
LEMMA SubmitInv ==
  ASSUME IInv, NEW c \in Cmds, SubmitCheck(c) \/ SubmitStep(c)
  PROVE  IInv'
<1>1. TypeOK'
  BY SubmitType DEF IInv
<1>2. UNCHANGED engineVars /\ UNCHANGED wpc /\ UNCHANGED open
  BY DEF SubmitStep, SubmitCheck, SubmitLookup, SubmitSend, SubmitFull, workerVars
<1>3. PortInv'
  BY <1>2 DEF IInv, PortInv, Alive
<1> QED BY <1>1, <1>2, <1>3, WorkerOnly

\* Waiting for one worker to end keeps the invariant.
LEMMA StopWorkerInv ==
  ASSUME IInv, NEW w \in Workers, StopWorker(w)
  PROVE  IInv'
<1>1. TypeOK /\ TypeOK'
  BY StopWorkerType DEF IInv
<1>2. UNCHANGED <<applyMu, pc, plan, workers, closed, wpc>>
  BY DEF StopWorker, WorkerCancel, WorkerForceClose, WorkerStopped, workerVars
<1>3. None \notin Workers
  BY EngineAssumption DEF Workers
<1>4. CASE WorkerCancel(w)
  <2> USE <1>1, <1>2, <1>3, <1>4 DEF IInv, WorkerCancel
  <2>1. LockInv' /\ MapInv' /\ StartedInv' /\ PortInv' /\ ClosedInv'
    BY DEF LockInv, MapInv, StartedInv, PortInv, ClosedInv, Alive
  <2>2. StopInv'
    BY DEF StopInv
  <2>3. AliveInv'
    BY DEF AliveInv, Alive
  <2>4. OnlyOutdatedStopped'
    BY DEF OnlyOutdatedStopped, FpOf
  <2> QED BY <2>1, <2>2, <2>3, <2>4
<1>5. CASE WorkerForceClose(w)
  BY <1>1, <1>2, <1>3, <1>5
  DEF IInv, WorkerForceClose, LockInv, MapInv, StartedInv, StopInv, AliveInv, PortInv, ClosedInv,
      OnlyOutdatedStopped, Alive, FpOf, TypeOK
<1>6. CASE WorkerStopped(w)
  <2> USE <1>1, <1>2, <1>3, <1>6 DEF IInv, WorkerStopped, workerVars
  <2>1. LockInv' /\ MapInv' /\ StartedInv' /\ PortInv' /\ ClosedInv'
    BY DEF LockInv, MapInv, StartedInv, PortInv, ClosedInv, Alive
  <2>2. StopInv'
    BY DEF StopInv, TypeOK
  <2>3. AliveInv'
    BY DEF AliveInv, Alive
  <2>4. OnlyOutdatedStopped'
    BY DEF OnlyOutdatedStopped, FpOf
  <2> QED BY <2>1, <2>2, <2>3, <2>4
<1> QED BY <1>4, <1>5, <1>6 DEF StopWorker

\* The steps of Apply keep the invariant.
LEMMA ApplyInv ==
  ASSUME IInv, NEW a \in Applies, ApplyCall(a) \/ ApplyStep(a)
  PROVE  IInv'
<1>1. TypeOK /\ TypeOK'
  BY ApplyType DEF IInv
<1>2. a \in Callers /\ a \notin Stops /\ None \notin Callers
  BY EngineAssumption DEF Callers
<1> USE <1>1, <1>2 DEF IInv
<1>3. CASE ApplyCall(a)
  <2> USE <1>3 DEF ApplyCall, workerVars
  <2>1. LockInv' /\ MapInv' /\ StopInv' /\ AliveInv' /\ PortInv' /\ ClosedInv'
    BY DEF LockInv, MapInv, StopInv, AliveInv, PortInv, ClosedInv, Alive, TypeOK
  <2>2. StartedInv'
    BY DEF StartedInv, TypeOK, Workers, Callers
  <2>3. OnlyOutdatedStopped'
    <3> SUFFICES ASSUME NEW b \in Applies, NEW w \in Workers,
                        applyMu = b, w \in toStop \/ stopping = w
                 PROVE  FpOf(w)' # plan'[b][ChannelOf(w)]
      BY DEF OnlyOutdatedStopped
    <3>1. b # a
      BY DEF LockInv
    <3>2. wpc[w] # "none"
      BY EngineAssumption DEF StopInv, Workers
    <3>3. w[1] \in Applies /\ w[1] # a
      BY <3>2 DEF StartedInv, Workers
    <3> QED BY <3>1, <3>3 DEF OnlyOutdatedStopped, FpOf, TypeOK
  <2> QED BY <2>1, <2>2, <2>3
<1>4. CASE ApplyRefuse(a)
  <2> USE <1>4 DEF ApplyRefuse, workerVars
  <2>1. LockInv' /\ MapInv' /\ StopInv' /\ AliveInv' /\ PortInv' /\ ClosedInv'
    BY DEF LockInv, MapInv, StopInv, AliveInv, PortInv, ClosedInv, Alive, TypeOK
  <2>2. StartedInv' /\ OnlyOutdatedStopped'
    BY DEF StartedInv, TypeOK, OnlyOutdatedStopped, FpOf, Workers
  <2> QED BY <2>1, <2>2
<1>5. CASE ApplyLock(a)
  <2> USE <1>5 DEF ApplyLock, workerVars
  <2>1. toStop = {} /\ stopping = None
    BY DEF LockInv
  <2>2. MapInv' /\ StopInv' /\ AliveInv' /\ PortInv' /\ ClosedInv'
    BY <2>1 DEF MapInv, StopInv, AliveInv, PortInv, ClosedInv, Alive, TypeOK
  <2>3. LockInv'
    BY <2>1 DEF LockInv, TypeOK
  <2>4. StartedInv'
    BY DEF StartedInv, TypeOK, Workers
  <2>5. OnlyOutdatedStopped'
    BY <2>1, EngineAssumption DEF OnlyOutdatedStopped, Workers
  <2> QED BY <2>2, <2>3, <2>4, <2>5
<1>6. CASE ApplyDiff(a)
  <2> USE <1>6 DEF ApplyDiff, workerVars
  <2>1. applyMu = a /\ toStop = {} /\ stopping = None
    BY DEF LockInv
  <2>2. \A w \in toStop' : /\ w \in Workers
                           /\ workers[ChannelOf(w)] = w
                           /\ ChannelOf(w) \in Outdated(a)
                           /\ w # None /\ wpc[w] # "none"
    BY DEF MapInv, Outdated, Running, TypeOK
  <2>3. LockInv'
    BY <2>1 DEF LockInv, TypeOK
  <2>4. MapInv' /\ PortInv'
    BY DEF MapInv, PortInv, Alive, TypeOK
  <2>5. StartedInv'
    BY DEF StartedInv, TypeOK, Workers
  <2>6. StopInv'
    BY <2>1, <2>2 DEF StopInv, Workers, ChannelOf
  <2>7. AliveInv'
    <3> SUFFICES ASSUME NEW w \in Workers, Alive(w)
                 PROVE  workers'[ChannelOf(w)] = w \/ w \in toStop'
      BY DEF AliveInv, Alive
    <3>1. workers[ChannelOf(w)] = w /\ ChannelOf(w) \in Channels
      BY <2>1, EngineAssumption DEF AliveInv, Workers, ChannelOf
    <3> QED BY <3>1 DEF TypeOK
  <2>8. ClosedInv'
    BY DEF ClosedInv, TypeOK, Callers
  <2>9. OnlyOutdatedStopped'
    BY <2>1, <2>2, EngineAssumption DEF OnlyOutdatedStopped, Outdated, FpOf, Workers
  <2> QED BY <2>3, <2>4, <2>5, <2>6, <2>7, <2>8, <2>9
<1>7. CASE ApplyStart(a)
  <2> USE <1>7 DEF ApplyStart
  <2>1. applyMu = a /\ toStop = {} /\ stopping = None /\ ~closed
    BY DEF LockInv, ClosedInv
  <2>2. \A ch \in ToStart(a) : /\ ch \in Channels
                              /\ workers[ch] = None
                              /\ <<a, ch>> \in Workers
                              /\ wpc'[<<a, ch>>] = "connect"
    BY DEF ToStart, Running, Workers
  <2>3. \A w \in Workers : wpc'[w] # wpc[w] => w = <<a, w[2]>> /\ w[2] \in ToStart(a)
                                                /\ wpc'[w] = "connect"
    BY DEF Workers
  <2>4. LockInv'
    BY <2>1 DEF LockInv, TypeOK
  <2>5. MapInv'
    BY <2>2, <2>3 DEF MapInv, TypeOK, ChannelOf
  <2>6. StartedInv'
    BY <2>3 DEF StartedInv, TypeOK, Workers
  <2>7. StopInv' /\ ClosedInv' /\ OnlyOutdatedStopped'
    BY <2>1, EngineAssumption DEF StopInv, ClosedInv, OnlyOutdatedStopped, TypeOK, Callers, Workers
  <2>8. AliveInv'
    <3> SUFFICES ASSUME NEW w \in Workers, Alive(w)'
                 PROVE  workers'[ChannelOf(w)] = w
      BY DEF AliveInv
    <3>1. CASE wpc'[w] = wpc[w]
      <4>1. workers[ChannelOf(w)] = w /\ ChannelOf(w) \in Channels /\ w # None
        BY <2>1, <3>1, EngineAssumption DEF AliveInv, Alive, Workers, ChannelOf
      <4>2. ChannelOf(w) \notin ToStart(a)
        BY <4>1 DEF ToStart, Running
      <4> QED BY <4>1, <4>2
    <3>2. CASE wpc'[w] # wpc[w]
      BY <2>2, <2>3, <3>2 DEF ChannelOf
    <3> QED BY <3>1, <3>2
  <2>9. PortInv'
    BY <2>3 DEF PortInv, Alive
  <2> QED BY <2>4, <2>5, <2>6, <2>7, <2>8, <2>9
<1> QED BY <1>3, <1>4, <1>5, <1>6, <1>7 DEF ApplyStep

\* The steps of Stop keep the invariant.
LEMMA StopInvStep ==
  ASSUME IInv, NEW s \in Stops, StopCall(s) \/ StopStep(s)
  PROVE  IInv'
<1>1. TypeOK /\ TypeOK'
  BY StopType DEF IInv
<1>2. s \in Callers /\ s \notin Applies /\ None \notin Callers
  BY EngineAssumption DEF Callers
<1> USE <1>1, <1>2 DEF IInv
<1>3. CASE StopCall(s)
  <2> USE <1>3 DEF StopCall, workerVars
  <2>1. LockInv' /\ MapInv' /\ StopInv' /\ AliveInv' /\ PortInv' /\ ClosedInv'
    BY DEF LockInv, MapInv, StopInv, AliveInv, PortInv, ClosedInv, Alive, TypeOK
  <2>2. StartedInv' /\ OnlyOutdatedStopped'
    BY DEF StartedInv, TypeOK, OnlyOutdatedStopped, FpOf, Workers
  <2> QED BY <2>1, <2>2
<1>4. CASE StopLock(s)
  <2> USE <1>4 DEF StopLock, workerVars
  <2>1. toStop = {} /\ stopping = None
    BY DEF LockInv
  <2>2. \A w \in toStop' : /\ w \in Workers
                           /\ workers[ChannelOf(w)] = w
                           /\ w # None /\ wpc[w] # "none"
    BY DEF MapInv, Running, TypeOK
  <2>3. \A ch \in Channels : workers'[ch] = None
    OBVIOUS
  <2>4. \A w \in Workers : ChannelOf(w) \in Channels
    BY DEF Workers, ChannelOf
  <2>5. LockInv'
    BY <2>1 DEF LockInv, TypeOK
  <2>6. MapInv' /\ PortInv'
    BY <2>3 DEF MapInv, PortInv, Alive
  <2>7. StartedInv'
    BY DEF StartedInv, TypeOK, Workers
  <2>8. StopInv'
    BY <2>1, <2>2, <2>3, <2>4 DEF StopInv
  <2>9. AliveInv'
    <3> SUFFICES ASSUME NEW w \in Workers, Alive(w)
                 PROVE  w \in toStop'
      BY DEF AliveInv, Alive
    <3>1. workers[ChannelOf(w)] = w /\ ChannelOf(w) \in Channels /\ w # None
      BY <2>1, <2>4, EngineAssumption DEF AliveInv, Workers
    <3> QED BY <3>1 DEF Running
  <2>10. ClosedInv'
    <3>1. \A t \in Applies : pc'[t] \notin {"diff", "stop"}
      BY DEF LockInv, TypeOK, Callers
    <3>2. \A t \in Stops : pc'[t] = "done" => pc[t] = "done"
      BY DEF TypeOK, Callers
    <3>3. (\E t \in Stops : pc[t] = "done") => toStop' = {}
      BY DEF ClosedInv, Running
    <3> QED BY <2>1, <2>3, <3>1, <3>2, <3>3 DEF ClosedInv
  <2>11. OnlyOutdatedStopped'
    BY DEF OnlyOutdatedStopped
  <2> QED BY <2>5, <2>6, <2>7, <2>8, <2>9, <2>10, <2>11
<1>5. CASE StopReturn(s)
  <2> USE <1>5 DEF StopReturn, workerVars
  <2>1. LockInv'
    BY DEF LockInv, TypeOK
  <2>2. MapInv' /\ StopInv' /\ AliveInv' /\ PortInv'
    BY DEF MapInv, StopInv, AliveInv, PortInv, Alive, TypeOK
  <2>3. StartedInv'
    BY DEF StartedInv, TypeOK, Workers
  <2>4. ClosedInv'
    BY DEF ClosedInv, TypeOK, Callers
  <2>5. OnlyOutdatedStopped'
    BY EngineAssumption DEF OnlyOutdatedStopped, Workers
  <2> QED BY <2>1, <2>2, <2>3, <2>4, <2>5
<1> QED BY <1>3, <1>4, <1>5 DEF StopStep

\* Every step keeps the invariant.
LEMMA StepInv == IInv /\ [Next]_vars => IInv'
<1> SUFFICES ASSUME IInv, [Next]_vars PROVE IInv'
  OBVIOUS
<1>1. TypeOK'
  BY TypeStep DEF IInv
<1>2. CASE UNCHANGED vars
  BY <1>1, <1>2, WorkerOnly DEF vars, engineVars, workerVars, IInv, PortInv, Alive
<1>3. CASE CancelParent
  <2> USE <1>3 DEF CancelParent, workerVars
  <2>1. LockInv' /\ MapInv' /\ StartedInv' /\ StopInv' /\ AliveInv' /\ PortInv' /\ ClosedInv'
    BY DEF IInv, LockInv, MapInv, StartedInv, StopInv, AliveInv, PortInv, ClosedInv, Alive
  <2>2. OnlyOutdatedStopped'
    BY DEF IInv, OnlyOutdatedStopped, FpOf
  <2> QED BY <1>1, <2>1, <2>2 DEF IInv
<1> QED BY <1>2, <1>3, ApplyInv, StopInvStep, StopWorkerInv, WorkerInv, SubmitInv DEF Next

\* Every reachable state satisfies the invariant.
LEMMA Invariance == Spec => []IInv
BY InitInv, StepInv, PTL DEF Spec

-----------------------------------------------------------------------------
\* What follows from the invariant.

\* The workers that run are those of the table or being stopped.
LEMMA OneWorkerLemma == IInv => OneWorkerPerChannel
<1> SUFFICES ASSUME IInv, NEW w1 \in Workers, NEW w2 \in Workers,
                    Alive(w1), Alive(w2), ChannelOf(w1) = ChannelOf(w2)
             PROVE  w1 = w2
  BY DEF OneWorkerPerChannel
<1>1. w1 # None /\ w2 # None
  BY EngineAssumption DEF Workers
<1>2. workers[ChannelOf(w1)] = w1 \/ w1 \in toStop \/ stopping = w1
  BY DEF IInv, AliveInv
<1>3. workers[ChannelOf(w1)] = w2 \/ w2 \in toStop \/ stopping = w2
  BY DEF IInv, AliveInv
<1> QED BY <1>1, <1>2, <1>3 DEF IInv, StopInv

\* At most one goroutine works for a channel, whatever reloads, stops and
\* panics do (the promise of the field applyMu of Engine).
THEOREM OneWorker == Spec => []OneWorkerPerChannel
BY Invariance, OneWorkerLemma, PTL

\* The port of a channel has one owner, which is alive (worker.go, run and
\* stop, which both close the driver).
THEOREM PortOwner == Spec => []PortExclusive
<1>1. IInv => PortExclusive
  BY OneWorkerLemma DEF PortExclusive, OneWorkerPerChannel, IInv, PortInv
<1> QED BY <1>1, Invariance, PTL

\* After Engine.Stop has returned no worker runs and none starts (engine.go,
\* Stop and the check of closed in Apply).
THEOREM StopFinal == Spec => []StopIsFinal
<1>1. IInv => StopIsFinal
  <2> SUFFICES ASSUME IInv, NEW s \in Stops, pc[s] = "done", NEW w \in Workers
               PROVE  ~Alive(w)
    BY DEF StopIsFinal
  <2>1. w # None /\ ChannelOf(w) \in Channels
    BY EngineAssumption DEF Workers, ChannelOf
  <2>2. toStop = {} /\ stopping = None /\ workers[ChannelOf(w)] = None
    BY <2>1 DEF IInv, ClosedInv
  <2> QED BY <2>1, <2>2 DEF IInv, AliveInv
<1> QED BY <1>1, Invariance, PTL

\* A reload stops only the links whose fingerprint differs from the plan it
\* applies (engine.go, Apply).
THEOREM OnlyOutdated == Spec => []OnlyOutdatedStopped
BY Invariance, PTL DEF IInv

-----------------------------------------------------------------------------
\* What a reload leaves running.

\* A reload in its stop loop has left in the map only workers it wants as they
\* are.
KeptInv ==
  \A a \in Applies : pc[a] = "stop" =>
    \A ch \in Channels : workers[ch] # None => FpOf(workers[ch]) = plan[a][ch]

\* Only workers whose driver could be built are in the map.
RunnableInv ==
  \A ch \in Channels :
    workers[ch] # None => FpOf(workers[ch]) \notin BadFps \cup {None}

\* A step that leaves the map, the plans and the calls alone keeps both.
LEMMA ConvergeOnly ==
  ASSUME KeptInv, RunnableInv, UNCHANGED <<pc, plan, workers>>
  PROVE  KeptInv' /\ RunnableInv'
<1> QED BY DEF KeptInv, RunnableInv, FpOf

\* A call of Apply plans for itself: what is in the map was started by others.
LEMMA CallConverge ==
  ASSUME IInv, KeptInv, RunnableInv, NEW a \in Applies, ApplyCall(a)
  PROVE  KeptInv' /\ RunnableInv'
<1> USE DEF ApplyCall
<1>1. \A ch \in Channels : workers[ch] # None =>
        workers[ch] \in Workers /\ workers[ch][1] \in Applies /\ workers[ch][1] # a
  BY DEF IInv, TypeOK, MapInv, StartedInv, Workers
<1>2. \A b \in Applies : b # a => plan'[b] = plan[b]
  BY DEF IInv, TypeOK
<1>3. \A ch \in Channels : workers'[ch] # None =>
        workers[ch] # None /\ FpOf(workers[ch])' = FpOf(workers[ch])
  BY <1>1, <1>2 DEF FpOf
<1>4. \A b \in Applies : pc'[b] = "stop" => pc[b] = "stop" /\ plan'[b] = plan[b]
  BY <1>2 DEF IInv, TypeOK, Callers
<1> QED BY <1>3, <1>4 DEF KeptInv, RunnableInv

\* Taking the outdated workers out of the map leaves the wanted ones.
LEMMA DiffConverge ==
  ASSUME IInv, KeptInv, RunnableInv, NEW a \in Applies, ApplyDiff(a)
  PROVE  KeptInv' /\ RunnableInv'
<1> USE DEF ApplyDiff
<1>1. \A ch \in Channels : workers'[ch] # None =>
        workers[ch] # None /\ workers'[ch] = workers[ch] /\ FpOf(workers[ch]) = plan[a][ch]
  BY DEF Outdated, Running
<1>2. \A b \in Applies : pc'[b] = "stop" => b = a
  BY DEF IInv, LockInv, TypeOK, Callers
<1> QED BY <1>1, <1>2 DEF KeptInv, RunnableInv, FpOf

\* What a reload starts is what it wants, and its driver could be built.
LEMMA StartConverge ==
  ASSUME IInv, KeptInv, RunnableInv, NEW a \in Applies, ApplyStart(a)
  PROVE  KeptInv' /\ RunnableInv'
<1> USE DEF ApplyStart
<1>1. \A b \in Applies : pc'[b] # "stop"
  BY DEF IInv, LockInv, TypeOK, Callers
<1>2. ASSUME NEW ch \in Channels, workers'[ch] # None
      PROVE  FpOf(workers[ch])' \notin BadFps \cup {None}
  <2>1. CASE ch \in ToStart(a)
    <3>1. workers'[ch] = <<a, ch>>
      BY <2>1
    <3>2. FpOf(workers[ch])' = plan[a][ch]
      BY <3>1 DEF FpOf
    <3> QED BY <2>1, <3>2 DEF ToStart
  <2>2. CASE ch \notin ToStart(a)
    BY <1>2, <2>2 DEF RunnableInv, FpOf
  <2> QED BY <2>1, <2>2
<1> QED BY <1>1, <1>2 DEF KeptInv, RunnableInv

\* Stop empties the map; it stops beside no reload.
LEMMA StopConverge ==
  ASSUME IInv, KeptInv, RunnableInv, NEW s \in Stops, StopCall(s) \/ StopStep(s)
  PROVE  KeptInv' /\ RunnableInv'
<1>1. \A a \in Applies : pc'[a] = pc[a]
  BY EngineAssumption DEF StopCall, StopStep, StopLock, StopReturn, IInv, TypeOK, Callers
<1>2. plan' = plan /\ \A ch \in Channels : workers'[ch] # None => workers'[ch] = workers[ch]
  BY DEF StopCall, StopStep, StopLock, StopReturn
<1> QED BY <1>1, <1>2 DEF KeptInv, RunnableInv, FpOf

\* Every step keeps the two.
LEMMA ConvergeStep ==
  IInv /\ KeptInv /\ RunnableInv /\ [Next]_vars => KeptInv' /\ RunnableInv'
<1> SUFFICES ASSUME IInv, KeptInv, RunnableInv, [Next]_vars
             PROVE  KeptInv' /\ RunnableInv'
  OBVIOUS
<1>1. CASE \E a \in Applies : ApplyCall(a) \/ ApplyStep(a)
  <2> PICK a \in Applies : ApplyCall(a) \/ ApplyStep(a)
    BY <1>1
  <2>1. CASE ApplyRefuse(a) \/ ApplyLock(a)
    <3>1. \A b \in Applies : pc'[b] = "stop" => pc[b] = "stop"
      BY <2>1 DEF ApplyRefuse, ApplyLock, IInv, TypeOK, Callers
    <3>2. UNCHANGED <<plan, workers>>
      BY <2>1 DEF ApplyRefuse, ApplyLock
    <3> QED BY <3>1, <3>2 DEF KeptInv, RunnableInv, FpOf
  <2> QED BY <2>1, CallConverge, DiffConverge, StartConverge DEF ApplyStep
<1>2. CASE \E s \in Stops : StopCall(s) \/ StopStep(s)
  BY <1>2, StopConverge
<1>3. CASE \E w \in Workers : StopWorker(w) \/ WorkerStep(w) \/ WorkerPanic(w)
  <2>1. UNCHANGED <<pc, plan, workers>>
    BY <1>3 DEF StopWorker, WorkerCancel, WorkerForceClose, WorkerStopped, WorkerStep,
         WorkerConnect, WorkerOpened, WorkerOpenFailed, WorkerRetry, WorkerWaitDone,
         WorkerTake, WorkerNoWrite, WorkerWrite, WorkerTick, WorkerSelectDone, WorkerPoll,
         WorkerIdleDone, WorkerDrain, WorkerDrained, WorkerExit, WorkerPanic, engineVars
  <2> QED BY <2>1, ConvergeOnly
<1>4. CASE \E c \in Cmds : SubmitCheck(c) \/ SubmitStep(c)
  <2>1. UNCHANGED <<pc, plan, workers>>
    BY <1>4 DEF SubmitCheck, SubmitStep, SubmitLookup, SubmitSend, SubmitFull, engineVars
  <2> QED BY <2>1, ConvergeOnly
<1>5. CASE CancelParent
  BY <1>5, ConvergeOnly DEF CancelParent
<1>6. CASE UNCHANGED vars
  BY <1>6, ConvergeOnly DEF vars, engineVars
<1> QED BY <1>1, <1>2, <1>3, <1>4, <1>5, <1>6 DEF Next

\* A call of Apply returns in one way only, by starting what is missing.
LEMMA ReturnStep ==
  ASSUME IInv, [Next]_vars, NEW a \in Applies, pc[a] # "done", pc'[a] = "done"
  PROVE  ApplyStart(a)
<1>1. CASE \E b \in Applies : ApplyCall(b) \/ ApplyStep(b)
  BY <1>1 DEF ApplyCall, ApplyStep, ApplyRefuse, ApplyLock, ApplyDiff, ApplyStart,
              IInv, TypeOK, Callers
<1>2. CASE \E s \in Stops : StopCall(s) \/ StopStep(s)
  BY <1>2, EngineAssumption DEF StopCall, StopStep, StopLock, StopReturn, IInv, TypeOK, Callers
<1>3. CASE \E w \in Workers : StopWorker(w) \/ WorkerStep(w) \/ WorkerPanic(w)
  BY <1>3 DEF StopWorker, WorkerCancel, WorkerForceClose, WorkerStopped, WorkerStep,
       WorkerConnect, WorkerOpened, WorkerOpenFailed, WorkerRetry, WorkerWaitDone,
       WorkerTake, WorkerNoWrite, WorkerWrite, WorkerTick, WorkerSelectDone, WorkerPoll,
       WorkerIdleDone, WorkerDrain, WorkerDrained, WorkerExit, WorkerPanic, engineVars
<1>4. CASE \E c \in Cmds : SubmitCheck(c) \/ SubmitStep(c)
  BY <1>4 DEF SubmitCheck, SubmitStep, SubmitLookup, SubmitSend, SubmitFull, engineVars
<1>5. CASE CancelParent \/ UNCHANGED vars
  BY <1>5 DEF CancelParent, vars, engineVars
<1> QED BY <1>1, <1>2, <1>3, <1>4, <1>5 DEF Next

\* When Apply returns, each channel runs what the call asked for: a worker of
\* the plan it wants, or none where it wants none or the driver could not be
\* built.
THEOREM Converges == Spec => ReloadConverges
<1> DEFINE Done == \A a \in Applies : pc[a] # "done" /\ pc'[a] = "done" =>
                     \A ch \in Channels :
                       IF plan[a][ch] \in BadFps \cup {None}
                       THEN workers'[ch] = None
                       ELSE workers'[ch] # None /\ FpOf(workers'[ch]) = plan[a][ch]
<1>1. Init => KeptInv /\ RunnableInv
  BY EngineAssumption DEF Init, EngineInit, KeptInv, RunnableInv, Callers
<1>2. ASSUME IInv, KeptInv, RunnableInv, [Next]_vars PROVE Done
  <2> SUFFICES ASSUME NEW a \in Applies, pc[a] # "done", pc'[a] = "done", NEW ch \in Channels
               PROVE  IF plan[a][ch] \in BadFps \cup {None}
                      THEN workers'[ch] = None
                      ELSE workers'[ch] # None /\ FpOf(workers'[ch]) = plan[a][ch]
    OBVIOUS
  <2>1. ApplyStart(a)
    BY <1>2, ReturnStep
  <2>2. CASE workers[ch] # None
    <3>1. workers'[ch] = workers[ch]
      BY <2>1, <2>2 DEF ApplyStart, ToStart, Running
    <3>2. FpOf(workers[ch]) = plan[a][ch] /\ plan[a][ch] \notin BadFps \cup {None}
      BY <1>2, <2>1, <2>2 DEF ApplyStart, KeptInv, RunnableInv
    <3> QED BY <2>2, <3>1, <3>2
  <2>3. CASE workers[ch] = None
    <3>1. ch \in ToStart(a) <=> plan[a][ch] \notin BadFps \cup {None}
      BY <2>3 DEF ToStart, Running
    <3>2. CASE ch \in ToStart(a)
      <4>1. workers'[ch] = <<a, ch>>
        BY <2>1, <3>2 DEF ApplyStart
      <4>2. workers'[ch] # None /\ FpOf(workers'[ch]) = plan[a][ch]
        BY <4>1, EngineAssumption DEF FpOf
      <4> QED BY <3>1, <3>2, <4>2
    <3>3. CASE ch \notin ToStart(a)
      BY <2>1, <2>3, <3>1, <3>3 DEF ApplyStart
    <3> QED BY <3>2, <3>3
  <2> QED BY <2>2, <2>3
<1>3. Spec => [](IInv /\ KeptInv /\ RunnableInv)
  BY <1>1, ConvergeStep, Invariance, PTL DEF Spec
<1>4. IInv /\ KeptInv /\ RunnableInv /\ [Next]_vars => [Done]_vars
  BY <1>2
<1> QED BY <1>3, <1>4, PTL DEF Spec, ReloadConverges

-----------------------------------------------------------------------------
\* Queues without repetition.

Elems(s) == {s[i] : i \in 1 .. Len(s)}

Distinct(s) == \A i, j \in 1 .. Len(s) : s[i] = s[j] => i = j

\* What is left of a queue is what was in it but its head.
LEMMA TailElems ==
  ASSUME NEW S, NEW q \in Seq(S), q # << >>, Distinct(q)
  PROVE  /\ Head(q) \in S /\ Head(q) \in Elems(q)
         /\ Elems(Tail(q)) = Elems(q) \ {Head(q)}
         /\ Distinct(Tail(q))
<1> DEFINE r == Tail(q)
<1>1. /\ Len(q) \in Nat \ {0} /\ Head(q) = q[1] /\ q[1] \in S /\ r \in Seq(S)
      /\ Len(r) = Len(q) - 1
  OBVIOUS
<1>2. \A i \in 1 .. Len(r) : i + 1 \in 1 .. Len(q) /\ r[i] = q[i + 1]
  BY <1>1
<1>3. \A i \in 1 .. Len(q) : i # 1 => i - 1 \in 1 .. Len(r) /\ r[i - 1] = q[i]
  BY <1>1
<1>4. 1 \in 1 .. Len(q)
  BY <1>1
<1>5. Distinct(r)
  <2> SUFFICES ASSUME NEW i \in 1 .. Len(r), NEW j \in 1 .. Len(r), r[i] = r[j]
               PROVE  i = j
    BY DEF Distinct
  <2>1. i + 1 = j + 1
    BY <1>2 DEF Distinct
  <2> QED BY <2>1
<1>6. ASSUME NEW x \in Elems(r) PROVE x \in Elems(q) /\ x # Head(q)
  <2>1. PICK i \in 1 .. Len(r) : x = r[i]
    BY <1>6 DEF Elems
  <2>2. i + 1 \in 1 .. Len(q) /\ x = q[i + 1] /\ i + 1 # 1
    BY <1>2, <2>1
  <2> QED BY <1>1, <1>4, <2>2 DEF Elems, Distinct
<1>7. ASSUME NEW x \in Elems(q), x # Head(q) PROVE x \in Elems(r)
  <2>1. PICK i \in 1 .. Len(q) : x = q[i]
    BY <1>7 DEF Elems
  <2>2. i # 1
    BY <1>1, <1>7, <2>1
  <2> QED BY <1>3, <2>1, <2>2 DEF Elems
<1> HIDE DEF r
<1>8. Elems(r) = Elems(q) \ {Head(q)}
  BY <1>6, <1>7
<1> QED BY <1>1, <1>4, <1>5, <1>8 DEF Elems, r

\* A longer queue holds what it held and the new element.
LEMMA AppendElems ==
  ASSUME NEW S, NEW q \in Seq(S), NEW c \in S, Distinct(q), c \notin Elems(q)
  PROVE  Elems(Append(q, c)) = Elems(q) \cup {c} /\ Distinct(Append(q, c))
<1> DEFINE r == Append(q, c)
<1>1. /\ Len(q) \in Nat /\ Len(r) = Len(q) + 1 /\ r[Len(q) + 1] = c
      /\ \A i \in 1 .. Len(q) : r[i] = q[i]
  OBVIOUS
<1> HIDE DEF r
<1>2. \A i \in 1 .. Len(r) : i \in 1 .. Len(q) \/ i = Len(q) + 1
  BY <1>1
<1>3. \A i \in 1 .. Len(q) : i \in 1 .. Len(r) /\ q[i] # c
  BY <1>1 DEF Elems
<1>4. Distinct(r)
  BY <1>1, <1>2, <1>3 DEF Distinct
<1>5. Len(q) + 1 \in 1 .. Len(r)
  BY <1>1
<1>6. \A x \in Elems(r) : x \in Elems(q) \/ x = c
  BY <1>1, <1>2 DEF Elems
<1>7. \A x \in Elems(q) : x \in Elems(r)
  BY <1>1, <1>3 DEF Elems
<1>8. c \in Elems(r)
  BY <1>1, <1>5 DEF Elems
<1> QED BY <1>4, <1>6, <1>7, <1>8 DEF r

-----------------------------------------------------------------------------
\* The parts of the inductive invariant.

\* A command in a queue, or in the hands of a worker, waits for its answer from
\* the worker it was sent to.
Waits(c, w) == cpc[c] = "accepted" /\ answers[c] = 0 /\ target[c] = w

QueuedInv == \A w \in Workers : \A c \in Elems(queue[w]) : Waits(c, w)

\* It waits in one place only.
OnceInv == \A w \in Workers : Distinct(queue[w]) /\ cur[w] \notin Elems(queue[w])

\* A worker has a command in hand while it executes it.
HandInv ==
  \A w \in Workers : /\ wpc[w] = "write" <=> cur[w] # None
                     /\ cur[w] # None => Waits(cur[w], w)

\* No command is answered twice, or before it is accepted.
AnswerInv ==
  \A c \in Cmds : answers[c] = 0 \/ (answers[c] = 1 /\ cpc[c] = "accepted")

\* Submit sends to a worker it has found.
TargetInv == \A c \in Cmds : cpc[c] \in {"sending", "accepted"} => target[c] \in Workers

\* An accepted command without an answer is somewhere, or lost.
FoundInv ==
  \A c \in Cmds :
    cpc[c] = "accepted" /\ answers[c] = 0 /\ c \notin lost =>
      cur[target[c]] = c \/ c \in Elems(queue[target[c]])

\* What is sent to a worker that has drained its queue is lost.
DrainedInv ==
  \A w \in Workers : wpc[w] \in {"close", "done"} => Elems(queue[w]) \subseteq lost

CmdInv == /\ QueuedInv
          /\ OnceInv
          /\ HandInv
          /\ AnswerInv
          /\ TargetInv
          /\ FoundInv
          /\ DrainedInv

\* No command has been submitted at the start.
LEMMA CmdInit == Init => CmdInv
<1> SUFFICES ASSUME Init PROVE CmdInv
  OBVIOUS
<1>1. \A w \in Workers : queue[w] = << >> /\ wpc[w] = "none" /\ cur[w] = None
  BY DEF Init, WorkerInit
<1>2. \A c \in Cmds : cpc[c] = "idle" /\ answers[c] = 0
  BY DEF Init, CommandInit
<1>3. \A w \in Workers : Elems(queue[w]) = {} /\ Distinct(queue[w])
  BY <1>1 DEF Elems, Distinct
<1>4. QueuedInv /\ OnceInv /\ DrainedInv
  BY <1>3 DEF QueuedInv, OnceInv, DrainedInv
<1>5. HandInv
  BY <1>1 DEF HandInv
<1>6. AnswerInv /\ TargetInv /\ FoundInv
  BY <1>2 DEF AnswerInv, TargetInv, FoundInv
<1> QED BY <1>4, <1>5, <1>6 DEF CmdInv

-----------------------------------------------------------------------------
\* The steps of a worker.

\* Most steps touch no command: they keep the invariant when no worker begins
\* or ends an execution and only an empty queue counts as drained.
LEMMA Quiet ==
  ASSUME CmdInv, UNCHANGED <<queue, cur, cpc, target, answers, lost>>,
         \A w \in Workers :
           /\ wpc'[w] = "write" <=> wpc[w] = "write"
           /\ wpc'[w] \in {"close", "done"} => wpc[w] \in {"close", "done"} \/ queue[w] = << >>
  PROVE  CmdInv'
<1>1. QueuedInv' /\ OnceInv' /\ AnswerInv' /\ TargetInv' /\ FoundInv'
  BY DEF CmdInv, QueuedInv, OnceInv, AnswerInv, TargetInv, FoundInv, Waits
<1>2. HandInv'
  BY DEF CmdInv, HandInv, Waits
<1>3. Elems(<< >>) = {}
  BY DEF Elems
<1>4. DrainedInv'
  BY <1>3 DEF CmdInv, DrainedInv
<1> QED BY <1>1, <1>2, <1>4 DEF CmdInv

\* The control point of one worker moves, the others stay.
LEMMA Moves ==
  ASSUME TypeOK, NEW w \in Workers, NEW from, NEW to, Goto(w, from, to)
  PROVE  /\ wpc[w] = from /\ wpc'[w] = to
         /\ \A v \in Workers \ {w} : wpc'[v] = wpc[v]
  BY DEF TypeOK, Goto

\* The first command of a queue is received.
LEMMA Received ==
  ASSUME TypeOK, OnceInv, QueuedInv, NEW w \in Workers, queue[w] # << >>,
         queue' = [queue EXCEPT ![w] = Tail(@)]
  PROVE  /\ Elems(queue'[w]) = Elems(queue[w]) \ {Head(queue[w])}
         /\ Distinct(queue'[w])
         /\ Head(queue[w]) \in Elems(queue[w]) /\ Head(queue[w]) \in Cmds
         /\ Head(queue[w]) # None
         /\ Waits(Head(queue[w]), w)
         /\ \A v \in Workers \ {w} : queue'[v] = queue[v]
<1>1. queue[w] \in Seq(Cmds) /\ queue'[w] = Tail(queue[w])
      /\ \A v \in Workers \ {w} : queue'[v] = queue[v]
  BY DEF TypeOK
<1>2. Distinct(queue[w])
  BY DEF OnceInv
<1> QED BY <1>1, <1>2, TailElems, EngineAssumption DEF QueuedInv

\* A write taken from the queue is in one place still.
LEMMA TakeCmd ==
  ASSUME IInv, CmdInv, NEW w \in Workers, WorkerTake(w)
  PROVE  CmdInv'
<1>1. TypeOK /\ QueuedInv /\ OnceInv /\ HandInv /\ FoundInv /\ TargetInv /\ DrainedInv
  BY DEF IInv, CmdInv
<1>2. wpc[w] = "collect" /\ wpc'[w] = "write" /\ \A v \in Workers \ {w} : wpc'[v] = wpc[v]
  BY <1>1, Moves DEF WorkerTake
<1>3. queue[w] # << >> /\ queue' = [queue EXCEPT ![w] = Tail(@)]
      /\ UNCHANGED <<cpc, target, answers, lost>>
  BY DEF WorkerTake, commandVars
<1> DEFINE c == Head(queue[w])
<1>4. cur'[w] = c /\ \A v \in Workers \ {w} : cur'[v] = cur[v]
  BY <1>1 DEF WorkerTake, TypeOK
<1>5. /\ Elems(queue'[w]) = Elems(queue[w]) \ {c} /\ Distinct(queue'[w])
      /\ c \in Elems(queue[w]) /\ c # None /\ Waits(c, w)
      /\ \A v \in Workers \ {w} : queue'[v] = queue[v]
  BY <1>1, <1>3, Received
<1> HIDE DEF c
<1>6. \A d, v : Waits(d, v)' <=> Waits(d, v)
  BY <1>3 DEF Waits
<1>7. QueuedInv'
  BY <1>1, <1>5, <1>6 DEF QueuedInv
<1>8. OnceInv'
  BY <1>1, <1>4, <1>5 DEF OnceInv
<1>9. HandInv'
  BY <1>1, <1>2, <1>4, <1>5, <1>6 DEF HandInv
<1>10. AnswerInv' /\ TargetInv'
  BY <1>3 DEF CmdInv, AnswerInv, TargetInv
<1>11. cur[w] = None
  BY <1>1, <1>2 DEF HandInv
<1>12. FoundInv'
  <2> SUFFICES ASSUME NEW d \in Cmds, cpc[d] = "accepted", answers[d] = 0, d \notin lost
               PROVE  cur'[target[d]] = d \/ d \in Elems(queue'[target[d]])
    BY <1>3 DEF FoundInv
  <2>1. cur[target[d]] = d \/ d \in Elems(queue[target[d]])
    BY <1>1 DEF FoundInv
  <2>2. target[d] \in Workers /\ d # None
    BY <1>1, EngineAssumption DEF TargetInv
  <2> QED BY <1>4, <1>5, <1>11, <2>1, <2>2
<1>13. DrainedInv'
  BY <1>1, <1>2, <1>3, <1>5 DEF DrainedInv
<1> QED BY <1>7, <1>8, <1>9, <1>10, <1>12, <1>13 DEF CmdInv

\* A worker answers a command that waits for it: after that the command is in
\* no queue and in no hands.
LEMMA AnswerCmd ==
  ASSUME IInv, CmdInv, NEW w \in Workers, NEW c \in Cmds, Waits(c, w),
         answers' = [answers EXCEPT ![c] = @ + 1], UNCHANGED <<cpc, target, lost>>,
         \A v \in Workers \ {w} : queue'[v] = queue[v] /\ cur'[v] = cur[v] /\ wpc'[v] = wpc[v],
         Elems(queue'[w]) = Elems(queue[w]) \ {c}, Distinct(queue'[w]),
         cur'[w] = None, cur[w] \in {None, c},
         wpc'[w] \notin {"write", "close", "done"}
  PROVE  CmdInv'
<1>1. TypeOK /\ QueuedInv /\ OnceInv /\ HandInv /\ AnswerInv /\ FoundInv /\ TargetInv /\ DrainedInv
  BY DEF IInv, CmdInv
<1>2. answers[c] = 0 /\ answers'[c] = 1 /\ \A d \in Cmds \ {c} : answers'[d] = answers[d]
  BY <1>1 DEF TypeOK, Waits
<1>3. \A v \in Workers : Elems(queue[v]) \subseteq Cmds /\ cur[v] \in Cmds \cup {None}
  BY <1>1 DEF TypeOK, Elems
<1>4. ASSUME NEW v \in Workers, NEW d \in Cmds, d # c, Waits(d, v) PROVE Waits(d, v)'
  BY <1>2, <1>4 DEF Waits
<1>5. ASSUME NEW v \in Workers \ {w} PROVE c \notin Elems(queue[v]) /\ cur[v] # c
  BY <1>1, EngineAssumption DEF QueuedInv, HandInv, Waits
<1>6. None \notin Cmds
  BY EngineAssumption
<1>7. QueuedInv'
  <2> SUFFICES ASSUME NEW v \in Workers, NEW d \in Elems(queue'[v]) PROVE Waits(d, v)'
    BY DEF QueuedInv
  <2>1. d \in Elems(queue[v]) /\ d # c
    BY <1>5
  <2> QED BY <1>1, <1>3, <1>4, <2>1 DEF QueuedInv
<1>8. OnceInv'
  BY <1>1, <1>3, <1>6 DEF OnceInv
<1>9. HandInv'
  <2> SUFFICES ASSUME NEW v \in Workers
               PROVE  (wpc'[v] = "write" <=> cur'[v] # None) /\ (cur'[v] # None => Waits(cur[v], v)' )
                      /\ (cur'[v] # None => cur'[v] = cur[v])
    BY DEF HandInv, Waits
  <2> QED BY <1>1, <1>3, <1>4, <1>5 DEF HandInv
<1>10. AnswerInv' /\ TargetInv'
  BY <1>1, <1>2 DEF AnswerInv, TargetInv, Waits
<1>11. FoundInv'
  <2> SUFFICES ASSUME NEW d \in Cmds, cpc[d] = "accepted", answers'[d] = 0, d \notin lost
               PROVE  cur'[target[d]] = d \/ d \in Elems(queue'[target[d]])
    BY DEF FoundInv
  <2>1. d # c
    BY <1>2
  <2>2. cur[target[d]] = d \/ d \in Elems(queue[target[d]])
    BY <1>1, <1>2, <2>1 DEF FoundInv
  <2>3. target[d] \in Workers
    BY <1>1 DEF TargetInv
  <2> QED BY <1>6, <2>1, <2>2, <2>3
<1>12. DrainedInv'
  BY <1>1 DEF DrainedInv
<1> QED BY <1>7, <1>8, <1>9, <1>10, <1>11, <1>12 DEF CmdInv

\* A write that is executed is answered once.
LEMMA WriteCmd ==
  ASSUME IInv, CmdInv, NEW w \in Workers, WorkerWrite(w)
  PROVE  CmdInv' /\ cur[w] \in Cmds /\ Waits(cur[w], w)
<1>1. TypeOK /\ OnceInv /\ HandInv
  BY DEF IInv, CmdInv
<1>2. wpc[w] = "write" /\ wpc'[w] = "collect" /\ \A v \in Workers \ {w} : wpc'[v] = wpc[v]
  BY <1>1, Moves DEF WorkerWrite
<1>3. cur'[w] = None /\ (\A v \in Workers \ {w} : cur'[v] = cur[v])
      /\ UNCHANGED <<queue, cpc, target, lost>>
      /\ answers' = [answers EXCEPT ![cur[w]] = @ + 1]
  BY <1>1 DEF WorkerWrite, TypeOK
<1>4. cur[w] \in Cmds /\ Waits(cur[w], w)
  BY <1>1, <1>2 DEF HandInv, TypeOK
<1>5. Distinct(queue'[w]) /\ Elems(queue'[w]) = Elems(queue[w]) \ {cur[w]}
  BY <1>1, <1>3 DEF OnceInv
<1> QED BY <1>2, <1>3, <1>4, <1>5, AnswerCmd

\* A write drained at the exit is answered once.
LEMMA DrainCmd ==
  ASSUME IInv, CmdInv, NEW w \in Workers, WorkerDrain(w)
  PROVE  CmdInv' /\ Head(queue[w]) \in Cmds /\ Waits(Head(queue[w]), w)
<1>1. TypeOK /\ OnceInv /\ HandInv /\ QueuedInv
  BY DEF IInv, CmdInv
<1>2. /\ wpc[w] = "drain" /\ queue[w] # << >> /\ queue' = [queue EXCEPT ![w] = Tail(@)]
      /\ answers' = [answers EXCEPT ![Head(queue[w])] = @ + 1]
      /\ UNCHANGED <<wpc, cur, cpc, target, lost>>
  BY DEF WorkerDrain
<1>3. cur[w] = None
  BY <1>1, <1>2 DEF HandInv
<1>4. /\ Elems(queue'[w]) = Elems(queue[w]) \ {Head(queue[w])} /\ Distinct(queue'[w])
      /\ Head(queue[w]) \in Cmds /\ Waits(Head(queue[w]), w)
      /\ \A v \in Workers \ {w} : queue'[v] = queue[v]
  BY <1>1, <1>2, Received
<1> QED BY <1>2, <1>3, <1>4, AnswerCmd

\* A panic loses the command in hand, if there is one.
LEMMA PanicCmd ==
  ASSUME IInv, CmdInv, NEW w \in Workers, WorkerPanic(w)
  PROVE  CmdInv'
<1>1. TypeOK /\ QueuedInv /\ OnceInv /\ HandInv /\ FoundInv /\ TargetInv /\ DrainedInv
  BY DEF IInv, CmdInv
<1>2. wpc[w] \in {"poll", "write"} /\ wpc'[w] = "drain"
      /\ \A v \in Workers \ {w} : wpc'[v] = wpc[v]
  BY <1>1, Moves DEF WorkerPanic
<1>3. /\ cur'[w] = None /\ (\A v \in Workers \ {w} : cur'[v] = cur[v])
      /\ lost' = lost \cup ({cur[w]} \ {None})
      /\ UNCHANGED <<queue, cpc, target, answers>>
  BY <1>1 DEF WorkerPanic, TypeOK
<1>4. \A d, v : Waits(d, v)' <=> Waits(d, v)
  BY <1>3 DEF Waits
<1>5. QueuedInv'
  BY <1>1, <1>3, <1>4 DEF QueuedInv
<1>6. \A v \in Workers : Elems(queue[v]) \subseteq Cmds
  BY <1>1 DEF TypeOK, Elems
<1>7. OnceInv'
  BY <1>1, <1>3, <1>6, EngineAssumption DEF OnceInv
<1>8. HandInv'
  BY <1>1, <1>2, <1>3, <1>4 DEF HandInv
<1>9. AnswerInv' /\ TargetInv'
  BY <1>3 DEF CmdInv, AnswerInv, TargetInv
<1>10. FoundInv'
  <2> SUFFICES ASSUME NEW d \in Cmds, cpc[d] = "accepted", answers[d] = 0, d \notin lost'
               PROVE  cur'[target[d]] = d \/ d \in Elems(queue[target[d]])
    BY <1>3 DEF FoundInv
  <2>1. d \notin lost /\ d # None
    BY <1>3, EngineAssumption
  <2>2. cur[target[d]] = d \/ d \in Elems(queue[target[d]])
    BY <1>1, <2>1 DEF FoundInv
  <2>3. target[d] \in Workers
    BY <1>1 DEF TargetInv
  <2> QED BY <1>3, <2>1, <2>2, <2>3
<1>11. DrainedInv'
  BY <1>1, <1>2, <1>3 DEF DrainedInv
<1> QED BY <1>5, <1>7, <1>8, <1>9, <1>10, <1>11 DEF CmdInv

\* The steps of a worker keep every command in one place.
LEMMA WorkerCmd ==
  ASSUME IInv, CmdInv, NEW w \in Workers, WorkerStep(w) \/ WorkerPanic(w)
  PROVE  CmdInv'
<1>1. CASE WorkerTake(w) \/ WorkerWrite(w) \/ WorkerDrain(w) \/ WorkerPanic(w)
  BY <1>1, TakeCmd, WriteCmd, DrainCmd, PanicCmd
<1>2. CASE ~(WorkerTake(w) \/ WorkerWrite(w) \/ WorkerDrain(w) \/ WorkerPanic(w))
  <2>1. UNCHANGED <<queue, cur, commandVars>>
    BY <1>2 DEF WorkerStep, WorkerConnect, WorkerOpened, WorkerOpenFailed, WorkerRetry,
       WorkerWaitDone, WorkerNoWrite, WorkerTick, WorkerSelectDone, WorkerPoll, WorkerIdleDone,
       WorkerDrained, WorkerExit
  <2>2. TypeOK
    BY DEF IInv
  <2>3. \A v \in Workers :
          /\ wpc'[v] = "write" <=> wpc[v] = "write"
          /\ wpc'[v] \in {"close", "done"} => wpc[v] \in {"close", "done"} \/ queue[v] = << >>
    BY <1>2, <2>2 DEF WorkerStep, WorkerConnect, WorkerOpened, WorkerOpenFailed, WorkerRetry,
       WorkerWaitDone, WorkerNoWrite, WorkerTick, WorkerSelectDone, WorkerPoll, WorkerIdleDone,
       WorkerDrained, WorkerExit, Goto, TypeOK
  <2> QED BY <2>1, <2>3, Quiet DEF commandVars
<1> QED BY <1>1, <1>2

-----------------------------------------------------------------------------
\* The steps of a caller.

\* A command that is sent is in one place.
LEMMA SendCmd ==
  ASSUME IInv, CmdInv, NEW c \in Cmds, SubmitSend(c)
  PROVE  CmdInv'
<1> DEFINE w == target[c]
<1>1. TypeOK /\ QueuedInv /\ OnceInv /\ HandInv /\ AnswerInv /\ FoundInv /\ TargetInv /\ DrainedInv
  BY DEF IInv, CmdInv
<1>2. /\ cpc[c] = "sending" /\ cpc' = [cpc EXCEPT ![c] = "accepted"]
      /\ queue' = [queue EXCEPT ![w] = Append(@, c)]
      /\ lost' = IF wpc[w] \in {"close", "done"} THEN lost \cup {c} ELSE lost
      /\ UNCHANGED <<wpc, cur, target, answers>>
  BY DEF SubmitSend
<1>3. w \in Workers
  BY <1>1, <1>2 DEF TargetInv
<1> HIDE DEF w
<1>4. cpc'[c] = "accepted" /\ \A d \in Cmds \ {c} : cpc'[d] = cpc[d]
  BY <1>1, <1>2 DEF TypeOK
<1>5. answers[c] = 0
  BY <1>1, <1>2 DEF AnswerInv
<1>6. \A v \in Workers : c \notin Elems(queue[v]) /\ cur[v] # c
  BY <1>1, <1>2, EngineAssumption DEF QueuedInv, HandInv, Waits
<1>7. \A v \in Workers : queue[v] \in Seq(Cmds) /\ Elems(queue[v]) \subseteq Cmds
  BY <1>1 DEF TypeOK, Elems
<1>8. queue'[w] = Append(queue[w], c) /\ \A v \in Workers \ {w} : queue'[v] = queue[v]
  BY <1>1, <1>2, <1>3 DEF TypeOK
<1>9. Elems(queue'[w]) = Elems(queue[w]) \cup {c} /\ Distinct(queue'[w])
  BY <1>1, <1>3, <1>6, <1>7, <1>8, AppendElems DEF OnceInv
<1>10. \A d, v : d \in Cmds \ {c} /\ Waits(d, v) => Waits(d, v)'
  BY <1>2, <1>4 DEF Waits
<1>11. cpc'[c] = "accepted" /\ answers'[c] = 0 /\ target'[c] = w
  BY <1>2, <1>4, <1>5 DEF w
<1>12. QueuedInv'
  <2> SUFFICES ASSUME NEW v \in Workers, NEW d \in Elems(queue'[v]) PROVE Waits(d, v)'
    BY DEF QueuedInv
  <2>1. CASE d = c
    BY <1>6, <1>8, <1>11, <2>1 DEF Waits
  <2>2. CASE d # c
    <3>1. d \in Elems(queue[v])
      BY <1>8, <1>9, <2>2
    <3> QED BY <1>1, <1>7, <1>10, <2>2, <3>1 DEF QueuedInv
  <2> QED BY <2>1, <2>2
<1>13. OnceInv'
  BY <1>1, <1>2, <1>6, <1>8, <1>9 DEF OnceInv
<1>14. HandInv'
  <2> SUFFICES ASSUME NEW v \in Workers, cur[v] # None PROVE Waits(cur[v], v)'
    BY <1>1, <1>2 DEF HandInv, Waits
  <2>1. Waits(cur[v], v) /\ cur[v] \in Cmds \ {c}
    BY <1>1, <1>6 DEF HandInv, TypeOK
  <2> QED BY <1>2, <1>10, <2>1 DEF Waits
<1>15. AnswerInv' /\ TargetInv'
  BY <1>1, <1>2, <1>3, <1>4, <1>5 DEF AnswerInv, TargetInv, w
<1>16. FoundInv'
  <2> SUFFICES ASSUME NEW d \in Cmds, cpc'[d] = "accepted", answers[d] = 0, d \notin lost'
               PROVE  cur[target[d]] = d \/ d \in Elems(queue'[target[d]])
    BY <1>2 DEF FoundInv
  <2>1. CASE d = c
    BY <1>9, <2>1 DEF w
  <2>2. CASE d # c
    <3>1. cpc[d] = "accepted" /\ d \notin lost
      BY <1>2, <1>4, <2>2
    <3>2. target[d] \in Workers /\ (cur[target[d]] = d \/ d \in Elems(queue[target[d]]))
      BY <1>1, <3>1 DEF FoundInv, TargetInv
    <3> QED BY <1>8, <1>9, <3>2
  <2> QED BY <2>1, <2>2
<1>17. DrainedInv'
  BY <1>1, <1>2, <1>8, <1>9 DEF DrainedInv
<1> QED BY <1>12, <1>13, <1>14, <1>15, <1>16, <1>17 DEF CmdInv

\* The other steps of Submit concern a command that is not accepted.
LEMMA OfferCmd ==
  ASSUME IInv, CmdInv, NEW c \in Cmds, SubmitCheck(c) \/ SubmitLookup(c) \/ SubmitFull(c)
  PROVE  CmdInv'
<1>1. TypeOK /\ MapInv /\ QueuedInv /\ OnceInv /\ HandInv /\ AnswerInv /\ FoundInv /\ TargetInv
      /\ DrainedInv
  BY DEF IInv, CmdInv
<1>2. cpc[c] \in {"idle", "checked", "sending"} /\ cpc'[c] \in {"checked", "sending", "rejected"}
      /\ (\A d \in Cmds \ {c} : cpc'[d] = cpc[d] /\ target'[d] = target[d])
  BY <1>1 DEF SubmitCheck, SubmitLookup, SubmitFull, TypeOK
<1>3. UNCHANGED <<wpc, queue, cur, answers, lost>>
  BY DEF SubmitCheck, SubmitLookup, SubmitFull, workerVars
<1>4. cpc'[c] = "sending" => target'[c] \in Workers
  <2>1. CASE SubmitLookup(c)
    <3>1. CmdChannel[c] \in Channels
      BY EngineAssumption
    <3> QED BY <1>1, <2>1, <3>1 DEF SubmitLookup, Running, TypeOK
  <2>2. CASE SubmitCheck(c) \/ SubmitFull(c)
    BY <1>1, <2>2 DEF SubmitCheck, SubmitFull, TypeOK
  <2> QED BY <2>1, <2>2
<1>5. \A d, v : d \in Cmds /\ Waits(d, v) => Waits(d, v)'
  BY <1>2, <1>3 DEF Waits
<1>6. \A v \in Workers : Elems(queue[v]) \subseteq Cmds /\ cur[v] \in Cmds \cup {None}
  BY <1>1 DEF TypeOK, Elems
<1>7. QueuedInv' /\ OnceInv' /\ DrainedInv'
  BY <1>1, <1>3, <1>5, <1>6 DEF QueuedInv, OnceInv, DrainedInv
<1>8. HandInv'
  BY <1>1, <1>3, <1>5, <1>6 DEF HandInv
<1>9. AnswerInv'
  BY <1>1, <1>2, <1>3 DEF AnswerInv
<1>10. TargetInv'
  BY <1>1, <1>2, <1>4 DEF TargetInv
<1>11. FoundInv'
  BY <1>1, <1>2, <1>3 DEF FoundInv
<1> QED BY <1>7, <1>8, <1>9, <1>10, <1>11 DEF CmdInv

-----------------------------------------------------------------------------
\* A reload starts workers that have never run; nothing else of the supervisor
\* touches a control point.
LEMMA StartCmd ==
  ASSUME IInv, CmdInv, NEW a \in Applies, ApplyStart(a)
  PROVE  CmdInv'
<1>1. UNCHANGED <<queue, cur, cpc, target, answers, lost>>
  BY DEF ApplyStart, commandVars
<1>2. \A w \in Workers : wpc'[w] = wpc[w] \/ (w[1] = a /\ wpc'[w] = "connect")
  BY DEF ApplyStart
<1>3. \A w \in Workers : w[1] = a => wpc[w] = "none"
  BY DEF ApplyStart, IInv, StartedInv
<1> QED BY <1>1, <1>2, <1>3, Quiet

\* The engine touches no command.
LEMMA SupervisorCmd ==
  ASSUME IInv, CmdInv, UNCHANGED <<queue, cur, commandVars>>, UNCHANGED wpc
  PROVE  CmdInv'
BY Quiet DEF commandVars

\* Every step keeps every command in one place.
LEMMA CmdStep == IInv /\ CmdInv /\ [Next]_vars => CmdInv'
<1> SUFFICES ASSUME IInv, CmdInv, [Next]_vars PROVE CmdInv'
  OBVIOUS
<1>1. CASE UNCHANGED vars
  BY <1>1, SupervisorCmd DEF vars, workerVars
<1>2. ASSUME NEW a \in Applies, ApplyCall(a) \/ ApplyStep(a) PROVE CmdInv'
  <2>1. CASE ApplyStart(a)
    BY <2>1, StartCmd
  <2>2. CASE ~ApplyStart(a)
    BY <1>2, <2>2, SupervisorCmd
    DEF ApplyStep, ApplyCall, ApplyRefuse, ApplyLock, ApplyDiff, workerVars
  <2> QED BY <2>1, <2>2
<1>3. ASSUME NEW s \in Stops, StopCall(s) \/ StopStep(s) PROVE CmdInv'
  BY <1>3, SupervisorCmd DEF StopStep, StopCall, StopLock, StopReturn, workerVars
<1>4. ASSUME NEW w \in Workers, StopWorker(w) PROVE CmdInv'
  BY <1>4, SupervisorCmd DEF StopWorker, WorkerCancel, WorkerForceClose, WorkerStopped, workerVars
<1>5. ASSUME NEW c \in Cmds, SubmitCheck(c) \/ SubmitStep(c) PROVE CmdInv'
  BY <1>5, SendCmd, OfferCmd DEF SubmitStep
<1>6. CASE CancelParent
  BY <1>6, SupervisorCmd DEF CancelParent, workerVars
<1> QED BY <1>1, <1>2, <1>3, <1>4, <1>5, <1>6, WorkerCmd DEF Next

\* Every reachable state keeps every command in one place.
LEMMA CmdInvariance == Spec => [](IInv /\ CmdInv)
BY InitInv, StepInv, CmdInit, CmdStep, PTL DEF Spec

-----------------------------------------------------------------------------
\* What follows from the invariant.

\* A worker ends only after it has answered every command it was given, but for
\* those a panic or its own end has lost (worker.go, the deferred calls of run:
\* "stop() sees done closed only after every receipt has been sent").
THEOREM ReceiptsSent == Spec => []ReceiptsBeforeDone
<1>1. IInv /\ CmdInv => ReceiptsBeforeDone
  <2> SUFFICES ASSUME IInv, CmdInv, NEW c \in Cmds, cpc[c] = "accepted",
                      wpc[target[c]] = "done", c \notin lost, answers[c] # 1
               PROVE  FALSE
    BY DEF ReceiptsBeforeDone
  <2> USE DEF CmdInv
  <2>1. answers[c] = 0 /\ target[c] \in Workers /\ c # None
    BY EngineAssumption DEF AnswerInv, TargetInv
  <2>2. cur[target[c]] = None
    BY <2>1 DEF HandInv
  <2>3. c \in Elems(queue[target[c]])
    BY <2>1, <2>2 DEF FoundInv
  <2> QED BY <2>1, <2>3 DEF DrainedInv
<1> QED BY <1>1, CmdInvariance, PTL

-----------------------------------------------------------------------------
\* The ledger of commands: what each step is to it.

\* The state the ledger sees changes for one command at most.
LEMMA LedgerMove ==
  ASSUME NEW c \in Cmds,
         \A d \in Cmds \ {c} : cpc'[d] = cpc[d] /\ answers'[d] = answers[d]
  PROVE  LedgerState' = [LedgerState EXCEPT ![c] = LedgerState'[c]]
<1>1. \A d \in Cmds \ {c} : LedgerState'[d] = LedgerState[d]
  BY DEF LedgerState
<1>2. LedgerState = [d \in Cmds |-> LedgerState[d]]
  BY DEF LedgerState
<1>3. LedgerState' = [d \in Cmds |-> LedgerState'[d]]
  BY DEF LedgerState
<1> QED BY <1>1, <1>2, <1>3

\* The ledger starts empty.
LEMMA InitSim == Init => Ledger!Init
BY DEF Init, CommandInit, Ledger!Init, LedgerState

\* Answering a write is a step of the ledger.
LEMMA AnswerSim ==
  ASSUME TypeOK, NEW c \in Cmds, NEW w, Waits(c, w),
         answers' = [answers EXCEPT ![c] = @ + 1], UNCHANGED cpc
  PROVE  Ledger!Next
<1>1. answers[c] = 0 /\ cpc[c] = "accepted" /\ answers'[c] = 1
      /\ \A d \in Cmds \ {c} : answers'[d] = answers[d]
  BY DEF TypeOK, Waits
<1>2. LedgerState[c] = "accepted" /\ LedgerState'[c] = "answered"
  BY <1>1 DEF LedgerState
<1>3. LedgerState' = [LedgerState EXCEPT ![c] = "answered"]
  BY <1>1, <1>2, LedgerMove
<1> QED BY <1>2, <1>3 DEF Ledger!Next, Ledger!Answer, Ledger!Move

\* Submitting a write is a step of the ledger or none.
LEMMA SubmitSim ==
  ASSUME TypeOK, AnswerInv, NEW c \in Cmds, SubmitCheck(c) \/ SubmitStep(c)
  PROVE  Ledger!Next \/ UNCHANGED LedgerState
<1>1. /\ cpc[c] \in {"idle", "checked", "sending"} /\ answers[c] = 0
      /\ UNCHANGED answers /\ \A d \in Cmds \ {c} : cpc'[d] = cpc[d]
  BY DEF SubmitStep, SubmitCheck, SubmitLookup, SubmitSend, SubmitFull, TypeOK, AnswerInv
<1>2. LedgerState' = [LedgerState EXCEPT ![c] = LedgerState'[c]]
  BY <1>1, LedgerMove
<1>3. CASE SubmitCheck(c)
  <2>1. LedgerState[c] = "new" /\ LedgerState'[c] \in {"offered", "rejected"}
    BY <1>1, <1>3 DEF SubmitCheck, LedgerState, TypeOK
  <2> QED BY <1>2, <2>1 DEF Ledger!Next, Ledger!Offer, Ledger!Refuse, Ledger!Move
<1>4. CASE SubmitLookup(c)
  <2>1. LedgerState[c] = "offered" /\ LedgerState'[c] \in {"offered", "rejected"}
    BY <1>1, <1>4 DEF SubmitLookup, LedgerState, TypeOK
  <2>2. LedgerState'[c] = "offered" => LedgerState' = LedgerState
    BY <1>2, <2>1 DEF LedgerState
  <2> QED BY <1>2, <2>1, <2>2 DEF Ledger!Next, Ledger!Refuse, Ledger!Move
<1>5. CASE SubmitSend(c)
  <2>1. LedgerState[c] = "offered" /\ LedgerState'[c] = "accepted"
    BY <1>1, <1>5 DEF SubmitSend, LedgerState, TypeOK
  <2> QED BY <1>2, <2>1 DEF Ledger!Next, Ledger!Accept, Ledger!Move
<1>6. CASE SubmitFull(c)
  <2>1. LedgerState[c] = "offered" /\ LedgerState'[c] = "rejected"
    BY <1>1, <1>6 DEF SubmitFull, LedgerState, TypeOK
  <2> QED BY <1>2, <2>1 DEF Ledger!Next, Ledger!Refuse, Ledger!Move
<1> QED BY <1>3, <1>4, <1>5, <1>6 DEF SubmitStep

\* Every step is one of the ledger or none.
LEMMA StepSim == IInv /\ CmdInv /\ [Next]_vars => [Ledger!Next]_LedgerState
<1> SUFFICES ASSUME IInv, CmdInv, [Next]_vars
             PROVE  Ledger!Next \/ UNCHANGED LedgerState
  OBVIOUS
<1>1. TypeOK /\ AnswerInv
  BY DEF IInv, CmdInv
<1>2. CASE UNCHANGED <<cpc, answers>>
  BY <1>2 DEF LedgerState
<1>3. ASSUME NEW w \in Workers, WorkerWrite(w) PROVE Ledger!Next
  <2>1. cur[w] \in Cmds /\ Waits(cur[w], w)
    BY <1>3, WriteCmd
  <2>2. answers' = [answers EXCEPT ![cur[w]] = @ + 1] /\ UNCHANGED cpc
    BY <1>3 DEF WorkerWrite
  <2> QED BY <1>1, <2>1, <2>2, AnswerSim
<1>4. ASSUME NEW w \in Workers, WorkerDrain(w) PROVE Ledger!Next
  <2>1. Head(queue[w]) \in Cmds /\ Waits(Head(queue[w]), w)
    BY <1>4, DrainCmd
  <2>2. answers' = [answers EXCEPT ![Head(queue[w])] = @ + 1] /\ UNCHANGED cpc
    BY <1>4 DEF WorkerDrain
  <2> QED BY <1>1, <2>1, <2>2, AnswerSim
<1>5. ASSUME NEW w \in Workers, WorkerStep(w) \/ WorkerPanic(w),
             ~WorkerWrite(w), ~WorkerDrain(w)
      PROVE  UNCHANGED <<cpc, answers>>
  BY <1>5 DEF WorkerStep, WorkerConnect, WorkerOpened, WorkerOpenFailed, WorkerRetry,
     WorkerWaitDone, WorkerTake, WorkerNoWrite, WorkerTick, WorkerSelectDone, WorkerPoll,
     WorkerIdleDone, WorkerDrained, WorkerExit, WorkerPanic, commandVars
<1>6. ASSUME NEW w \in Workers, StopWorker(w) PROVE UNCHANGED <<cpc, answers>>
  BY <1>6 DEF StopWorker, WorkerCancel, WorkerForceClose, WorkerStopped, commandVars
<1>7. ASSUME NEW a \in Applies, ApplyCall(a) \/ ApplyStep(a) PROVE UNCHANGED <<cpc, answers>>
  BY <1>7 DEF ApplyStep, ApplyCall, ApplyRefuse, ApplyLock, ApplyDiff, ApplyStart, commandVars
<1>8. ASSUME NEW s \in Stops, StopCall(s) \/ StopStep(s) PROVE UNCHANGED <<cpc, answers>>
  BY <1>8 DEF StopStep, StopCall, StopLock, StopReturn, commandVars
<1>9. CancelParent \/ UNCHANGED vars => UNCHANGED <<cpc, answers>>
  BY DEF CancelParent, vars, commandVars
<1>10. ASSUME NEW c \in Cmds, SubmitCheck(c) \/ SubmitStep(c)
       PROVE  Ledger!Next \/ UNCHANGED LedgerState
  BY <1>1, <1>10, SubmitSim
<1> QED BY <1>2, <1>3, <1>4, <1>5, <1>6, <1>7, <1>8, <1>9, <1>10 DEF Next

\* Seen by its callers, the engine is the ledger of commands: a command is
\* accepted or turned down once and answered at most once, whatever worker,
\* queue or drain has dealt with it (engine.go, Submit; worker.go, tryWrite,
\* drainWrites and drainPendingWrites).
THEOREM Implements == Spec => ImplementsLedger
BY CmdInvariance, InitSim, StepSim, PTL DEF Spec, ImplementsLedger, Ledger!Spec
=============================================================================

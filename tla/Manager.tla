------------------------------- MODULE Manager -------------------------------
(***************************************************************************)
(* The runtime manager (internal/runtime/manager.go): it owns the engine   *)
(* and the NATS client, replaces both on a restart while the HTTP process  *)
(* goes on, and carries saved configurations to the engine.                *)
(*                                                                         *)
(* Threads are the goroutines that run start() and stop(): the main        *)
(* goroutine at boot, the goroutine of Restart, and at shutdown main or the*)
(* goroutine of an HTTP server that failed.  Savers are HTTP handlers: each*)
(* writes the configuration to the database and then calls                 *)
(* ConfigChangedErr, again and again.  Engine.Apply and Engine.Stop are    *)
(* atomic here; module Engine looks inside them.                           *)
(***************************************************************************)
EXTENDS Naturals

CONSTANTS
  Savers,       \* HTTP handlers that save configurations
  MaxSaves,     \* bound on the saves of all savers
  MaxEngines,   \* bound on the engines one process creates
  MayShutdown,  \* may the process be told to stop?
  MayFail,      \* may a read of the database fail?
  None

Threads == {"boot", "restart", "shutdown"}

ASSUME ManagerAssumption ==
  /\ Savers \cap Threads = {}
  /\ MaxEngines \in Nat \ {0} /\ MaxSaves \in Nat
  /\ MayShutdown \in BOOLEAN
  /\ MayFail \in BOOLEAN
  /\ None \notin Nat
  /\ None \notin [channels : Nat, models : Nat]

Engines == 1..MaxEngines
States  == {"idle", "starting", "running", "stopping"}

\* A configuration: how often each of its two tables has been saved.
Configs == [channels : Nat, models : Nat]

VARIABLES
  state,        \* Manager.state
  engine,       \* Manager.engine, with the client and cancel set beside it
  configDirty,  \* Manager.configDirty
  lastApplyErr, \* Manager.lastApplyErr is not empty
  restarting    \* Manager.restarting

managerVars == <<state, engine, configDirty, lastApplyErr, restarting>>

VARIABLES
  tpc,          \* control point of every thread
  held,         \* the engine in the local variables of a thread
  loaded        \* the configuration a thread or a saver has read so far

threadVars == <<tpc, held, loaded>>

VARIABLES
  spc,          \* control point of every saver
  target        \* the engine a saver has read from the manager

saverVars == <<spc, target>>

VARIABLES
  db,           \* the configuration in the database
  created,      \* number of engines created
  applied,      \* the configuration an engine runs, None before its first Apply
  closed,       \* Engine.closed
  nats,         \* the client of an engine: "none", "up" or "closed"
  overlapped,   \* history: two applyPlans have been under way at the same time
  ctxDone       \* the process context is cancelled

worldVars == <<db, created, applied, closed, nats, overlapped, ctxDone>>

vars == <<managerVars, threadVars, saverVars, worldVars>>

Zero == [channels |-> 0, models |-> 0]

Init ==
  /\ state = "idle"
  /\ engine = None
  /\ configDirty = FALSE
  /\ lastApplyErr = FALSE
  /\ restarting = FALSE
  /\ tpc = [t \in Threads |-> IF t = "boot" THEN "start" ELSE "off"]
  /\ held = [t \in Threads |-> None]
  /\ loaded = [t \in Threads \cup Savers |-> Zero]
  /\ spc = [s \in Savers |-> "idle"]
  /\ target = [s \in Savers |-> None]
  /\ db = Zero
  /\ created = 0
  /\ applied = [e \in Engines |-> None]
  /\ closed = [e \in Engines |-> FALSE]
  /\ nats = [e \in Engines |-> "none"]
  /\ overlapped = FALSE
  /\ ctxDone = FALSE

\* The HTTP server listens once New has returned.
Listening == tpc["boot"] = "off"

Goto(t, from, to) == tpc[t] = from /\ tpc' = [tpc EXCEPT ![t] = to]

-----------------------------------------------------------------------------
\* Restart, and the deferred call at the end of its goroutine.

Restart ==
  /\ Listening
  /\ ~restarting
  /\ created < MaxEngines
  /\ restarting' = TRUE
  /\ tpc' = [tpc EXCEPT !["restart"] = "stop"]
  /\ UNCHANGED <<state, engine, configDirty, lastApplyErr, held, loaded, saverVars, worldVars>>

\* Mutant of RestartEnd: the flag is left set when start() has failed.
RestartEndRunning ==
  /\ Goto("restart", "end", "off")
  /\ restarting' = (state # "running")
  /\ UNCHANGED <<state, engine, configDirty, lastApplyErr, held, loaded, saverVars, worldVars>>

RestartEnd ==
  /\ Goto("restart", "end", "off")
  /\ restarting' = FALSE
  /\ UNCHANGED <<state, engine, configDirty, lastApplyErr, held, loaded, saverVars, worldVars>>

\* A signal cancels the process context; main then calls Stop.  When the HTTP
\* server fails its goroutine calls Stop, and nothing is cancelled.
Shutdown ==
  /\ MayShutdown
  /\ Listening
  /\ tpc["shutdown"] = "off"
  /\ ctxDone' \in BOOLEAN
  /\ tpc' = [tpc EXCEPT !["shutdown"] = "stop"]
  /\ UNCHANGED <<managerVars, held, loaded, saverVars>>
  /\ UNCHANGED <<db, created, applied, closed, nats, overlapped>>

-----------------------------------------------------------------------------
\* The threads and savers within an applyPlans of a published engine.
Appliers ==
  {t \in {"boot", "restart"} : tpc[t] \in {"channels2", "models2", "apply2", "clear2"}}
    \cup {s \in Savers : spc[s] \in {"channels", "models", "apply", "clear"}}

-----------------------------------------------------------------------------
\* stop(): take engine and client out of the manager, then stop them.

StopTake(t) ==
  /\ Goto(t, "stop", "stopEngine")
  /\ state' = "stopping"
  /\ held' = [held EXCEPT ![t] = engine]
  /\ engine' = None
  /\ UNCHANGED <<configDirty, lastApplyErr, restarting, loaded, saverVars, worldVars>>

\* Mutant of StopEngine: only the run context is cancelled.
StopCancels(t) ==
  /\ Goto(t, "stopEngine", "stopNats")
  /\ UNCHANGED <<managerVars, held, loaded, saverVars, worldVars>>

\* cancel() and Engine.Stop.
StopEngine(t) ==
  /\ Goto(t, "stopEngine", "stopNats")
  /\ closed' = [e \in Engines |-> closed[e] \/ e = held[t]]
  /\ UNCHANGED <<managerVars, held, loaded, saverVars>>
  /\ UNCHANGED <<db, created, applied, nats, overlapped, ctxDone>>

StopNats(t) ==
  /\ Goto(t, "stopNats", "stopIdle")
  /\ nats' = [e \in Engines |->
                IF e = held[t] /\ nats[e] = "up" THEN "closed" ELSE nats[e]]
  /\ UNCHANGED <<managerVars, held, loaded, saverVars>>
  /\ UNCHANGED <<db, created, applied, closed, overlapped, ctxDone>>

StopIdle(t) ==
  /\ Goto(t, "stopIdle", IF t = "restart" THEN "start" ELSE "end")
  /\ state' = "idle"
  /\ held' = [held EXCEPT ![t] = None]
  /\ UNCHANGED <<engine, configDirty, lastApplyErr, restarting, loaded, saverVars, worldVars>>

-----------------------------------------------------------------------------
\* start(): settings, a new engine and client, a first Apply, then publish.

Start(t) ==
  /\ Goto(t, "start", "settings")
  /\ state' = "starting"
  /\ UNCHANGED <<engine, configDirty, lastApplyErr, restarting, held, loaded, saverVars, worldVars>>

\* A failed start() is recorded by the goroutine of Restart.
SettingsFail(t) ==
  /\ MayFail
  /\ Goto(t, "settings", "end")
  /\ state' = "idle"
  /\ lastApplyErr' = TRUE
  /\ UNCHANGED <<engine, configDirty, restarting, held, loaded, saverVars, worldVars>>

\* A client that is disabled or cannot connect does not stop the engine.
Create(t) ==
  /\ Goto(t, "settings", "channels")
  /\ created' = created + 1
  /\ held' = [held EXCEPT ![t] = created + 1]
  /\ \E n \in {"none", "up"} : nats' = [nats EXCEPT ![created + 1] = n]
  /\ UNCHANGED <<managerVars, loaded, saverVars>>
  /\ UNCHANGED <<db, applied, closed, overlapped, ctxDone>>

\* The context start() reads with is cancelled with the process or by a stop
\* that has taken the new engine.
RunDone(t) == ctxDone \/ (held[t] # None /\ closed[held[t]])

\* applyPlans is over, and what it has read with it.
Forget(x) == loaded' = [loaded EXCEPT ![x] = Zero]

\* applyPlans reads the two tables one after the other.
LoadChannels(t, from, to) ==
  /\ ~RunDone(t)
  /\ Goto(t, from, to)
  /\ loaded' = [loaded EXCEPT ![t].channels = db.channels]
  /\ UNCHANGED <<managerVars, held, saverVars, worldVars>>

LoadModels(t, from, to) ==
  /\ ~RunDone(t)
  /\ Goto(t, from, to)
  /\ loaded' = [loaded EXCEPT ![t].models = db.models]
  /\ UNCHANGED <<managerVars, held, saverVars, worldVars>>

\* Engine.Apply on an engine that is not stopped.
ApplyHeld(t, from, to) ==
  /\ Goto(t, from, to)
  /\ ~closed[held[t]]
  /\ applied' = [applied EXCEPT ![held[t]] = loaded[t]]
  /\ UNCHANGED <<managerVars, held, loaded, saverVars>>
  /\ UNCHANGED <<db, created, closed, nats, overlapped, ctxDone>>

\* The end of applyPlans, a lock section of its own.
ClearErr(t, from, to) ==
  /\ Goto(t, from, to)
  /\ lastApplyErr' = FALSE
  /\ Forget(t)
  /\ UNCHANGED <<state, engine, configDirty, restarting, held, saverVars, worldVars>>

FirstApply(t) ==
  \/ LoadChannels(t, "channels", "models")
  \/ LoadModels(t, "models", "apply")
  \/ ApplyHeld(t, "apply", "clear")
  \/ ClearErr(t, "clear", "publish")

\* Mutant of StartFail: the new client is not closed.
StartFailOpen(t) ==
  /\ MayFail \/ ctxDone
  /\ Goto(t, "channels", "end") \/ Goto(t, "models", "end")
  /\ held' = [held EXCEPT ![t] = None]
  /\ state' = "idle"
  /\ lastApplyErr' = TRUE
  /\ Forget(t)
  /\ UNCHANGED <<engine, configDirty, restarting, saverVars, worldVars>>

\* The configuration cannot be read: the new runtime is dropped.
StartFail(t) ==
  /\ MayFail \/ ctxDone
  /\ Goto(t, "channels", "end") \/ Goto(t, "models", "end")
  /\ nats' = [nats EXCEPT ![held[t]] = IF @ = "up" THEN "closed" ELSE @]
  /\ held' = [held EXCEPT ![t] = None]
  /\ state' = "idle"
  /\ lastApplyErr' = TRUE
  /\ Forget(t)
  /\ UNCHANGED <<engine, configDirty, restarting, saverVars>>
  /\ UNCHANGED <<db, created, applied, closed, overlapped, ctxDone>>

\* Mutant of Publish: changes recorded during the start are forgotten.
PublishClean(t) ==
  /\ Goto(t, "publish", "end")
  /\ engine' = held[t]
  /\ state' = "running"
  /\ configDirty' = FALSE
  /\ held' = [held EXCEPT ![t] = None]
  /\ UNCHANGED <<lastApplyErr, restarting, loaded, saverVars, worldVars>>

\* Second lock section: the engine is there for everybody, and the dirty flag
\* is taken.
Publish(t) ==
  /\ Goto(t, "publish", IF configDirty THEN "channels2" ELSE "end")
  /\ engine' = held[t]
  /\ state' = "running"
  /\ configDirty' = FALSE
  /\ held' = [held EXCEPT ![t] = IF configDirty THEN @ ELSE None]
  /\ overlapped' = (overlapped \/ (configDirty /\ Appliers # {}))
  /\ UNCHANGED <<lastApplyErr, restarting, loaded, saverVars>>
  /\ UNCHANGED <<db, created, applied, closed, nats, ctxDone>>

SecondApply(t) ==
  \/ LoadChannels(t, "channels2", "models2")
  \/ LoadModels(t, "models2", "apply2")
  \/ ApplyHeld(t, "apply2", "clear2")
  \/ ClearErr(t, "clear2", "end")

\* The tables cannot be read, or a shutdown has already stopped the engine.
SecondFail(t) ==
  /\ \/ /\ MayFail \/ RunDone(t)
        /\ Goto(t, "channels2", "end") \/ Goto(t, "models2", "end")
     \/ /\ Goto(t, "apply2", "end")
        /\ closed[held[t]]
  /\ lastApplyErr' = TRUE
  /\ Forget(t)
  /\ UNCHANGED <<state, engine, configDirty, restarting, held, saverVars, worldVars>>

\* New has returned.  When start() failed at boot, main exits instead.
BootEnd ==
  /\ engine # None
  /\ Goto("boot", "end", "off")
  /\ UNCHANGED <<managerVars, held, loaded, saverVars, worldVars>>

-----------------------------------------------------------------------------
\* A saver: the write to the database, then ConfigChangedErr.

SaverGoto(s, from, to) == spc[s] = from /\ spc' = [spc EXCEPT ![s] = to]

\* The handler answers its HTTP client; its local variables are gone.
SaverEnd(s, from) ==
  /\ SaverGoto(s, from, "idle")
  /\ target' = [target EXCEPT ![s] = None]
  /\ Forget(s)

Save(s) ==
  /\ Listening
  /\ db.channels + db.models < MaxSaves
  /\ SaverGoto(s, "idle", "saved")
  /\ \E table \in {"channels", "models"} : db' = [db EXCEPT ![table] = @ + 1]
  /\ UNCHANGED <<managerVars, threadVars, target>>
  /\ UNCHANGED <<created, applied, closed, nats, overlapped, ctxDone>>

\* First lock section of ConfigChangedErr.
SaverLook(s) ==
  LET ready == engine # None /\ state = "running"
  IN /\ SaverGoto(s, "saved", IF ready THEN "channels" ELSE "mark")
     /\ target' = [target EXCEPT ![s] = engine]
     /\ overlapped' = (overlapped \/ (ready /\ Appliers # {}))
     /\ UNCHANGED <<managerVars, threadVars>>
     /\ UNCHANGED <<db, created, applied, closed, nats, ctxDone>>

\* Second lock section: nothing is looked at again.
SaverMark(s) ==
  /\ SaverEnd(s, "mark")
  /\ configDirty' = TRUE
  /\ UNCHANGED <<state, engine, lastApplyErr, restarting, tpc, held, worldVars>>

SaverLoad(s) ==
  /\ ~ctxDone
  /\ \/ /\ SaverGoto(s, "channels", "models")
        /\ loaded' = [loaded EXCEPT ![s].channels = db.channels]
     \/ /\ SaverGoto(s, "models", "apply")
        /\ loaded' = [loaded EXCEPT ![s].models = db.models]
  /\ UNCHANGED <<managerVars, tpc, held, target, worldVars>>

SaverFail(s) ==
  /\ MayFail \/ ctxDone
  /\ SaverEnd(s, "channels") \/ SaverEnd(s, "models")
  /\ lastApplyErr' = TRUE
  /\ UNCHANGED <<state, engine, configDirty, restarting, tpc, held, worldVars>>

\* The engine may have been stopped since SaverLook: Apply then refuses.
SaverApply(s) ==
  /\ SaverGoto(s, "apply", "clear")
  /\ ~closed[target[s]]
  /\ applied' = [applied EXCEPT ![target[s]] = loaded[s]]
  /\ UNCHANGED <<managerVars, threadVars, target>>
  /\ UNCHANGED <<db, created, closed, nats, overlapped, ctxDone>>

SaverRefused(s) ==
  /\ SaverEnd(s, "apply")
  /\ closed[target[s]]
  /\ lastApplyErr' = TRUE
  /\ UNCHANGED <<state, engine, configDirty, restarting, tpc, held, worldVars>>

SaverClear(s) ==
  /\ SaverEnd(s, "clear")
  /\ lastApplyErr' = FALSE
  /\ UNCHANGED <<state, engine, configDirty, restarting, tpc, held, worldVars>>

-----------------------------------------------------------------------------
StopStep(t) == StopTake(t) \/ StopEngine(t) \/ StopNats(t) \/ StopIdle(t)

StartStep(t) ==
  \/ Start(t) \/ SettingsFail(t) \/ Create(t)
  \/ FirstApply(t) \/ StartFail(t) \/ Publish(t)
  \/ SecondApply(t) \/ SecondFail(t)

ThreadStep ==
  \/ \E t \in {"restart", "shutdown"} : StopStep(t)
  \/ \E t \in {"boot", "restart"} : StartStep(t)
  \/ RestartEnd
  \/ BootEnd

SaverStep(s) ==
  \/ SaverLook(s) \/ SaverMark(s) \/ SaverLoad(s) \/ SaverFail(s)
  \/ SaverApply(s) \/ SaverRefused(s) \/ SaverClear(s)

Next ==
  \/ Restart
  \/ Shutdown
  \/ ThreadStep
  \/ \E s \in Savers : Save(s) \/ SaverStep(s)

Spec == Init /\ [][Next]_vars

\* The goroutine of Restart runs to its end; nothing is asked of the others.
FairSpec ==
  /\ Spec
  /\ WF_vars(StopStep("restart"))
  /\ WF_vars(StartStep("restart"))
  /\ WF_vars(RestartEnd)

-----------------------------------------------------------------------------
\* Properties.

TypeOK ==
  /\ state \in States
  /\ engine \in Engines \cup {None}
  /\ configDirty \in BOOLEAN
  /\ lastApplyErr \in BOOLEAN
  /\ restarting \in BOOLEAN
  /\ tpc \in [Threads -> {"off", "stop", "stopEngine", "stopNats", "stopIdle", "start",
                          "settings", "channels", "models", "apply", "clear",
                          "publish", "channels2", "models2", "apply2", "clear2", "end"}]
  /\ held \in [Threads -> Engines \cup {None}]
  /\ loaded \in [Threads \cup Savers -> Configs]
  /\ spc \in [Savers -> {"idle", "saved", "mark", "channels", "models", "apply", "clear"}]
  /\ target \in [Savers -> Engines \cup {None}]
  /\ db \in Configs
  /\ created \in 0..MaxEngines
  /\ applied \in [Engines -> Configs \cup {None}]
  /\ closed \in [Engines -> BOOLEAN]
  /\ nats \in [Engines -> {"none", "up", "closed"}]
  /\ overlapped \in BOOLEAN
  /\ ctxDone \in BOOLEAN

\* An engine with links that has not been stopped.
Live(e) == applied[e] # None /\ ~closed[e]

\* Whatever restarts, shutdowns and failures meet, two engines never drive the
\* links at the same time.  Excepted is an HTTP server that fails during a
\* restart: Stop is then called while the process context is good, the restart
\* goes on and builds its engine beside the one being stopped.
OneRuntime ==
  \/ tpc["shutdown"] # "off" /\ ~ctxDone
  \/ \A e, f \in Engines : Live(e) /\ Live(f) => e = f

\* No engine and no client is forgotten: what is live or connected is in the
\* manager, or in the hands of a thread that will publish or stop it.
NothingLeaks ==
  \A e \in Engines :
    Live(e) \/ nats[e] = "up" =>
      e = engine \/ \E t \in Threads : held[t] = e /\ tpc[t] \notin {"off", "end"}

\* No thread and no saver is between two of its steps.
Quiet ==
  /\ Listening
  /\ \A t \in {"restart", "shutdown"} : tpc[t] \in {"off", "end"}
  /\ \A s \in Savers : spc[s] = "idle"

\* No save is lost between the lock sections of start, stop and
\* ConfigChangedErr: when all is quiet, nothing is pending and no error is shown,
\* the engine runs what the database holds, however often was saved.  Excepted
\* are behaviours in which two applyPlans were under way at the same time, of two
\* handlers or of a handler and a start() that catches up: see SavedTakesEffect.
StatusTruthful ==
  Quiet /\ engine # None /\ ~configDirty /\ ~lastApplyErr /\ ~overlapped =>
    applied[engine] = db

\* README, features: "a saved configuration takes effect" - the same without the
\* exception.  The code does not keep this: the applyPlans that has read the
\* tables first may apply last, even when no two saves overlap, as start() reads
\* them again after it has published the engine.
SavedTakesEffect ==
  Quiet /\ engine # None /\ ~configDirty /\ ~lastApplyErr => applied[engine] = db

\* Comment on configDirty: a change recorded while the runtime starts is
\* delivered when the start is over.  The code does not keep this.
DirtyDelivered == Quiet /\ state = "running" => ~configDirty

\* Comment on Manager.Stop: it releases the runtime.  A restart that is under
\* way brings one back.
StopReleases == tpc["shutdown"] = "end" => engine = None

\* handleCommand: the client submits to the engine it was built with, not to
\* the manager.
Accepts(e) == nats[e] = "up" /\ applied[e] # None /\ ~closed[e]

\* Comment on CommandTarget: while the runtime restarts, commands fail instead
\* of reaching the engine the client was built with.  The code does not keep this.
CommandsNeedRunning == \A e \in Engines : Accepts(e) => state = "running"

\* The flag restarting is always cleared, so a later restart is possible.
RestartEnds == restarting ~> ~restarting
=============================================================================

---------------------------- MODULE ManagerProofs ----------------------------
(***************************************************************************)
(* Proofs about module Manager, for any number of savers and of engines.   *)
(* The invariant follows an engine from the thread that builds it to the   *)
(* manager and on to the thread that stops it: a thread that builds or     *)
(* stops one leaves the manager empty, and a shutdown that has taken an    *)
(* engine keeps a restart from bringing another one to life.               *)
(***************************************************************************)
EXTENDS Manager, TLAPS

Starters == {"boot", "restart"}

\* Control points: of stop(), of the first and the second Apply of start().
Stopping == {"stop", "stopEngine", "stopNats", "stopIdle"}
Loading  == {"channels", "models", "apply"}
Built    == {"clear", "publish"}
Second   == {"channels2", "models2", "apply2", "clear2"}

\* The control points of a saver within applyPlans.
Window == {"channels", "models", "apply", "clear"}

ThreadPcs == Stopping \cup {"off", "start", "settings", "end"} \cup Loading \cup Built \cup Second
SaverPcs  == {"idle", "saved", "mark", "channels", "models", "apply", "clear"}

-----------------------------------------------------------------------------
\* The parts of the inductive invariant.

\* Boot is over before anything else begins, there is one restart at a time, and
\* nothing but a shutdown cancels the process context.
PhaseInv ==
  /\ tpc["boot"] \notin Stopping
  /\ tpc["shutdown"] \in Stopping \cup {"off", "end"}
  /\ tpc["boot"] # "off" => tpc["restart"] = "off" /\ tpc["shutdown"] = "off"
  /\ ctxDone => tpc["shutdown"] # "off"
  /\ restarting <=> tpc["restart"] # "off"

\* A thread that is to build an engine has room for it, and nothing is known
\* of engines that have not been created.
CreateInv ==
  /\ \A t \in Starters :
       tpc[t] \in Stopping \cup {"start", "settings"} => created < MaxEngines
  /\ \A e \in Engines : e > created => applied[e] = None /\ nats[e] = "none"
  /\ engine # None => engine <= created
  /\ \A t \in Threads : held[t] # None => held[t] <= created

\* An engine that is being built is seen by its thread only: it has no
\* configuration, and all that others can reach have one.
NewInv ==
  /\ \A t \in Starters : tpc[t] \in Loading => held[t] # None /\ applied[held[t]] = None
  /\ \A t \in Starters : tpc[t] \in Built \cup Second => held[t] # None /\ applied[held[t]] # None
  /\ engine # None => applied[engine] # None
  /\ \A s \in Savers :
       spc[s] \in {"channels", "models", "apply", "clear"} =>
         target[s] # None /\ applied[target[s]] # None

\* The manager is empty while a thread stops or builds an engine.  A shutdown
\* that stops one after a signal has cancelled a restart that was about to build
\* another.
PlaceInv ==
  /\ \A t \in Starters :
       tpc[t] \in {"stopEngine", "stopNats", "stopIdle", "start", "settings"} \cup Loading \cup Built =>
         engine = None
  /\ ctxDone /\ tpc["shutdown"] = "stopEngine" /\ held["shutdown"] # None =>
       /\ engine = None
       /\ tpc["restart"] \notin {"apply"} \cup Built
       /\ tpc["restart"] = "stopEngine" => held["restart"] = None

\* Where a live engine can be.
LiveInv ==
  \A e \in Engines :
    Live(e) => e = engine \/ \E t \in Threads : held[t] = e /\ tpc[t] \in {"stopEngine"} \cup Built

\* Where a connected client can be.
UpInv ==
  \A e \in Engines :
    nats[e] = "up" =>
      e = engine \/ \E t \in Threads :
                      held[t] = e /\ tpc[t] \in {"stopEngine", "stopNats"} \cup Loading \cup Built

OwnInv == CreateInv /\ NewInv /\ PlaceInv /\ LiveInv /\ UpInv

IInv == TypeOK /\ PhaseInv /\ OwnInv

-----------------------------------------------------------------------------
\* Type correctness.

\* Nothing runs at the start.
LEMMA TypeInit == Init => TypeOK
<1> SUFFICES ASSUME Init PROVE TypeOK
  OBVIOUS
<1> USE ManagerAssumption DEF Init, Zero, Configs, Threads, Engines, States
<1>1. tpc \in [Threads -> ThreadPcs]
  BY DEF ThreadPcs
<1>2. spc \in [Savers -> SaverPcs] /\ target \in [Savers -> Engines \cup {None}]
  BY DEF SaverPcs
<1>3. loaded \in [Threads \cup Savers -> Configs]
  OBVIOUS
<1>4. /\ held \in [Threads -> Engines \cup {None}]
      /\ applied \in [Engines -> Configs \cup {None}]
      /\ closed \in [Engines -> BOOLEAN]
      /\ nats \in [Engines -> {"none", "up", "closed"}]
  OBVIOUS
<1>5. /\ db \in Configs /\ created \in 0 .. MaxEngines /\ state \in States
      /\ engine \in Engines \cup {None} /\ overlapped \in BOOLEAN
  <2>1. 0 \in 0 .. MaxEngines
    BY ManagerAssumption
  <2> QED BY <2>1
<1> QED
  BY <1>1, <1>2, <1>3, <1>4, <1>5, Zenon
  DEF TypeOK, ThreadPcs, SaverPcs, Stopping, Loading, Built, Second

\* What has been read is forgotten, and is still of its type.
LEMMA ForgetType ==
  ASSUME TypeOK, NEW x \in Threads \cup Savers, Forget(x)
  PROVE  loaded' \in [Threads \cup Savers -> Configs]
<1>1. Zero \in Configs
  BY DEF Zero, Configs
<1> QED BY <1>1 DEF Forget, TypeOK

\* Nobody starts or stops a runtime at the start.
LEMMA PhaseInit == Init => PhaseInv
  BY DEF Init, PhaseInv, Threads, Stopping

\* The steps of a stop keep the phases.
LEMMA PhaseStop ==
  ASSUME TypeOK, PhaseInv, NEW t \in {"restart", "shutdown"}, StopStep(t)
  PROVE  TypeOK' /\ PhaseInv'
<1> USE DEF Goto, saverVars, worldVars, managerVars, Threads, States, Stopping
<1>1. CASE StopTake(t)
  BY <1>1 DEF StopTake, TypeOK, PhaseInv
<1>2. CASE StopEngine(t)
  BY <1>2 DEF StopEngine, TypeOK, PhaseInv
<1>3. CASE StopNats(t)
  BY <1>3 DEF StopNats, TypeOK, PhaseInv
<1>4. CASE StopIdle(t)
  BY <1>4 DEF StopIdle, TypeOK, PhaseInv
<1> QED BY <1>1, <1>2, <1>3, <1>4 DEF StopStep

\* What the two passes over the tables have in common.
LEMMA PhaseApply ==
  ASSUME TypeOK, PhaseInv, OwnInv, NEW t \in Starters, FirstApply(t) \/ SecondApply(t)
  PROVE  TypeOK' /\ PhaseInv'
<1> USE DEF Goto, saverVars, worldVars, managerVars, Threads, Starters, Stopping
<1>1. ASSUME NEW from \in Loading \cup Second \cup Built, NEW to \in Loading \cup Built \cup Second \cup {"end"},
             \/ LoadChannels(t, from, to) \/ LoadModels(t, from, to)
             \/ ApplyHeld(t, from, to) \/ ClearErr(t, from, to)
      PROVE  TypeOK' /\ PhaseInv'
  <2> USE DEF Loading, Built, Second
  <2>1. CASE LoadChannels(t, from, to)
    <3>1. loaded' \in [Threads \cup Savers -> Configs]
      BY <2>1 DEF LoadChannels, TypeOK, Configs
    <3> QED BY <2>1, <3>1 DEF LoadChannels, TypeOK, PhaseInv
  <2>2. CASE LoadModels(t, from, to)
    <3>1. loaded' \in [Threads \cup Savers -> Configs]
      BY <2>2 DEF LoadModels, TypeOK, Configs
    <3> QED BY <2>2, <3>1 DEF LoadModels, TypeOK, PhaseInv
  <2>3. CASE ApplyHeld(t, from, to)
    <3>1. applied' \in [Engines -> Configs \cup {None}]
      BY <2>3 DEF ApplyHeld, TypeOK
    <3> QED BY <2>3, <3>1 DEF ApplyHeld, TypeOK, PhaseInv
  <2>4. CASE ClearErr(t, from, to)
    <3>1. loaded' \in [Threads \cup Savers -> Configs]
      BY <2>4, ForgetType DEF ClearErr
    <3>2. /\ tpc' \in [Threads -> ThreadPcs] /\ lastApplyErr' \in BOOLEAN
          /\ UNCHANGED <<state, engine, configDirty, restarting, held, saverVars, worldVars>>
      BY <2>4 DEF ClearErr, TypeOK, ThreadPcs
    <3>3. TypeOK'
      BY <3>1, <3>2, Zenon DEF TypeOK, ThreadPcs, Loading, Built, Second, Stopping
    <3>4. PhaseInv'
      BY <2>4 DEF ClearErr, TypeOK, PhaseInv
    <3> QED BY <3>3, <3>4
  <2> QED BY <1>1, <2>1, <2>2, <2>3, <2>4
<1> QED BY <1>1 DEF FirstApply, SecondApply, Loading, Built, Second

\* The steps of a start keep the phases.
LEMMA PhaseStart ==
  ASSUME TypeOK, PhaseInv, OwnInv, NEW t \in Starters, StartStep(t)
  PROVE  TypeOK' /\ PhaseInv'
<1> USE DEF Goto, saverVars, worldVars, managerVars, Threads, States, Starters, Stopping
<1>1. CASE Start(t)
  BY <1>1 DEF Start, TypeOK, PhaseInv
<1>2. CASE SettingsFail(t)
  BY <1>2 DEF SettingsFail, TypeOK, PhaseInv
<1>3. CASE Create(t)
  <2>1. created + 1 \in Engines
    BY <1>3, ManagerAssumption DEF Create, OwnInv, CreateInv, Engines, TypeOK
  <2> QED BY <1>3, <2>1, ManagerAssumption DEF Create, TypeOK, PhaseInv, Engines
<1>4. CASE FirstApply(t) \/ SecondApply(t)
  BY <1>4, PhaseApply
<1>5. CASE StartFail(t)
  <2>1. nats' \in [Engines -> {"none", "up", "closed"}]
    BY <1>5 DEF StartFail, TypeOK
  <2>2. loaded' \in [Threads \cup Savers -> Configs]
    BY <1>5, ForgetType DEF StartFail
  <2> QED BY <1>5, <2>1, <2>2 DEF StartFail, TypeOK, PhaseInv
<1>6. CASE Publish(t)
  BY <1>6 DEF Publish, TypeOK, PhaseInv
<1>7. CASE SecondFail(t)
  <2>1. loaded' \in [Threads \cup Savers -> Configs]
    BY <1>7, ForgetType DEF SecondFail
  <2> QED BY <1>7, <2>1 DEF SecondFail, TypeOK, PhaseInv
<1> QED BY <1>1, <1>2, <1>3, <1>4, <1>5, <1>6, <1>7 DEF StartStep

\* The steps of a saver keep the phases.
LEMMA PhaseSaver ==
  ASSUME TypeOK, PhaseInv, NEW s \in Savers, Save(s) \/ SaverStep(s)
  PROVE  TypeOK' /\ PhaseInv'
<1> USE DEF SaverGoto, threadVars, worldVars, managerVars
<1>0. ASSUME NEW from \in SaverPcs, SaverEnd(s, from)
      PROVE  /\ loaded' \in [Threads \cup Savers -> Configs]
             /\ spc' \in [Savers -> SaverPcs]
             /\ target' \in [Savers -> Engines \cup {None}]
  <2>1. loaded' \in [Threads \cup Savers -> Configs]
    BY <1>0, ForgetType DEF SaverEnd
  <2> QED BY <1>0, <2>1 DEF SaverEnd, TypeOK, SaverPcs
<1>1. CASE Save(s)
  <2>1. db' \in Configs
    BY <1>1 DEF Save, TypeOK, Configs
  <2> QED BY <1>1, <2>1 DEF Save, TypeOK, PhaseInv
<1>2. CASE SaverLook(s)
  BY <1>2 DEF SaverLook, TypeOK, PhaseInv
<1>3. CASE SaverMark(s)
  BY <1>0, <1>3 DEF SaverMark, TypeOK, PhaseInv, SaverPcs
<1>4. CASE SaverLoad(s)
  <2>1. \/ loaded' = [loaded EXCEPT ![s].channels = db.channels]
        \/ loaded' = [loaded EXCEPT ![s].models = db.models]
    BY <1>4 DEF SaverLoad
  <2>2. loaded' \in [Threads \cup Savers -> Configs]
    <3>1. ASSUME loaded' = [loaded EXCEPT ![s].channels = db.channels]
          PROVE  loaded' \in [Threads \cup Savers -> Configs]
      BY <3>1 DEF TypeOK, Configs
    <3>2. ASSUME loaded' = [loaded EXCEPT ![s].models = db.models]
          PROVE  loaded' \in [Threads \cup Savers -> Configs]
      BY <3>2 DEF TypeOK, Configs
    <3> QED BY <2>1, <3>1, <3>2
  <2>3. spc' \in [Savers -> SaverPcs]
    BY <1>4 DEF SaverLoad, TypeOK, SaverPcs
  <2> QED BY <1>4, <2>2, <2>3 DEF SaverLoad, TypeOK, PhaseInv, SaverPcs
<1>5. CASE SaverFail(s)
  BY <1>0, <1>5 DEF SaverFail, TypeOK, PhaseInv, SaverPcs
<1>6. CASE SaverApply(s)
  <2>1. applied' \in [Engines -> Configs \cup {None}]
    BY <1>6 DEF SaverApply, TypeOK
  <2> QED BY <1>6, <2>1 DEF SaverApply, TypeOK, PhaseInv
<1>7. CASE SaverRefused(s)
  BY <1>0, <1>7 DEF SaverRefused, TypeOK, PhaseInv, SaverPcs
<1>8. CASE SaverClear(s)
  BY <1>0, <1>8 DEF SaverClear, TypeOK, PhaseInv, SaverPcs
<1> QED BY <1>1, <1>2, <1>3, <1>4, <1>5, <1>6, <1>7, <1>8 DEF SaverStep

\* Every step keeps the types and the phases.
LEMMA PhaseStep == IInv /\ [Next]_vars => TypeOK' /\ PhaseInv'
<1> SUFFICES ASSUME IInv, [Next]_vars PROVE TypeOK' /\ PhaseInv'
  OBVIOUS
<1>0. TypeOK /\ PhaseInv /\ OwnInv
  BY DEF IInv
<1> USE <1>0 DEF managerVars, threadVars, saverVars, worldVars
<1>1. CASE UNCHANGED vars
  BY <1>1 DEF vars, TypeOK, PhaseInv
<1>2. CASE Restart
  BY <1>2 DEF Restart, Listening, TypeOK, PhaseInv, Threads, Stopping
<1>3. CASE Shutdown
  BY <1>3 DEF Shutdown, Listening, TypeOK, PhaseInv, Threads, Stopping
<1>4. ASSUME NEW t \in {"restart", "shutdown"}, StopStep(t) PROVE TypeOK' /\ PhaseInv'
  BY <1>4, PhaseStop
<1>5. ASSUME NEW t \in {"boot", "restart"}, StartStep(t) PROVE TypeOK' /\ PhaseInv'
  BY <1>5, PhaseStart DEF Starters
<1>6. CASE RestartEnd \/ BootEnd
  <2> USE DEF Goto, TypeOK, PhaseInv, Threads, Stopping
  <2>1. CASE RestartEnd
    BY <2>1 DEF RestartEnd
  <2>2. CASE BootEnd
    BY <2>2 DEF BootEnd
  <2> QED BY <1>6, <2>1, <2>2
<1>7. ASSUME NEW s \in Savers, Save(s) \/ SaverStep(s) PROVE TypeOK' /\ PhaseInv'
  BY <1>7, PhaseSaver
<1> QED BY <1>1, <1>2, <1>3, <1>4, <1>5, <1>6, <1>7 DEF Next, ThreadStep

-----------------------------------------------------------------------------
\* Where engines and clients are.

\* No engine has an owner at the start.
LEMMA OwnInit == Init => OwnInv
<1> SUFFICES ASSUME Init PROVE OwnInv
  OBVIOUS
<1> USE ManagerAssumption DEF Init, Threads, Starters, Engines, Stopping, Loading, Built, Second
<1>1. CreateInv /\ NewInv /\ PlaceInv
  BY DEF CreateInv, NewInv, PlaceInv
<1>2. LiveInv /\ UpInv
  BY DEF LiveInv, UpInv, Live
<1> QED BY <1>1, <1>2 DEF OwnInv

\* A stop hands its engine on to nobody else.
LEMMA OwnStop ==
  ASSUME TypeOK, PhaseInv, OwnInv, NEW t \in {"restart", "shutdown"}, StopStep(t)
  PROVE  OwnInv'
<1> USE DEF Goto, saverVars, worldVars, managerVars, Threads, Starters, Stopping, Loading, Built,
            Second, OwnInv, TypeOK, PhaseInv
<1>1. CASE StopTake(t)
  <2>1. CreateInv' /\ NewInv'
    BY <1>1 DEF StopTake, CreateInv, NewInv
  <2>2. PlaceInv'
    BY <1>1 DEF StopTake, PlaceInv
  <2>3. LiveInv' /\ UpInv'
    BY <1>1 DEF StopTake, LiveInv, UpInv, Live
  <2> QED BY <2>1, <2>2, <2>3
<1>2. CASE StopEngine(t)
  <2>1. CreateInv' /\ NewInv' /\ PlaceInv'
    BY <1>2 DEF StopEngine, CreateInv, NewInv, PlaceInv
  <2>2. LiveInv' /\ UpInv'
    <3>1. /\ UNCHANGED <<engine, held, applied, nats>>
          /\ tpc[t] = "stopEngine" /\ tpc' = [tpc EXCEPT ![t] = "stopNats"]
          /\ \A e \in Engines : Live(e)' => Live(e) /\ e # held[t]
      BY <1>2 DEF StopEngine, Live
    <3>2. LiveInv'
      BY <3>1 DEF LiveInv
    <3>3. UpInv'
      BY <3>1 DEF UpInv
    <3> QED BY <3>2, <3>3
  <2> QED BY <2>1, <2>2
<1>3. CASE StopNats(t)
  <2>1. CreateInv' /\ NewInv' /\ PlaceInv'
    BY <1>3 DEF StopNats, CreateInv, NewInv, PlaceInv
  <2>2. LiveInv' /\ UpInv'
    BY <1>3 DEF StopNats, LiveInv, UpInv, Live
  <2> QED BY <2>1, <2>2
<1>4. CASE StopIdle(t)
  <2>1. CreateInv' /\ NewInv' /\ PlaceInv'
    BY <1>4 DEF StopIdle, CreateInv, NewInv, PlaceInv
  <2>2. LiveInv' /\ UpInv'
    BY <1>4 DEF StopIdle, LiveInv, UpInv, Live
  <2> QED BY <2>1, <2>2
<1> QED BY <1>1, <1>2, <1>3, <1>4 DEF StopStep

\* A start owns the engine it builds until the manager takes it.
LEMMA OwnStart ==
  ASSUME TypeOK, PhaseInv, OwnInv, NEW t \in Starters, StartStep(t)
  PROVE  OwnInv'
<1> USE DEF Goto, saverVars, worldVars, managerVars, Threads, Starters, Stopping, Loading, Built,
            Second, OwnInv, TypeOK, PhaseInv
<1>1. CASE Start(t)
  <2>1. CreateInv' /\ NewInv' /\ PlaceInv'
    BY <1>1 DEF Start, CreateInv, NewInv, PlaceInv
  <2>2. LiveInv' /\ UpInv'
    BY <1>1 DEF Start, LiveInv, UpInv, Live
  <2> QED BY <2>1, <2>2
<1>2. CASE SettingsFail(t)
  <2>1. CreateInv' /\ NewInv' /\ PlaceInv'
    BY <1>2 DEF SettingsFail, CreateInv, NewInv, PlaceInv
  <2>2. LiveInv' /\ UpInv'
    BY <1>2 DEF SettingsFail, LiveInv, UpInv, Live
  <2> QED BY <2>1, <2>2
<1>3. CASE Create(t)
  <2>0. created + 1 \in Engines
    BY <1>3, ManagerAssumption DEF Create, CreateInv, Engines
  <2>1. CreateInv' /\ PlaceInv'
    BY <1>3, <2>0, ManagerAssumption DEF Create, CreateInv, PlaceInv, Engines
  <2>3. NewInv'
    <3>1. held' = [held EXCEPT ![t] = created + 1] /\ applied[created + 1] = None /\ created + 1 # None
      BY <1>3, <2>0, ManagerAssumption DEF Create, CreateInv, Engines
    <3> QED BY <1>3, <3>1 DEF Create, NewInv
  <2>2. LiveInv' /\ UpInv'
    BY <1>3, <2>0, ManagerAssumption DEF Create, LiveInv, UpInv, Live, CreateInv, Engines
  <2> QED BY <2>1, <2>2, <2>3
<1>4. CASE LoadChannels(t, "channels", "models")
  <2>1. CreateInv' /\ NewInv' /\ PlaceInv'
    BY <1>4 DEF LoadChannels, CreateInv, NewInv, PlaceInv
  <2>2. LiveInv' /\ UpInv'
    BY <1>4 DEF LoadChannels, LiveInv, UpInv, Live
  <2> QED BY <2>1, <2>2
<1>5. CASE LoadModels(t, "models", "apply")
  <2>1. CreateInv' /\ NewInv' /\ PlaceInv'
    BY <1>5 DEF LoadModels, RunDone, CreateInv, NewInv, PlaceInv
  <2>2. LiveInv' /\ UpInv'
    <3>1. /\ UNCHANGED <<engine, held, applied, closed, nats>>
          /\ tpc[t] = "models" /\ tpc' = [tpc EXCEPT ![t] = "apply"]
      BY <1>5 DEF LoadModels
    <3>2. LiveInv'
      BY <3>1 DEF LiveInv, Live
    <3>3. UpInv'
      BY <3>1 DEF UpInv
    <3> QED BY <3>2, <3>3
  <2> QED BY <2>1, <2>2
<1>6. CASE ApplyHeld(t, "apply", "clear")
  <2>0. held[t] \in Engines /\ loaded[t] # None /\ held[t] <= created
    <3>1. loaded[t] \in Configs
      BY DEF TypeOK
    <3>2. loaded[t] # None
      BY <3>1, ManagerAssumption DEF Configs
    <3> QED BY <1>6, <3>2 DEF ApplyHeld, NewInv, CreateInv
  <2>1. CreateInv' /\ PlaceInv'
    BY <1>6, <2>0, ManagerAssumption DEF ApplyHeld, CreateInv, PlaceInv, Engines
  <2>3. NewInv'
    <3>1. \A r \in Starters : r # t => tpc[r] \notin Loading
      BY <1>6 DEF ApplyHeld
    <3> QED BY <1>6, <2>0, <3>1 DEF ApplyHeld, NewInv
  <2>2. LiveInv' /\ UpInv'
    BY <1>6, <2>0 DEF ApplyHeld, LiveInv, UpInv, Live
  <2> QED BY <2>1, <2>2, <2>3
<1>7. CASE ClearErr(t, "clear", "publish")
  <2>1. CreateInv' /\ NewInv' /\ PlaceInv'
    BY <1>7 DEF ClearErr, CreateInv, NewInv, PlaceInv
  <2>2. LiveInv' /\ UpInv'
    BY <1>7 DEF ClearErr, LiveInv, UpInv, Live
  <2> QED BY <2>1, <2>2
<1>8. CASE StartFail(t)
  <2>1. CreateInv' /\ NewInv' /\ PlaceInv'
    BY <1>8 DEF StartFail, CreateInv, NewInv, PlaceInv
  <2>2. LiveInv' /\ UpInv'
    BY <1>8 DEF StartFail, LiveInv, UpInv, Live, NewInv
  <2> QED BY <2>1, <2>2
<1>9. CASE Publish(t)
  <2>1. CreateInv' /\ NewInv' /\ PlaceInv'
    BY <1>9 DEF Publish, CreateInv, NewInv, PlaceInv
  <2>2. LiveInv' /\ UpInv'
    <3>1. /\ engine = None /\ engine' = held[t] /\ tpc[t] = "publish"
          /\ UNCHANGED <<applied, closed, nats>>
          /\ \A r \in Threads : r # t => tpc'[r] = tpc[r] /\ held'[r] = held[r]
      BY <1>9 DEF Publish, PlaceInv
    <3> QED BY <3>1, ManagerAssumption DEF LiveInv, UpInv, Live, Engines
  <2> QED BY <2>1, <2>2
<1>10. CASE LoadChannels(t, "channels2", "models2") \/ LoadModels(t, "models2", "apply2")
  <2>1. CreateInv' /\ NewInv' /\ PlaceInv'
    BY <1>10 DEF LoadChannels, LoadModels, CreateInv, NewInv, PlaceInv
  <2>2. LiveInv' /\ UpInv'
    <3>1. UNCHANGED <<engine, held, applied, closed, nats>>
          /\ tpc[t] \in Second /\ \E to \in Second : tpc' = [tpc EXCEPT ![t] = to]
      BY <1>10 DEF LoadChannels, LoadModels
    <3> QED BY <3>1 DEF LiveInv, UpInv, Live
  <2> QED BY <2>1, <2>2
<1>11. CASE ApplyHeld(t, "apply2", "clear2")
  <2>0. held[t] \in Engines /\ loaded[t] # None /\ applied[held[t]] # None /\ held[t] <= created
    <3>1. loaded[t] \in Configs
      BY DEF TypeOK
    <3>2. loaded[t] # None
      BY <3>1, ManagerAssumption DEF Configs
    <3> QED BY <1>11, <3>2 DEF ApplyHeld, NewInv, CreateInv
  <2>1. CreateInv' /\ NewInv' /\ PlaceInv'
    BY <1>11, <2>0 DEF ApplyHeld, CreateInv, NewInv, PlaceInv
  <2>2. LiveInv' /\ UpInv'
    BY <1>11, <2>0 DEF ApplyHeld, LiveInv, UpInv, Live
  <2> QED BY <2>1, <2>2
<1>12. CASE ClearErr(t, "clear2", "end") \/ SecondFail(t)
  <2>1. CreateInv' /\ NewInv' /\ PlaceInv'
    BY <1>12 DEF ClearErr, SecondFail, CreateInv, NewInv, PlaceInv
  <2>2. LiveInv' /\ UpInv'
    BY <1>12 DEF ClearErr, SecondFail, LiveInv, UpInv, Live
  <2> QED BY <2>1, <2>2
<1> QED
  BY <1>1, <1>2, <1>3, <1>4, <1>5, <1>6, <1>7, <1>8, <1>9, <1>10, <1>11, <1>12
  DEF StartStep, FirstApply, SecondApply

\* A saver neither takes nor gives an engine.
LEMMA OwnSaver ==
  ASSUME TypeOK, PhaseInv, OwnInv, NEW s \in Savers, Save(s) \/ SaverStep(s)
  PROVE  OwnInv'
<1> USE DEF SaverGoto, threadVars, worldVars, managerVars, Threads, Starters, Stopping, Loading,
            Built, Second, OwnInv, TypeOK
<1>1. CASE Save(s) \/ SaverMark(s) \/ SaverLoad(s) \/ SaverFail(s) \/ SaverRefused(s) \/ SaverClear(s)
  <2>1. CreateInv' /\ PlaceInv' /\ LiveInv' /\ UpInv'
    BY <1>1 DEF Save, SaverMark, SaverLoad, SaverFail, SaverRefused, SaverClear,
                CreateInv, PlaceInv, LiveInv, UpInv, Live
  <2>2. NewInv'
    <3>1. /\ UNCHANGED <<engine, tpc, held, applied>>
          /\ \A r \in Savers : r # s => spc'[r] = spc[r] /\ target'[r] = target[r]
          /\ spc'[s] \in Window => spc[s] \in Window /\ target'[s] = target[s]
      BY <1>1 DEF Save, SaverMark, SaverLoad, SaverFail, SaverRefused, SaverClear, SaverEnd, Window
    <3> QED BY <3>1 DEF NewInv, Window
  <2> QED BY <2>1, <2>2
<1>2. CASE SaverLook(s)
  <2>1. CreateInv' /\ PlaceInv' /\ LiveInv' /\ UpInv'
    BY <1>2 DEF SaverLook, CreateInv, PlaceInv, LiveInv, UpInv, Live
  <2>2. NewInv'
    BY <1>2 DEF SaverLook, NewInv
  <2> QED BY <2>1, <2>2
<1>3. CASE SaverApply(s)
  <2>0. target[s] \in Engines /\ applied[target[s]] # None /\ loaded[s] # None
    BY <1>3, ManagerAssumption DEF SaverApply, NewInv, Configs
  <2>1. CreateInv' /\ PlaceInv' /\ NewInv'
    BY <1>3, <2>0 DEF SaverApply, CreateInv, PlaceInv, NewInv
  <2>2. LiveInv' /\ UpInv'
    BY <1>3, <2>0 DEF SaverApply, LiveInv, UpInv, Live
  <2> QED BY <2>1, <2>2
<1> QED BY <1>1, <1>2, <1>3 DEF SaverStep

\* Every step keeps each engine with one owner.
LEMMA OwnStep == IInv /\ [Next]_vars => OwnInv'
<1> SUFFICES ASSUME IInv, [Next]_vars PROVE OwnInv'
  OBVIOUS
<1>0. TypeOK /\ PhaseInv /\ OwnInv
  BY DEF IInv
<1> USE <1>0 DEF managerVars, threadVars, saverVars, worldVars
<1> DEFINE Frame == UNCHANGED <<engine, held, spc, target, created, applied, closed, nats>>
<1>1. ASSUME Frame, UNCHANGED <<tpc, ctxDone>> PROVE OwnInv'
  BY <1>1 DEF OwnInv, CreateInv, NewInv, PlaceInv, LiveInv, UpInv, Live
<1>2. CASE UNCHANGED vars
  BY <1>1, <1>2 DEF vars
<1>3. CASE Restart \/ Shutdown
  <2>1. PhaseInv /\ Frame /\ tpc["boot"] = "off"
        /\ \E t \in {"restart", "shutdown"} : tpc[t] = "off" /\ tpc' = [tpc EXCEPT ![t] = "stop"]
        /\ (tpc'["restart"] = "stop" => created < MaxEngines \/ tpc["restart"] = "stop")
        /\ (ctxDone' # ctxDone => tpc'["shutdown"] = "stop")
    BY <1>3 DEF Restart, Shutdown, Listening, PhaseInv, TypeOK, Threads
  <2> USE DEF TypeOK, Threads, Starters, Stopping, Loading, Built, Second
  <2>2. CreateInv' /\ NewInv' /\ PlaceInv'
    BY <2>1 DEF OwnInv, CreateInv, NewInv, PlaceInv
  <2>3. LiveInv' /\ UpInv'
    BY <2>1 DEF OwnInv, LiveInv, UpInv, Live
  <2> QED BY <2>2, <2>3 DEF OwnInv
<1>4. ASSUME NEW t \in {"restart", "shutdown"}, StopStep(t) PROVE OwnInv'
  BY <1>4, OwnStop
<1>5. ASSUME NEW t \in {"boot", "restart"}, StartStep(t) PROVE OwnInv'
  BY <1>5, OwnStart DEF Starters
<1>6. CASE RestartEnd \/ BootEnd
  <2>1. Frame /\ ctxDone' = ctxDone /\ \E t \in Starters : Goto(t, "end", "off")
    BY <1>6 DEF RestartEnd, BootEnd, Starters
  <2> USE DEF TypeOK, Threads, Starters, Stopping, Loading, Built, Second, Goto
  <2>2. CreateInv' /\ NewInv' /\ PlaceInv'
    BY <2>1 DEF OwnInv, CreateInv, NewInv, PlaceInv
  <2>3. LiveInv' /\ UpInv'
    BY <2>1 DEF OwnInv, LiveInv, UpInv, Live
  <2> QED BY <2>2, <2>3 DEF OwnInv
<1>7. ASSUME NEW s \in Savers, Save(s) \/ SaverStep(s) PROVE OwnInv'
  BY <1>7, OwnSaver
<1> QED BY <1>2, <1>3, <1>4, <1>5, <1>6, <1>7 DEF Next, ThreadStep

\* The invariant holds at the start.
LEMMA InitInv == Init => IInv
  BY TypeInit, PhaseInit, OwnInit DEF IInv

\* Every step keeps the invariant.
LEMMA StepInv == IInv /\ [Next]_vars => IInv'
  BY PhaseStep, OwnStep DEF IInv

\* Every reachable state satisfies the invariant.
LEMMA Invariance == Spec => []IInv
  BY InitInv, StepInv, PTL DEF Spec

-----------------------------------------------------------------------------
\* What follows from the invariant.

\* The fields of the manager, of its threads and of its savers have their types.
THEOREM TypeCorrect == Spec => []TypeOK
<1>1. IInv => TypeOK
  BY DEF IInv
<1> QED BY Invariance, <1>1, PTL

\* Two engines never drive the links at the same time, whatever restarts,
\* shutdowns, failures and saved configurations meet (manager.go, start, stop),
\* unless the HTTP server has failed and called Stop with a good context.
THEOREM OneLive == Spec => []OneRuntime
<1>1. IInv => OneRuntime
  <2> SUFFICES ASSUME IInv PROVE OneRuntime
    OBVIOUS
  <2> USE DEF IInv, OwnInv, TypeOK
  <2>1. PhaseInv /\ PlaceInv /\ LiveInv
    OBVIOUS
  <2> QED
    BY <2>1, ManagerAssumption
    DEF OneRuntime, PhaseInv, PlaceInv, LiveInv, Threads, Starters, Stopping, Loading, Built, Engines
<1> QED BY Invariance, <1>1, PTL

\* No engine and no client is forgotten: what is live or connected is in the
\* manager or with a thread that will publish or stop it (manager.go, the
\* fields taken by stop and the error paths of start).
THEOREM NoLeak == Spec => []NothingLeaks
<1>1. IInv => NothingLeaks
  BY DEF IInv, OwnInv, LiveInv, UpInv, NothingLeaks, Loading, Built
<1> QED BY Invariance, <1>1, PTL

-----------------------------------------------------------------------------
\* What the status says, however many handlers save and however often.

\* A change is in the database that no applyPlans has been called for.
Pending == configDirty \/ \E s \in Savers : spc[s] \in {"saved", "mark"}

\* A saver never aims at an engine that is still being built.
TargetInv ==
  \A s \in Savers, t \in Starters :
    spc[s] \in Window /\ tpc[t] \in Loading \cup Built => held[t] # target[s]

\* The second pass of start() is for the engine it has published.
HoldInv == \A t \in Starters : tpc[t] \in Second => engine \in {None, held[t]}

\* Without an overlap, at most one applyPlans of a published engine is under way.
SoleInv ==
  ~overlapped =>
    /\ \A s \in Savers, t \in Starters : ~(spc[s] \in Window /\ tpc[t] \in Second)
    /\ \A s, r \in Savers : spc[s] \in Window /\ spc[r] \in Window => s = r

\* While nothing is pending, a runtime that is being built reads what was saved.
BuildInv ==
  ~Pending =>
    \A t \in Starters :
      /\ tpc[t] = "models" => loaded[t].channels = db.channels
      /\ tpc[t] = "apply" => loaded[t] = db
      /\ tpc[t] \in Built => applied[held[t]] = db

\* So does an applyPlans of the published engine: a second pass, or a saver's.
AgainInv ==
  ~Pending /\ ~overlapped =>
    \A t \in Starters :
      /\ tpc[t] = "models2" => loaded[t].channels = db.channels
      /\ tpc[t] = "apply2" => loaded[t] = db
      /\ tpc[t] = "clear2" => applied[held[t]] = db

SaverInv ==
  ~Pending /\ ~overlapped =>
    \A s \in Savers : target[s] = engine =>
      /\ spc[s] = "models" => loaded[s].channels = db.channels
      /\ spc[s] = "apply" => loaded[s] = db
      /\ spc[s] = "clear" => applied[target[s]] = db

\* The published engine runs what was saved, or an applyPlans under way brings it,
\* or the last one has failed and its error is shown.
Idle == (\A t \in Starters : tpc[t] \notin Second) /\ (\A s \in Savers : spc[s] \notin Window)

FreshInv ==
  ~Pending /\ ~overlapped /\ engine # None =>
    \/ applied[engine] = db
    \/ \E t \in Starters : tpc[t] \in Second
    \/ \E s \in Savers : spc[s] \in Window /\ target[s] = engine
    \/ lastApplyErr /\ Idle

SavedInv ==
  TargetInv /\ HoldInv /\ SoleInv /\ BuildInv /\ AgainInv /\ SaverInv /\ FreshInv

\* Nothing is saved at the start, and no engine is there.
LEMMA SavedInit == Init => SavedInv
<1> SUFFICES ASSUME Init PROVE SavedInv
  OBVIOUS
<1> USE ManagerAssumption DEF Init, Threads, Starters, Loading, Built, Second, Window
<1>1. TargetInv /\ HoldInv /\ SoleInv
  BY DEF TargetInv, HoldInv, SoleInv
<1>2. BuildInv /\ AgainInv /\ SaverInv /\ FreshInv
  BY DEF BuildInv, AgainInv, SaverInv, FreshInv
<1> QED BY <1>1, <1>2 DEF SavedInv

\* What the lemmas below need of the invariant.
LEMMA SavedFacts ==
  ASSUME IInv
  PROVE  /\ tpc \in [Threads -> ThreadPcs] /\ spc \in [Savers -> SaverPcs]
         /\ held \in [Threads -> Engines \cup {None}] /\ target \in [Savers -> Engines \cup {None}]
         /\ loaded \in [Threads \cup Savers -> Configs] /\ db \in Configs
         /\ applied \in [Engines -> Configs \cup {None}]
         /\ Starters \subseteq Threads /\ \A s \in Savers : s \notin Threads
         /\ \A t, r \in Starters : t # r => tpc[t] = "off" \/ tpc[r] \in {"off"} \cup Stopping
         /\ \A t, r \in Starters : tpc[t] \notin {"off"} \cup Stopping /\ tpc[r] \notin {"off"} \cup Stopping => t = r
<1>1. TypeOK /\ PhaseInv
  BY DEF IInv
<1>2. \A t, r \in Starters : t # r => tpc[t] = "off" \/ tpc[r] \in {"off"} \cup Stopping
  BY <1>1 DEF PhaseInv, Starters
<1> QED
  BY <1>1, <1>2, ManagerAssumption
  DEF TypeOK, Starters, Threads, ThreadPcs, SaverPcs, Stopping, Loading, Built, Second

\* Stopping empties the manager and changes nothing else that matters here.
LEMMA SavedStop ==
  ASSUME IInv, SavedInv, NEW t \in {"restart", "shutdown"}, StopStep(t)
  PROVE  SavedInv'
<1>1. /\ UNCHANGED <<spc, target, configDirty, lastApplyErr, loaded, applied, db, overlapped>>
      /\ engine' \in {engine, None}
      /\ tpc[t] \in Stopping /\ \E to \in Stopping \cup {"start", "end"} : tpc' = [tpc EXCEPT ![t] = to]
      /\ \A r \in Threads : r # t => held'[r] = held[r]
  BY SavedFacts DEF StopStep, StopTake, StopEngine, StopNats, StopIdle, Goto, Stopping, saverVars, worldVars,
         managerVars, Threads
<1>2. /\ \A r \in Starters : tpc'[r] \in Loading \cup Built \cup Second =>
                               tpc'[r] = tpc[r] /\ held'[r] = held[r]
      /\ \A r \in Starters : tpc[r] \in Second => tpc'[r] = tpc[r]
      /\ \A r \in Starters : tpc'[r] \in Second => tpc[r] \in Second
  BY <1>1, SavedFacts DEF Stopping, Loading, Built, Second
<1>3. Pending' <=> Pending
  BY <1>1 DEF Pending
<1> USE DEF SavedInv
<1>4. TargetInv' /\ HoldInv' /\ SoleInv'
  BY <1>1, <1>2 DEF TargetInv, HoldInv, SoleInv
<1>5. BuildInv' /\ AgainInv'
  BY <1>1, <1>2, <1>3 DEF BuildInv, AgainInv, Loading, Built, Second
<1>6. SaverInv'
  <2>1. ASSUME engine' = None, NEW s \in Savers, spc[s] \in Window PROVE target[s] # engine'
    BY <2>1 DEF IInv, OwnInv, NewInv, Window
  <2> QED BY <1>1, <1>3, <2>1 DEF SaverInv, Window
<1>7. FreshInv'
  BY <1>1, <1>2, <1>3 DEF FreshInv, Idle
<1> QED BY <1>4, <1>5, <1>6, <1>7

\* The first pass of a start reads for the engine it builds.
LEMMA SavedFirst ==
  ASSUME IInv, SavedInv, NEW t \in Starters, FirstApply(t)
  PROVE  SavedInv'
<1> USE DEF Goto, saverVars, worldVars, managerVars, SavedInv
<1>0. /\ UNCHANGED <<spc, target, configDirty, db, overlapped, held, engine>>
      /\ tpc[t] \in Loading \cup {"clear"}
      /\ \E to \in Loading \cup Built : tpc' = [tpc EXCEPT ![t] = to]
      /\ \A x \in Threads \cup Savers : x # t => loaded'[x] = loaded[x]
      /\ \A e \in Engines : e # held[t] => applied'[e] = applied[e]
  BY SavedFacts DEF FirstApply, LoadChannels, LoadModels, ApplyHeld, ClearErr, Forget, Loading, Built
<1>1. /\ engine = None
      /\ \A r \in Starters : r # t => tpc[r] \in {"off"} \cup Stopping
  BY <1>0, SavedFacts DEF IInv, OwnInv, PlaceInv, Loading, Built, Stopping
<1>2. /\ \A r \in Starters : tpc'[r] \notin Second /\ tpc[r] \notin Second
      /\ \A r \in Starters : tpc'[r] \in Loading \cup Built => r = t
  BY <1>0, <1>1, SavedFacts DEF Loading, Built, Second, Stopping
<1>3. Pending' <=> Pending
  BY <1>0 DEF Pending
<1>4. TargetInv'
  BY <1>0, <1>2, SavedFacts DEF TargetInv, Loading, Built
<1>5. HoldInv' /\ SoleInv' /\ AgainInv' /\ FreshInv'
  BY <1>0, <1>1, <1>2 DEF HoldInv, SoleInv, AgainInv, FreshInv, Second
<1>6. SaverInv'
  <2>1. ASSUME NEW s \in Savers, spc[s] \in Window PROVE target[s] # engine
    BY <1>1, <2>1 DEF IInv, OwnInv, NewInv, Window
  <2> QED BY <1>0, <2>1 DEF SaverInv, Window
<1>7. BuildInv'
  <2>1. SUFFICES ASSUME ~Pending
        PROVE  /\ tpc'[t] = "models" => loaded'[t].channels = db.channels
               /\ tpc'[t] = "apply" => loaded'[t] = db
               /\ tpc'[t] \in Built => applied'[held[t]] = db
    BY <1>0, <1>2, <1>3 DEF BuildInv, Loading, Built
  <2>2. CASE LoadChannels(t, "channels", "models")
    BY <2>2, SavedFacts DEF LoadChannels, Configs, Built
  <2>3. CASE LoadModels(t, "models", "apply")
    BY <2>1, <2>3, SavedFacts DEF LoadModels, Configs, Built, BuildInv
  <2>4. CASE ApplyHeld(t, "apply", "clear")
    <3>1. held[t] \in Engines
      BY <2>4, SavedFacts DEF ApplyHeld, IInv, OwnInv, NewInv, Loading
    <3> QED BY <2>1, <2>4, <3>1, SavedFacts DEF ApplyHeld, Built, BuildInv
  <2>5. CASE ClearErr(t, "clear", "publish")
    BY <2>1, <2>5, SavedFacts DEF ClearErr, Built, BuildInv
  <2> QED BY <2>2, <2>3, <2>4, <2>5 DEF FirstApply
<1> QED BY <1>4, <1>5, <1>6, <1>7

\* The second pass of a start, done or failed: without an overlap it is alone.
LEMMA SavedSecond ==
  ASSUME IInv, SavedInv, NEW t \in Starters, SecondApply(t) \/ SecondFail(t)
  PROVE  SavedInv'
<1> USE DEF Goto, saverVars, worldVars, managerVars, SavedInv
<1>0. /\ UNCHANGED <<spc, target, configDirty, db, overlapped, held, engine>>
      /\ tpc[t] \in Second
      /\ \E to \in Second \cup {"end"} : tpc' = [tpc EXCEPT ![t] = to]
      /\ \A x \in Threads \cup Savers : x # t => loaded'[x] = loaded[x]
      /\ \A e \in Engines : e # held[t] => applied'[e] = applied[e]
  BY SavedFacts DEF SecondApply, SecondFail, LoadChannels, LoadModels, ApplyHeld, ClearErr, Forget, Second
<1>1. /\ \A r \in Starters : r # t => tpc[r] \in {"off"} \cup Stopping
      /\ held[t] \in Engines /\ engine \in {None, held[t]}
  BY <1>0, SavedFacts DEF IInv, OwnInv, NewInv, HoldInv, Second, Stopping
<1>2. \A r \in Starters : /\ tpc[r] \in Loading \cup Built \cup Second => r = t
                          /\ tpc'[r] \in Loading \cup Built \cup Second => r = t
  BY <1>0, <1>1, SavedFacts DEF Loading, Built, Second, Stopping
<1>3. Pending' <=> Pending
  BY <1>0 DEF Pending
<1>4. ~overlapped => \A s \in Savers : spc[s] \notin Window
  BY <1>0 DEF SoleInv
<1>5. tpc'[t] \in Second \cup {"end"}
  BY <1>0, SavedFacts
<1>6. TargetInv' /\ HoldInv' /\ SoleInv' /\ BuildInv'
  BY <1>0, <1>1, <1>2, <1>5 DEF TargetInv, HoldInv, SoleInv, BuildInv, Loading, Built, Second
<1>7. SaverInv'
  BY <1>0, <1>3, <1>4 DEF SaverInv, Window
<1>8. AgainInv'
  <2>1. SUFFICES ASSUME ~Pending, ~overlapped
        PROVE  /\ tpc'[t] = "models2" => loaded'[t].channels = db.channels
               /\ tpc'[t] = "apply2" => loaded'[t] = db
               /\ tpc'[t] = "clear2" => applied'[held[t]] = db
    BY <1>0, <1>2, <1>3 DEF AgainInv, Second
  <2>2. CASE LoadChannels(t, "channels2", "models2")
    BY <2>2, SavedFacts DEF LoadChannels, Configs
  <2>3. CASE LoadModels(t, "models2", "apply2")
    BY <2>1, <2>3, SavedFacts DEF LoadModels, Configs, AgainInv
  <2>4. CASE ApplyHeld(t, "apply2", "clear2")
    BY <1>1, <2>1, <2>4, SavedFacts DEF ApplyHeld, AgainInv
  <2>5. CASE ClearErr(t, "clear2", "end") \/ SecondFail(t)
    BY <2>5, SavedFacts DEF ClearErr, SecondFail
  <2> QED BY <2>2, <2>3, <2>4, <2>5 DEF SecondApply
<1>9. FreshInv'
  <2>1. SUFFICES ASSUME ~Pending, ~overlapped, engine # None, tpc'[t] \notin Second
        PROVE  applied'[engine] = db \/ (lastApplyErr' /\ Idle')
    BY <1>0, <1>3 DEF FreshInv
  <2>2. CASE ClearErr(t, "clear2", "end")
    BY <1>1, <2>1, <2>2 DEF ClearErr, AgainInv
  <2>3. CASE SecondFail(t)
    <3>1. lastApplyErr'
      BY <2>3 DEF SecondFail
    <3>2. \A r \in Starters : tpc'[r] \notin Second
      BY <1>2, <2>1
    <3> QED BY <1>0, <1>4, <2>1, <3>1, <3>2 DEF Idle
  <2>4. CASE LoadChannels(t, "channels2", "models2") \/ LoadModels(t, "models2", "apply2")
             \/ ApplyHeld(t, "apply2", "clear2")
    BY <2>1, <2>4, SavedFacts DEF LoadChannels, LoadModels, ApplyHeld, Second
  <2> QED BY <2>2, <2>3, <2>4 DEF SecondApply
<1> QED BY <1>6, <1>7, <1>8, <1>9

\* Every step of a start: publishing takes what is dirty, or hands on what is new.
LEMMA SavedStart ==
  ASSUME IInv, SavedInv, NEW t \in Starters, StartStep(t)
  PROVE  SavedInv'
<1> USE DEF Goto, saverVars, worldVars, managerVars, SavedInv
<1>1. CASE Start(t) \/ SettingsFail(t) \/ Create(t) \/ StartFail(t)
  <2>1. /\ UNCHANGED <<engine, configDirty, spc, target, applied, db, overlapped>>
        /\ \E to \in {"settings", "end", "channels"} : tpc' = [tpc EXCEPT ![t] = to]
        /\ tpc[t] \in {"start", "settings", "channels", "models"}
        /\ \A r \in Threads : r # t => held'[r] = held[r]
        /\ \A x \in Threads \cup Savers : x # t => loaded'[x] = loaded[x]
    BY <1>1, SavedFacts DEF Start, SettingsFail, Create, StartFail, Forget
  <2>2. /\ engine = None
        /\ Pending' <=> Pending
        /\ \A r \in Starters : r # t => tpc'[r] = tpc[r] /\ held'[r] = held[r] /\ loaded'[r] = loaded[r]
        /\ \A r \in Starters : tpc[r] \notin Second /\ tpc'[r] \notin Second
        /\ tpc'[t] \in {"settings", "end", "channels"}
    <3>1. engine = None
      BY <2>1 DEF IInv, OwnInv, PlaceInv, Loading
    <3>2. \A r \in Starters : r # t => tpc'[r] = tpc[r] /\ tpc[r] \in {"off"} \cup Stopping
      BY <2>1, SavedFacts DEF Stopping
    <3> QED BY <2>1, <3>1, <3>2, SavedFacts DEF Second, Stopping, Pending
  <2>3. TargetInv'
    <3>1. CASE Create(t)
      <4>1. created \in Nat /\ held'[t] = created + 1
        BY <3>1, SavedFacts DEF Create, IInv, TypeOK, Starters, Threads
      <4>2. ASSUME NEW s \in Savers, spc[s] \in Window PROVE target[s] # created + 1
        <5>1. target[s] \in Engines /\ applied[target[s]] # None
          BY <4>2, SavedFacts DEF IInv, OwnInv, NewInv, Window
        <5>2. ~(target[s] > created)
          BY <5>1 DEF IInv, OwnInv, CreateInv
        <5> QED BY <4>1, <5>1, <5>2 DEF Engines
      <4> QED
        <5>1. SUFFICES ASSUME NEW s \in Savers, NEW r \in Starters, spc[s] \in Window, tpc'[r] \in Loading \cup Built
              PROVE  held'[r] # target[s]
          BY <2>1 DEF TargetInv
        <5>2. CASE r = t
          BY <4>1, <4>2, <5>1, <5>2
        <5>3. CASE r # t
          BY <2>2, <5>1, <5>3 DEF TargetInv
        <5> QED BY <5>2, <5>3
    <3>2. CASE Start(t) \/ SettingsFail(t) \/ StartFail(t)
      <4>1. tpc'[t] \notin Loading \cup Built
        BY <3>2, SavedFacts DEF Start, SettingsFail, StartFail, Loading, Built
      <4> QED
        <5>1. \A r \in Starters : tpc'[r] \in Loading \cup Built =>
                tpc[r] \in Loading \cup Built /\ held'[r] = held[r]
          BY <2>2, <4>1
        <5> QED BY <2>1, <5>1 DEF TargetInv
    <3> QED BY <1>1, <3>1, <3>2
  <2>4. HoldInv' /\ SoleInv' /\ AgainInv' /\ FreshInv'
    BY <2>1, <2>2 DEF HoldInv, SoleInv, AgainInv, FreshInv, Second
  <2>5. BuildInv'
    <3>1. \A r \in Starters : tpc'[r] \in {"models", "apply"} \cup Built =>
            tpc'[r] = tpc[r] /\ held'[r] = held[r] /\ loaded'[r] = loaded[r]
      BY <2>2 DEF Built
    <3> QED BY <2>1, <2>2, <3>1 DEF BuildInv
  <2>6. SaverInv'
    <3>1. ASSUME NEW s \in Savers, spc[s] \in Window PROVE target[s] # engine
      BY <2>2, <3>1 DEF IInv, OwnInv, NewInv, Window
    <3> QED BY <2>1, <3>1 DEF SaverInv, Window
  <2> QED BY <2>3, <2>4, <2>5, <2>6
<1>2. CASE Publish(t)
  <2>1. /\ UNCHANGED <<spc, target, loaded, applied, db>> /\ tpc[t] = "publish" /\ engine' = held[t]
        /\ ~configDirty' /\ tpc'[t] = (IF configDirty THEN "channels2" ELSE "end")
        /\ configDirty => held'[t] = held[t]
        /\ ~overlapped' => ~overlapped /\ (configDirty => Appliers = {})
        /\ \A r \in Starters : r # t => tpc'[r] = tpc[r] /\ tpc[r] \in {"off"} \cup Stopping
    BY <1>2, SavedFacts DEF Publish, Stopping
  <2>2. \A r \in Starters : /\ tpc'[r] \notin Loading \cup Built
                            /\ tpc'[r] \in Second => r = t /\ configDirty /\ tpc'[r] = "channels2"
    BY <2>1 DEF Loading, Built, Second, Stopping
  <2>3. \A s \in Savers : spc[s] \in Window => target[s] # engine' /\ s \in Appliers
    BY <2>1 DEF TargetInv, Built, Appliers, Window
  <2>4. ~configDirty => (Pending' <=> Pending)
    BY <2>1 DEF Pending
  <2>5. TargetInv' /\ HoldInv' /\ BuildInv' /\ AgainInv'
    <3>1. TargetInv' /\ BuildInv'
      BY <2>2 DEF TargetInv, BuildInv, Loading, Built
    <3>2. HoldInv'
      BY <2>1, <2>2 DEF HoldInv
    <3>3. AgainInv'
      BY <2>2 DEF AgainInv, Second
    <3> QED BY <3>1, <3>2, <3>3
  <2>6. SoleInv'
    BY <2>1, <2>2, <2>3 DEF SoleInv
  <2>7. SaverInv'
    BY <2>1, <2>3 DEF SaverInv, Window
  <2>8. FreshInv'
    <3>1. CASE configDirty
      BY <2>1, <3>1 DEF FreshInv, Second
    <3>2. CASE ~configDirty
      BY <2>1, <2>4, <3>2 DEF FreshInv, BuildInv, Built
    <3> QED BY <3>1, <3>2
  <2> QED BY <2>5, <2>6, <2>7, <2>8
<1> QED BY <1>1, <1>2, SavedFirst, SavedSecond DEF StartStep

\* The steps of a handler: what it saves is pending until an applyPlans is called.
LEMMA SavedSaver ==
  ASSUME IInv, SavedInv, NEW s \in Savers, Save(s) \/ SaverStep(s)
  PROVE  SavedInv'
<1> USE DEF SaverGoto, threadVars, worldVars, managerVars, SavedInv
<1>1. CASE Save(s) \/ SaverMark(s)
  <2>1. /\ UNCHANGED <<engine, lastApplyErr, tpc, held, applied, overlapped>>
        /\ spc[s] \notin Window /\ spc'[s] \notin Window
        /\ \A r \in Savers : r # s => spc'[r] = spc[r] /\ target'[r] = target[r]
    BY <1>1, SavedFacts DEF Save, SaverMark, SaverEnd, Window
  <2>2. Pending'
    BY <1>1, SavedFacts DEF Save, SaverMark, Pending
  <2> QED
    BY <2>1, <2>2
    DEF TargetInv, HoldInv, SoleInv, BuildInv, AgainInv, SaverInv, FreshInv
<1>2. CASE SaverLook(s)
  <2>1. /\ UNCHANGED <<engine, lastApplyErr, tpc, held, loaded, applied, db, configDirty>>
        /\ spc[s] = "saved" /\ target'[s] = engine
        /\ spc'[s] = IF engine # None /\ state = "running" THEN "channels" ELSE "mark"
        /\ \A r \in Savers : r # s => spc'[r] = spc[r] /\ target'[r] = target[r]
        /\ ~overlapped' => ~overlapped
        /\ engine # None /\ state = "running" /\ ~overlapped' => Appliers = {}
    BY <1>2, SavedFacts DEF SaverLook
  <2>2. CASE engine # None /\ state = "running"
    <3>1. spc'[s] = "channels"
      BY <2>1, <2>2
    <3>2. \A t \in Starters : tpc[t] \notin Loading \cup Built
      BY <2>2 DEF IInv, OwnInv, PlaceInv
    <3>3. ~overlapped' => (\A t \in Starters : tpc[t] \notin Second) /\ (\A r \in Savers : spc[r] \notin Window)
      BY <2>1, <2>2 DEF Appliers, Second, Window, Starters
    <3>4. TargetInv' /\ HoldInv' /\ BuildInv'
      BY <2>1, <3>2 DEF TargetInv, HoldInv, BuildInv, Loading, Built
    <3>5. SoleInv'
      BY <2>1, <3>3 DEF SoleInv
    <3>6. AgainInv'
      BY <2>1, <3>3 DEF AgainInv, Second
    <3>7. SaverInv'
      BY <2>1, <3>1, <3>3 DEF SaverInv, Window
    <3>8. FreshInv'
      BY <2>1, <3>1 DEF FreshInv, Window
    <3> QED BY <3>4, <3>5, <3>6, <3>7, <3>8
  <2>3. CASE ~(engine # None /\ state = "running")
    <3>1. spc'[s] = "mark"
      BY <2>1, <2>3
    <3>2. Pending'
      BY <3>1 DEF Pending
    <3> QED
      BY <2>1, <3>1, <3>2
      DEF Window, TargetInv, HoldInv, SoleInv, BuildInv, AgainInv, SaverInv, FreshInv
  <2> QED BY <2>2, <2>3
<1>3. CASE SaverLoad(s) \/ SaverApply(s)
  <2>1. /\ UNCHANGED <<engine, lastApplyErr, tpc, held, db, configDirty, overlapped, target>>
        /\ spc[s] \in Window /\ \E to \in Window : spc' = [spc EXCEPT ![s] = to]
        /\ \A x \in Threads \cup Savers : x # s => loaded'[x] = loaded[x]
        /\ \A e \in Engines : e # target[s] => applied'[e] = applied[e]
    BY <1>3, SavedFacts DEF SaverLoad, SaverApply, Window
  <2>2. /\ \A r \in Savers : spc'[r] \in Window <=> spc[r] \in Window
        /\ \A r \in Savers : r # s => spc'[r] = spc[r]
        /\ Pending' <=> Pending
        /\ \A t \in Starters : loaded'[t] = loaded[t]
    BY <2>1, SavedFacts DEF Pending, Window
  <2>3. TargetInv' /\ HoldInv' /\ SoleInv'
    BY <2>1, <2>2 DEF TargetInv, HoldInv, SoleInv
  <2>4. BuildInv'
    <3>1. ASSUME NEW t \in Starters, tpc[t] \in Built PROVE applied'[held[t]] = applied[held[t]]
      <4>1. held[t] \in Engines /\ held[t] # target[s]
        BY <2>1, <3>1, SavedFacts DEF TargetInv, IInv, OwnInv, NewInv
      <4> QED BY <2>1, <4>1
    <3> QED BY <2>1, <2>2, <3>1 DEF BuildInv, Built
  <2>5. AgainInv'
    <3>1. ~overlapped => \A t \in Starters : tpc[t] \notin Second
      BY <2>1 DEF SoleInv
    <3> QED BY <2>1, <3>1 DEF AgainInv, Second
  <2>6. SaverInv'
    <3>1. SUFFICES ASSUME ~Pending, ~overlapped, target[s] = engine
          PROVE  /\ spc'[s] = "models" => loaded'[s].channels = db.channels
                 /\ spc'[s] = "apply" => loaded'[s] = db
                 /\ spc'[s] = "clear" => applied'[target[s]] = db
      <4>1. ~overlapped => \A r \in Savers : r # s => spc[r] \notin Window
        BY <2>1 DEF SoleInv
      <4> QED BY <2>1, <2>2, <4>1 DEF SaverInv, Window
    <3>2. CASE SaverLoad(s)
      <4>1. CASE spc[s] = "channels"
        BY <3>2, <4>1, SavedFacts DEF SaverLoad, Configs
      <4>2. CASE spc[s] # "channels"
        <5>1. spc[s] = "models" /\ spc'[s] = "apply" /\ loaded' = [loaded EXCEPT ![s].models = db.models]
          BY <3>2, <4>2, SavedFacts DEF SaverLoad
        <5> QED BY <3>1, <5>1, SavedFacts DEF SaverInv, Configs
      <4> QED BY <4>1, <4>2
    <3>3. CASE SaverApply(s)
      <4>1. target[s] \in Engines
        BY <2>1, SavedFacts DEF IInv, OwnInv, NewInv, Window
      <4> QED BY <3>1, <3>3, <4>1, SavedFacts DEF SaverApply, SaverInv
    <3> QED BY <1>3, <3>2, <3>3
  <2>7. FreshInv'
    <3>1. CASE target[s] = engine
      BY <2>1, <2>2, <3>1 DEF FreshInv
    <3>2. CASE target[s] # engine
      <4>1. engine # None => applied'[engine] = applied[engine]
        BY <2>1, <3>2 DEF IInv, TypeOK
      <4> QED BY <2>1, <2>2, <4>1 DEF FreshInv, Idle
    <3> QED BY <3>1, <3>2
  <2> QED BY <2>3, <2>4, <2>5, <2>6, <2>7
<1>4. CASE SaverFail(s) \/ SaverRefused(s) \/ SaverClear(s)
  <2>1. /\ UNCHANGED <<engine, tpc, held, db, configDirty, overlapped, applied>>
        /\ spc[s] \in Window /\ spc' = [spc EXCEPT ![s] = "idle"]
        /\ \A r \in Savers : r # s => target'[r] = target[r]
        /\ \A x \in Threads \cup Savers : x # s => loaded'[x] = loaded[x]
    BY <1>4, SavedFacts DEF SaverFail, SaverRefused, SaverClear, SaverEnd, Forget, Window
  <2>2. /\ spc'[s] = "idle"
        /\ \A r \in Savers : r # s => spc'[r] = spc[r]
        /\ Pending' <=> Pending
        /\ \A t \in Starters : loaded'[t] = loaded[t]
    BY <2>1, SavedFacts DEF Pending, Window
  <2>3. TargetInv' /\ HoldInv' /\ SoleInv' /\ BuildInv' /\ AgainInv'
    BY <2>1, <2>2 DEF TargetInv, HoldInv, SoleInv, BuildInv, AgainInv, Window
  <2>4. SaverInv'
    BY <2>1, <2>2 DEF SaverInv
  <2>5. ~overlapped => Idle' /\ (\A t \in Starters : tpc[t] \notin Second)
                             /\ (\A r \in Savers : r # s => spc[r] \notin Window)
    BY <2>1, <2>2 DEF SoleInv, Idle, Window
  <2>6. FreshInv'
    <3>1. SUFFICES ASSUME ~Pending, ~overlapped, engine # None
          PROVE  applied[engine] = db \/ (lastApplyErr' /\ Idle')
      BY <2>1, <2>2 DEF FreshInv
    <3>2. CASE SaverFail(s) \/ SaverRefused(s)
      BY <2>5, <3>1, <3>2 DEF SaverFail, SaverRefused
    <3>3. CASE SaverClear(s)
      <4>1. CASE target[s] = engine
        BY <3>1, <3>3, <4>1 DEF SaverClear, SaverEnd, SaverInv
      <4>2. CASE target[s] # engine
        BY <2>1, <2>5, <3>1, <4>2 DEF FreshInv, Idle
      <4> QED BY <4>1, <4>2
    <3> QED BY <1>4, <3>2, <3>3
  <2> QED BY <2>3, <2>4, <2>6
<1> QED BY <1>1, <1>2, <1>3, <1>4 DEF SaverStep

\* Every step keeps what the status says true.
LEMMA SavedStep == IInv /\ SavedInv /\ [Next]_vars => SavedInv'
<1> SUFFICES ASSUME IInv, SavedInv, [Next]_vars PROVE SavedInv'
  OBVIOUS
<1> USE DEF managerVars, threadVars, saverVars, worldVars, SavedInv
<1> DEFINE Frame == UNCHANGED <<engine, configDirty, lastApplyErr, held, loaded, spc, target, db, applied, overlapped>>
<1>1. ASSUME Frame, NEW t \in Threads, NEW to \in {"stop", "off"}, tpc[t] \in {"off", "end"},
             tpc' = [tpc EXCEPT ![t] = to]
      PROVE  SavedInv'
  <2>1. /\ \A r \in Starters : tpc'[r] \in Loading \cup Built \cup Second => tpc'[r] = tpc[r]
        /\ \A r \in Starters : tpc[r] \in Second <=> tpc'[r] \in Second
        /\ Pending' <=> Pending
    BY <1>1, SavedFacts DEF Loading, Built, Second, Pending
  <2>2. TargetInv' /\ HoldInv' /\ SoleInv' /\ SaverInv'
    BY <1>1, <2>1 DEF TargetInv, HoldInv, SoleInv, SaverInv
  <2>3. BuildInv' /\ AgainInv' /\ FreshInv'
    BY <1>1, <2>1 DEF BuildInv, AgainInv, FreshInv, Idle, Loading, Built, Second
  <2> QED BY <2>2, <2>3
<1>2. CASE UNCHANGED vars
  BY <1>2 DEF vars, TargetInv, HoldInv, SoleInv, BuildInv, AgainInv, SaverInv, FreshInv, Idle, Pending
<1>3. CASE Restart \/ Shutdown \/ RestartEnd \/ BootEnd
  <2>1. Frame /\ \E t \in Threads, to \in {"stop", "off"} : tpc[t] \in {"off", "end"} /\ tpc' = [tpc EXCEPT ![t] = to]
    BY <1>3 DEF Restart, Shutdown, RestartEnd, BootEnd, Listening, Goto, Threads, IInv, PhaseInv
  <2> QED BY <1>1, <2>1
<1>4. ASSUME NEW t \in {"restart", "shutdown"}, StopStep(t) PROVE SavedInv'
  BY <1>4, SavedStop
<1>5. ASSUME NEW t \in {"boot", "restart"}, StartStep(t) PROVE SavedInv'
  BY <1>5, SavedStart DEF Starters
<1>6. ASSUME NEW s \in Savers, Save(s) \/ SaverStep(s) PROVE SavedInv'
  BY <1>6, SavedSaver
<1> QED BY <1>2, <1>3, <1>4, <1>5, <1>6 DEF Next, ThreadStep

\* However often is saved, restarted and stopped: when all is quiet, nothing is
\* pending and no error is shown, the engine runs what the database holds, unless
\* two applyPlans have been under way at the same time (manager.go, start and
\* ConfigChangedErr).
THEOREM Truthful == Spec => []StatusTruthful
<1>1. Init => SavedInv
  BY SavedInit
<1>2. IInv /\ SavedInv /\ [Next]_vars => SavedInv'
  BY SavedStep
<1>3. IInv /\ SavedInv => StatusTruthful
  <2> SUFFICES ASSUME IInv, SavedInv, Quiet, engine # None, ~configDirty, ~lastApplyErr, ~overlapped
      PROVE  applied[engine] = db
    BY DEF StatusTruthful
  <2>1. \A t \in Starters : tpc[t] \notin Second
    BY DEF Quiet, Listening, Starters, Second
  <2>2. \A s \in Savers : spc[s] \notin Window \cup {"saved", "mark"}
    BY DEF Quiet, Window
  <2> QED BY <2>1, <2>2 DEF SavedInv, FreshInv, Pending
<1> QED BY Invariance, <1>1, <1>2, <1>3, PTL DEF Spec

=============================================================================

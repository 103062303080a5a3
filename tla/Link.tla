-------------------------------- MODULE Link --------------------------------
(***************************************************************************)
(* The worker goroutine of one link in detail (internal/engine/worker.go): *)
(* connecting, reconnecting and slow probing, the polling schedule, what   *)
(* the worker says about its devices - the cached value of the virtual     *)
(* online property, telemetry - and the link alarm (internal/engine/       *)
(* event.go).  Module Engine has its write queue and who starts and stops  *)
(* it; module Exchange has one request on the wire.                        *)
(*                                                                         *)
(* Time is counted in polling granules (wait), timers of the other loops   *)
(* simply fire.  A worker that was replaced by a reload is followed by a   *)
(* new one for the same link (LinkRestart), up to Restarts times.          *)
(***************************************************************************)
EXTENDS Integers, Sequences, FiniteSets, FiniteSetsExt, SequencesExt

CONSTANTS
  Devices,            \* the valid devices of the plan
  Groups,             \* how many read groups each of them has, none included
  ReconnectRetries,   \* Config.ReconnectRetries, 0: no limit
  BaseDelay,          \* pollInterval, in granules
  MaxDelay,           \* the 30 s ceiling of nextDelay, in granules
  Restarts,           \* bound: reloads that replace the worker
  CountCap            \* bound: counters stop here

ASSUME LinkAssumption ==
  /\ IsFiniteSet(Devices) /\ Devices # {}
  /\ Groups \in [Devices -> Nat]
  /\ ReconnectRetries \in Nat
  /\ BaseDelay \in Nat \ {0}
  /\ MaxDelay \in Nat \ {0}
  /\ Restarts \in Nat
  /\ CountCap \in Nat /\ CountCap > ReconnectRetries

VARIABLES
  pc,           \* control point of run / collectLoop / waitReconnect / slowProbe
  cancelled,    \* the context of the worker is done
  gen,          \* how many workers this link has had before
  phase,        \* worker.phase
  connected,    \* worker.connected
  attempts      \* connectAttempts of run

linkVars == <<pc, cancelled, gen, phase, connected, attempts>>

VARIABLES
  gi,           \* groups of the device at the head of due that were requested
  firstErr,     \* firstErr of pollDevice is set
  answered      \* which of those groups were answered

groupVars == <<gi, firstErr, answered>>

VARIABLES
  due,          \* devices of this round that are still to be polled
  round,        \* devices polled in this round
  wait,         \* granules until nextDue of a device
  fails         \* deviceState.ConsecFail

pollVars == <<due, round, wait, fails, groupVars>>

VARIABLES
  cache,        \* cached value of the virtual online property
  said          \* last telemetry of a device: "none", "on", "off"

deviceVars == <<cache, said>>

VARIABLES
  active,       \* linkTracker.active
  raised,       \* history: triggers less recovers this worker has sent
  unpaired      \* history: triggers less recovers the link has sent

alarmVars == <<active, raised, unpaired>>

vars == <<linkVars, pollVars, deviceVars, alarmVars>>

-----------------------------------------------------------------------------
Bump(n) == Min({n + 1, CountCap})

Init ==
  /\ pc = "top"
  /\ cancelled = FALSE
  /\ gen = 0
  /\ phase = ""
  /\ connected = FALSE
  /\ attempts = 0
  /\ gi = 0
  /\ firstErr = FALSE
  /\ answered = {}
  /\ due = << >>
  /\ round = {}
  /\ wait = [d \in Devices |-> 0]
  /\ fails = [d \in Devices |-> 0]
  /\ cache = [d \in Devices |-> "unset"]
  /\ said = [d \in Devices |-> "none"]
  /\ active = FALSE
  /\ raised = 0
  /\ unpaired = 0

-----------------------------------------------------------------------------
\* Telemetry and the online property.

\* publishAllOffline, and the telemetry of one device that does not answer.
SayOffline(D) == said' = [d \in Devices |-> IF d \in D THEN "off" ELSE said[d]]

\* Mutant of MarkAllOffline: the cached values stay as they are.
MarkNothing == cache' = cache

MarkAllOffline == cache' = [d \in Devices |-> "0"]

\* setDeviceOnline and the snapshot that follows it.
DeviceOnline(d) ==
  /\ cache' = [cache EXCEPT ![d] = "1"]
  /\ fails' = [fails EXCEPT ![d] = 0]
  /\ connected' = TRUE
  /\ said' = [said EXCEPT ![d] = "on"]

-----------------------------------------------------------------------------
\* linkTracker.

\* onDisconnect: a trigger the first time.  The aggregates that follow once in
\* a window, and their count, are left out.
TrackDisconnect ==
  /\ active' = TRUE
  /\ raised' = IF active THEN raised ELSE raised + 1
  /\ unpaired' = IF active THEN unpaired ELSE unpaired + 1

\* Mutant of TrackRecover: the recover edge is never sent.
TrackForgets ==
  /\ active' = FALSE
  /\ UNCHANGED <<raised, unpaired>>

\* onRecover: only a link that has raised the alarm clears it.
TrackRecover ==
  /\ active' = FALSE
  /\ raised' = IF active THEN raised - 1 ELSE raised
  /\ unpaired' = IF active THEN unpaired - 1 ELSE unpaired

-----------------------------------------------------------------------------
\* run: connect.

\* The engine cancels the worker: a reload or a stop.
LinkCancel ==
  /\ ~cancelled
  /\ cancelled' = TRUE
  /\ UNCHANGED <<pc, gen, phase, connected, attempts, pollVars, deviceVars, alarmVars>>

LinkTop ==
  /\ pc = "top"
  /\ IF cancelled THEN pc' = "exit" /\ phase' = phase
                  ELSE pc' = "dial" /\ phase' = "connecting"
  /\ UNCHANGED <<cancelled, gen, connected, attempts, pollVars, deviceVars, alarmVars>>

\* Open failed, for the network's reasons or because the context is done.
\* Below the limit waitReconnect says the same once more.
LinkOpenFailed ==
  /\ pc = "dial"
  /\ attempts' = Bump(attempts)
  /\ connected' = FALSE
  /\ MarkAllOffline
  /\ TrackDisconnect
  /\ IF ReconnectRetries > 0 /\ attempts' > ReconnectRetries
     THEN pc' = "probe" /\ phase' = "fatal"
     ELSE pc' = "wait" /\ phase' = "reconnecting"
  /\ SayOffline(Devices)
  /\ UNCHANGED <<cancelled, gen, pollVars>>

\* Open succeeded: every device is due at once.
LinkOpened ==
  /\ pc = "dial"
  /\ pc' = "collect"
  /\ attempts' = 0
  /\ connected' = TRUE
  /\ phase' = "online"
  /\ TrackRecover
  /\ wait' = [d \in Devices |-> 0]
  /\ UNCHANGED <<cancelled, gen, due, round, fails, groupVars, deviceVars>>

\* waitReconnect.
LinkRetry ==
  /\ pc = "wait"
  /\ pc' = "top"
  /\ UNCHANGED <<cancelled, gen, phase, connected, attempts, pollVars, deviceVars, alarmVars>>

\* The 30 s heartbeat of waitReconnect and of slowProbe.
LinkHeartbeat ==
  /\ pc \in {"wait", "probe"}
  /\ SayOffline(Devices)
  /\ UNCHANGED <<linkVars, pollVars, cache, alarmVars>>

\* Mutant of LinkInterrupted: slowProbe does not watch the context.
InterruptedWaitOnly ==
  /\ pc = "wait"
  /\ cancelled
  /\ pc' = "exit"
  /\ UNCHANGED <<cancelled, gen, phase, connected, attempts, pollVars, deviceVars, alarmVars>>

LinkInterrupted ==
  /\ pc \in {"wait", "probe"}
  /\ cancelled
  /\ pc' = "exit"
  /\ UNCHANGED <<cancelled, gen, phase, connected, attempts, pollVars, deviceVars, alarmVars>>

\* slowProbe: a successful probe goes back to the top, which opens once more.
LinkProbeOk ==
  /\ pc = "probe"
  /\ pc' = "top"
  /\ connected' = TRUE
  /\ attempts' = 0
  /\ UNCHANGED <<cancelled, gen, phase, pollVars, deviceVars, alarmVars>>

LinkProbeFailed ==
  /\ pc = "probe"
  /\ connected' = FALSE
  /\ UNCHANGED <<pc, cancelled, gen, phase, attempts, pollVars, deviceVars, alarmVars>>

-----------------------------------------------------------------------------
\* collectLoop.

\* A tick: at least one granule has passed; the devices that are due are
\* polled, the one that has waited longest first.
LinkTick ==
  /\ pc = "collect"
  /\ \E k \in 1 .. MaxDelay :
       LET left == [d \in Devices |-> wait[d] - k]
           now  == {d \in Devices : left[d] <= 0}
       IN /\ wait' = [d \in Devices |-> Max({left[d], 0})]
          /\ round' = now
          /\ due' \in {s \in SetToSeqs(now) :
                         \A i, j \in DOMAIN s : i < j => left[s[i]] <= left[s[j]]}
          /\ pc' = IF now = {} THEN "collect" ELSE "poll"
  /\ UNCHANGED <<cancelled, gen, phase, connected, attempts, fails, groupVars, deviceVars, alarmVars>>

LinkDone ==
  /\ pc = "collect"
  /\ cancelled
  /\ pc' = "exit"
  /\ UNCHANGED <<cancelled, gen, phase, connected, attempts, pollVars, deviceVars, alarmVars>>

\* pollDevice requests the groups of the device at the head of due in turn.
GroupsLeft == pc = "poll" /\ due # << >> /\ gi < Groups[Head(due)]

\* Mutant of GroupOk: the last group decides, an earlier error is forgotten.
GroupOkForgets ==
  /\ GroupsLeft
  /\ gi' = gi + 1
  /\ answered' = answered \cup {gi'}
  /\ firstErr' = FALSE
  /\ UNCHANGED <<linkVars, due, round, wait, fails, deviceVars, alarmVars>>

GroupOk ==
  /\ GroupsLeft
  /\ gi' = gi + 1
  /\ answered' = answered \cup {gi'}
  /\ UNCHANGED <<firstErr, linkVars, due, round, wait, fails, deviceVars, alarmVars>>

\* No answer, an exception, or the context was done within the request: the
\* other groups are still requested.
GroupFailed ==
  /\ GroupsLeft
  /\ gi' = gi + 1
  /\ firstErr' = TRUE
  /\ UNCHANGED <<answered, linkVars, due, round, wait, fails, deviceVars, alarmVars>>

\* pollDevice has returned: sleepCtx notices the context, or the next device
\* follows.
NextDevice ==
  /\ gi' = 0 /\ firstErr' = FALSE /\ answered' = {}
  /\ \/ due' = Tail(due) /\ pc' = pc
     \/ cancelled /\ due' = << >> /\ pc' = "exit"

\* No group has failed.  A device without groups was not asked at all.
PollOk ==
  /\ pc = "poll" /\ due # << >>
  /\ gi = Groups[Head(due)] /\ ~firstErr
  /\ DeviceOnline(Head(due))
  /\ NextDevice
  /\ UNCHANGED <<cancelled, gen, phase, attempts, round, wait, alarmVars>>

\* The context is done before a group is requested, or in the gap after one
\* that was answered: pollDevice returns nil, whatever it has met before, and
\* collectLoop takes that for success.
PollCut ==
  /\ pc = "poll" /\ due # << >>
  /\ cancelled
  /\ gi < Groups[Head(due)] \/ gi \in answered
  /\ DeviceOnline(Head(due))
  /\ NextDevice
  /\ UNCHANGED <<cancelled, gen, phase, attempts, round, wait, alarmVars>>

\* setDeviceOffline.
DeviceOffline(d) == fails' = [fails EXCEPT ![d] = Bump(@)]

\* The first error is what the device is judged by.
PollFailed ==
  /\ pc = "poll" /\ due # << >>
  /\ gi = Groups[Head(due)] /\ firstErr
  /\ DeviceOffline(Head(due))
  /\ cache' = [cache EXCEPT ![Head(due)] = "0"]
  /\ SayOffline({Head(due)})
  /\ NextDevice
  /\ UNCHANGED <<cancelled, gen, phase, connected, attempts, round, wait, alarmVars>>

\* The connection broke within a request: collectLoop returns, run announces
\* every device and waitReconnect does so again.
PollBroken ==
  /\ GroupsLeft
  /\ DeviceOffline(Head(due))
  /\ MarkAllOffline
  /\ SayOffline(Devices)
  /\ connected' = FALSE
  /\ phase' = "reconnecting"
  /\ pc' = "wait"
  /\ due' = << >>
  /\ gi' = 0 /\ firstErr' = FALSE /\ answered' = {}
  /\ UNCHANGED <<cancelled, gen, attempts, round, wait, alarmVars>>

\* Mutant of Delay: a failing device is polled again at once.
DelayHalved(f) == IF f = 0 THEN BaseDelay ELSE BaseDelay \div 2

\* nextDelay: doubled with every consecutive failure up to the ceiling.
Delay(f) ==
  IF f = 0 THEN BaseDelay ELSE Min({MaxDelay, BaseDelay * 2^(f - 1)})

\* Mutant of Reschedule: a round puts every device off.
RescheduleAll ==
  /\ pc = "poll" /\ due = << >>
  /\ pc' = "collect"
  /\ wait' = [d \in Devices |-> Delay(fails[d])]
  /\ round' = {}
  /\ UNCHANGED <<cancelled, gen, phase, connected, attempts, due, fails,
                 groupVars, deviceVars, alarmVars>>

\* The end of a round: everything that was polled is scheduled again.
Reschedule ==
  /\ pc = "poll" /\ due = << >>
  /\ pc' = "collect"
  /\ wait' = [d \in Devices |-> IF d \in round THEN Delay(fails[d]) ELSE wait[d]]
  /\ round' = {}
  /\ UNCHANGED <<cancelled, gen, phase, connected, attempts, due, fails,
                 groupVars, deviceVars, alarmVars>>

-----------------------------------------------------------------------------
\* The deferred calls: no telemetry and no alarm, whatever was said last.
LinkExit ==
  /\ pc = "exit"
  /\ pc' = "done"
  /\ connected' = FALSE
  /\ phase' = "stopped"
  /\ UNCHANGED <<cancelled, gen, attempts, pollVars, deviceVars, alarmVars>>

\* A reload starts the next worker of the link, with a cache, device states
\* and an alarm tracker of its own.
LinkRestart ==
  /\ pc = "done"
  /\ gen < Restarts
  /\ gen' = gen + 1
  /\ pc' = "top"
  /\ cancelled' = FALSE
  /\ phase' = ""
  /\ attempts' = 0
  /\ wait' = [d \in Devices |-> 0]
  /\ fails' = [d \in Devices |-> 0]
  /\ cache' = [d \in Devices |-> "unset"]
  /\ active' = FALSE
  /\ raised' = 0
  /\ UNCHANGED <<connected, due, round, groupVars, said, unpaired>>

-----------------------------------------------------------------------------
LinkPoll ==
  \/ GroupOk \/ GroupFailed
  \/ PollOk \/ PollCut \/ PollFailed \/ PollBroken \/ Reschedule

LinkStep ==
  \/ LinkTop \/ LinkOpenFailed \/ LinkOpened \/ LinkRetry
  \/ LinkInterrupted \/ LinkTick \/ LinkDone \/ LinkPoll \/ LinkExit

Next ==
  \/ LinkStep \/ LinkProbeOk \/ LinkProbeFailed \/ LinkHeartbeat
  \/ LinkCancel \/ LinkRestart

\* The goroutine runs: dials and requests have deadlines, timers fire; nobody
\* promises that a dial or a probe ever succeeds.  Go's select takes a ready
\* case at random, so a context that stays done is seen.
Fairness ==
  /\ WF_vars(LinkStep)
  /\ SF_vars(LinkInterrupted)
  /\ SF_vars(LinkDone)

Spec == Init /\ [][Next]_vars

FairSpec == Spec /\ Fairness

-----------------------------------------------------------------------------
\* Properties.

TypeOK ==
  /\ pc \in {"top", "dial", "wait", "probe", "collect", "poll", "exit", "done"}
  /\ cancelled \in BOOLEAN
  /\ gen \in 0 .. Restarts
  /\ phase \in {"", "connecting", "online", "reconnecting", "fatal", "stopped"}
  /\ connected \in BOOLEAN
  /\ attempts \in 0 .. CountCap
  /\ gi \in Nat
  /\ firstErr \in BOOLEAN
  /\ answered \subseteq 1 .. gi
  /\ due \in Seq(Devices)
  /\ round \subseteq Devices
  /\ wait \in [Devices -> 0 .. Max({BaseDelay, MaxDelay})]
  /\ fails \in [Devices -> 0 .. CountCap]
  /\ cache \in [Devices -> {"unset", "0", "1"}]
  /\ said \in [Devices -> {"none", "on", "off"}]
  /\ active \in BOOLEAN
  /\ raised \in Int
  /\ unpaired \in Int

\* The alarm of a link (event.go, linkTracker): one worker never raises it
\* twice and never clears what it has not raised, and a worker that polls has
\* nothing raised, whichever way - a retry or a slow probe - it got there.
AlarmPaired ==
  /\ raised \in {0, 1}
  /\ pc \in {"collect", "poll"} => raised = 0

\* While the link is down, the cached online property of every device and the
\* last telemetry about it say offline, also of the devices this round had
\* found well (run, both calls of markAllOffline).
DownIsOffline ==
  pc \in {"wait", "probe"} =>
    \A d \in Devices : cache[d] = "0" /\ said[d] = "off"

\* A device that fails is not polled again sooner than one that answers
\* (collectLoop: failures back off, so that a bad device does not fill the
\* bus).  True as long as the poll interval is not beyond the ceiling.
FailingNotFaster ==
  [][\A d \in Devices :
       wait'[d] > wait[d] /\ fails[d] > 0 => wait'[d] >= BaseDelay]_vars

\* A cancelled worker ends from wherever it is, which Engine.Stop relies on.
CancelEnds == cancelled ~> pc = "done" \/ ~cancelled

\* A bad device does not keep the others from being polled: every device has
\* its turn at the head of a round, or the link goes down (collectLoop).
EveryDeviceGetsTurn ==
  \A d \in Devices :
    pc = "collect" ~>
      (pc # "collect" /\ pc # "poll") \/ (due # << >> /\ Head(due) = d)

\* docs/powerpulse-alarm-standard.md 5.2: every trigger is paired with a later
\* recover of the same link.  A reload while the alarm is raised forgets it.
TriggerPaired == pc = "collect" => unpaired = 0

\* pollDevice: a group that fails does not keep the others of its device from
\* being requested, and a good answer to one does not hide the failure of
\* another - on a worker that is not being stopped, whose link holds.
PollWhole ==
  [][pc = "poll" /\ due # << >> /\ due' # due /\ pc' # "wait" /\ ~cancelled =>
       LET d == Head(due)
       IN gi = Groups[d] /\ (said'[d] = "on" <=> answered = 1 .. Groups[d])]_vars

\* README, online state: 1 if the exchange with the device is good.  The code
\* does not keep this: a device without groups is online although nothing was
\* asked, and a poll that is cut short by a stop counts as a good one.
OnlineMeansAnswered ==
  [][\A d \in Devices :
       said'[d] = "on" /\ said[d] # "on" =>
         answered # {} /\ answered = 1 .. Groups[d]]_vars
=============================================================================

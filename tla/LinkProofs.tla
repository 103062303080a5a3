----------------------------- MODULE LinkProofs -----------------------------
(***************************************************************************)
(* The alarm of a link, what is said about its devices while it is down,   *)
(* and the schedule of the polls, for any devices, any delays and any      *)
(* number of reloads.                                                      *)
(***************************************************************************)
EXTENDS Link, FiniteSetTheorems, TLAPS

\* The tracker and its history agree: what is raised is what is active.  A
\* worker that polls came through LinkOpened, which cleared the tracker.
TrackerInv ==
  /\ active \in BOOLEAN
  /\ raised = IF active THEN 1 ELSE 0
  /\ pc \in {"collect", "poll"} => ~active

\* What is said of a device is kept per device.
SaidTypes == said \in [Devices -> {"none", "on", "off"}]

\* The groups of the poll under way: firstErr is set as soon as one of those
\* that were requested was not answered.
GroupInv ==
  /\ gi \in Nat /\ answered \in SUBSET (1 .. gi)
  /\ firstErr \in BOOLEAN /\ (firstErr <=> answered # 1 .. gi)
  /\ pc = "poll" /\ due # << >> => gi <= Groups[Head(due)]
  /\ pc # "poll" \/ due = << >> => gi = 0

\* The control of the worker.
LinkTypes ==
  /\ pc \in {"top", "dial", "wait", "probe", "collect", "poll", "exit", "done"}
  /\ cancelled \in BOOLEAN
  /\ gen \in 0 .. Restarts
  /\ phase \in {"", "connecting", "online", "reconnecting", "fatal", "stopped"}
  /\ connected \in BOOLEAN
  /\ attempts \in 0 .. CountCap

\* The schedule.
PollTypes ==
  /\ due \in Seq(Devices)
  /\ round \subseteq Devices
  /\ wait \in [Devices -> 0 .. Max({BaseDelay, MaxDelay})]
  /\ fails \in [Devices -> 0 .. CountCap]

\* The online property and the history of the alarm.
CacheTypes ==
  /\ cache \in [Devices -> {"unset", "0", "1"}]
  /\ unpaired \in Int

IInv ==
  /\ TrackerInv /\ DownIsOffline /\ SaidTypes /\ GroupInv
  /\ LinkTypes /\ PollTypes /\ CacheTypes

-----------------------------------------------------------------------------
\* Polling sends no alarm of a link and starts only where nothing is raised.
LEMMA TrackerPoll ==
  ASSUME TrackerInv, LinkPoll
  PROVE  TrackerInv'
  <1>1. UNCHANGED <<active, raised>>
    BY DEF LinkPoll, GroupOk, GroupFailed, GroupsLeft, PollOk, PollCut, PollFailed, PollBroken, Reschedule, alarmVars
  <1>2. pc = "poll"
    BY DEF LinkPoll, GroupOk, GroupFailed, GroupsLeft, PollOk, PollCut, PollFailed, PollBroken, Reschedule
  <1> QED
    BY <1>1, <1>2 DEF TrackerInv

\* Every step keeps the tracker and its history in agreement.
LEMMA TrackerStep == TrackerInv /\ [Next]_vars => TrackerInv'
  <1> SUFFICES ASSUME TrackerInv, [Next]_vars PROVE TrackerInv'
    OBVIOUS
  <1> USE DEF TrackerInv
  <1>1. CASE LinkTop
    BY <1>1 DEF LinkTop, alarmVars
  <1>2. CASE LinkOpenFailed
    <2>1. TrackDisconnect /\ pc' \in {"probe", "wait"}
      BY <1>2 DEF LinkOpenFailed
    <2> QED
      BY <2>1 DEF TrackDisconnect
  <1>3. CASE LinkOpened
    <2>1. /\ active' = FALSE
          /\ raised' = IF active THEN raised - 1 ELSE raised
      BY <1>3 DEF LinkOpened, TrackRecover
    <2>2. raised' = 0
      BY <2>1
    <2> QED
      BY <2>1, <2>2
  <1>4. CASE LinkRetry
    BY <1>4 DEF LinkRetry, alarmVars
  <1>5. CASE LinkInterrupted
    BY <1>5 DEF LinkInterrupted, alarmVars
  <1>6. CASE LinkTick
    <2>1. pc = "collect" /\ UNCHANGED <<active, raised>>
      BY <1>6 DEF LinkTick, alarmVars
    <2> QED
      BY <2>1
  <1>7. CASE LinkDone
    BY <1>7 DEF LinkDone, alarmVars
  <1>8. CASE LinkPoll
    BY <1>8, TrackerPoll
  <1>9. CASE LinkExit
    BY <1>9 DEF LinkExit, alarmVars
  <1>10. CASE LinkProbeOk
    BY <1>10 DEF LinkProbeOk, alarmVars
  <1>11. CASE LinkProbeFailed
    BY <1>11 DEF LinkProbeFailed, alarmVars
  <1>12. CASE LinkHeartbeat
    BY <1>12 DEF LinkHeartbeat, linkVars, alarmVars
  <1>13. CASE LinkCancel
    BY <1>13 DEF LinkCancel, alarmVars
  <1>14. CASE LinkRestart
    BY <1>14 DEF LinkRestart
  <1>15. CASE UNCHANGED vars
    BY <1>15 DEF vars, linkVars, alarmVars
  <1> QED
    BY <1>1, <1>2, <1>3, <1>4, <1>5, <1>6, <1>7, <1>8, <1>9, <1>10, <1>11,
       <1>12, <1>13, <1>14, <1>15 DEF Next, LinkStep

-----------------------------------------------------------------------------
\* A poll that loses the connection has first said of every device, the ones
\* this round had found well included, that it is offline.
LEMMA OfflinePoll ==
  ASSUME LinkPoll
  PROVE  DownIsOffline'
  <1>1. CASE PollBroken
    BY <1>1 DEF PollBroken, MarkAllOffline, SayOffline, DownIsOffline
  <1>2. CASE GroupOk \/ GroupFailed \/ PollOk \/ PollCut \/ PollFailed \/ Reschedule
    <2>1. pc' \notin {"wait", "probe"}
      BY <1>2 DEF linkVars, GroupOk, GroupFailed, GroupsLeft, PollOk, PollCut, PollFailed, Reschedule, NextDevice
    <2> QED
      BY <2>1 DEF DownIsOffline
  <1> QED
    BY <1>1, <1>2 DEF LinkPoll

\* Every step keeps the devices of a link that is down announced as offline.
LEMMA OfflineStep == DownIsOffline /\ [Next]_vars => DownIsOffline'
  <1> SUFFICES ASSUME DownIsOffline, [Next]_vars PROVE DownIsOffline'
    OBVIOUS
  <1>1. CASE LinkTop \/ LinkOpened \/ LinkRetry \/ LinkInterrupted \/ LinkDone
             \/ LinkExit \/ LinkProbeOk \/ LinkRestart
    <2>1. pc' \notin {"wait", "probe"}
      BY <1>1 DEF LinkTop, LinkOpened, LinkRetry, LinkInterrupted, LinkDone,
                  LinkExit, LinkProbeOk, LinkRestart
    <2> QED
      BY <2>1 DEF DownIsOffline
  <1>2. CASE LinkOpenFailed
    BY <1>2 DEF LinkOpenFailed, MarkAllOffline, SayOffline, DownIsOffline
  <1>3. CASE LinkTick
    <2>1. pc' \notin {"wait", "probe"}
      BY <1>3 DEF LinkTick
    <2> QED
      BY <2>1 DEF DownIsOffline
  <1>4. CASE LinkPoll
    BY <1>4, OfflinePoll
  <1>5. CASE LinkProbeFailed
    BY <1>5 DEF LinkProbeFailed, deviceVars, DownIsOffline
  <1>6. CASE LinkHeartbeat
    BY <1>6 DEF LinkHeartbeat, SayOffline, DownIsOffline
  <1>7. CASE LinkCancel
    BY <1>7 DEF LinkCancel, deviceVars, DownIsOffline
  <1>8. CASE UNCHANGED vars
    BY <1>8 DEF vars, linkVars, deviceVars, DownIsOffline
  <1> QED
    BY <1>1, <1>2, <1>3, <1>4, <1>5, <1>6, <1>7, <1>8 DEF Next, LinkStep

-----------------------------------------------------------------------------
\* What is said of a device is said by telemetry, or not changed.
LEMMA SaidStep ==
  ASSUME SaidTypes, [Next]_vars
  PROVE  SaidTypes'
  <1>1. \/ said' = said
        \/ \E d : said' = [said EXCEPT ![d] = "on"]
        \/ \E D : said' = [d \in Devices |-> IF d \in D THEN "off" ELSE said[d]]
    BY DEF Next, LinkStep, LinkPoll, LinkTop, LinkOpenFailed, LinkOpened, LinkRetry,
           LinkInterrupted, LinkTick, LinkDone, LinkExit, LinkProbeOk, LinkProbeFailed,
           LinkHeartbeat, LinkCancel, LinkRestart, GroupOk, GroupFailed, PollOk, PollCut,
           PollFailed, PollBroken, Reschedule, DeviceOnline, SayOffline, vars, deviceVars
  <1> QED
    BY <1>1 DEF SaidTypes

\* No group is under way at the start.
LEMMA GroupInit == Init => GroupInv
  <1> SUFFICES ASSUME Init PROVE GroupInv
    OBVIOUS
  <1>1. gi = 0 /\ answered = {} /\ firstErr = FALSE /\ pc = "top"
    BY DEF Init
  <1>2. 1 .. 0 = {}
    OBVIOUS
  <1> QED
    BY <1>1, <1>2 DEF GroupInv

\* Where the groups are put back nothing has been requested.
LEMMA GroupReset ==
  ASSUME gi' = 0, firstErr' = FALSE, answered' = {},
         due' \in Seq(Devices)
  PROVE  GroupInv'
  <1>1. 1 .. 0 = {}
    OBVIOUS
  <1>2. due' # << >> => Groups[Head(due')] \in Nat
    <2>1. due' # << >> => Head(due') \in Devices
      OBVIOUS
    <2> QED
      BY <2>1, LinkAssumption
  <1>3. gi' \in Nat /\ answered' \in SUBSET (1 .. gi') /\ answered' = 1 .. gi' /\ ~firstErr'
    BY <1>1
  <1>4. due' # << >> => gi' <= Groups[Head(due')]
    BY <1>2
  <1> QED
    BY <1>3, <1>4 DEF GroupInv

\* A poll counts its groups one by one.
LEMMA GroupPoll ==
  ASSUME GroupInv, due \in Seq(Devices), due' \in Seq(Devices), LinkPoll
  PROVE  GroupInv'
  <1>1. CASE GroupOk \/ GroupFailed
    <2>1. /\ gi' = gi + 1 /\ gi < Groups[Head(due)] /\ pc = "poll" /\ due # << >>
          /\ pc' = pc /\ due' = due
      BY <1>1 DEF GroupOk, GroupFailed, GroupsLeft, linkVars
    <2>2. Groups[Head(due)] \in Nat /\ gi \in Nat
      <3>1. Head(due) \in Devices
        BY <2>1
      <3> QED
        BY <3>1, LinkAssumption DEF GroupInv
    <2>3. 1 .. gi + 1 = (1 .. gi) \cup {gi + 1} /\ gi + 1 \notin 1 .. gi
      BY <2>2
    <2>4. gi' \in Nat /\ gi' <= Groups[Head(due)]
      BY <2>1, <2>2
    <2>5. CASE GroupOk
      <3>1. answered' = answered \cup {gi + 1} /\ firstErr' = firstErr
        BY <2>1, <2>5 DEF GroupOk
      <3>2. answered' \in SUBSET (1 .. gi + 1) /\ (answered' # 1 .. gi + 1 <=> answered # 1 .. gi)
        BY <2>3, <3>1 DEF GroupInv
      <3> QED
        BY <2>1, <2>4, <3>1, <3>2 DEF GroupInv
    <2>6. CASE GroupFailed
      <3>1. answered' = answered /\ firstErr' = TRUE
        BY <2>6 DEF GroupFailed
      <3>2. answered' \in SUBSET (1 .. gi + 1) /\ answered' # 1 .. gi + 1
        BY <2>3, <3>1 DEF GroupInv
      <3> QED
        BY <2>1, <2>4, <3>1, <3>2 DEF GroupInv
    <2> QED
      BY <1>1, <2>5, <2>6
  <1>2. CASE PollOk \/ PollCut \/ PollFailed \/ PollBroken
    <2>1. gi' = 0 /\ firstErr' = FALSE /\ answered' = {}
      BY <1>2 DEF PollOk, PollCut, PollFailed, PollBroken, NextDevice
    <2> QED
      BY <2>1, GroupReset
  <1>3. CASE Reschedule
    <2>1. UNCHANGED <<gi, firstErr, answered>> /\ due' = << >> /\ due = << >>
      BY <1>3 DEF Reschedule, groupVars
    <2> QED
      BY <2>1 DEF GroupInv
  <1> QED
    BY <1>1, <1>2, <1>3 DEF LinkPoll

\* Every step keeps firstErr in agreement with the groups that were answered.
LEMMA GroupStep ==
  ASSUME GroupInv, due \in Seq(Devices), due' \in Seq(Devices), [Next]_vars
  PROVE  GroupInv'
  <1>1. CASE LinkPoll
    BY <1>1, GroupPoll
  <1>2. CASE LinkTick
    <2>1. gi = 0 /\ UNCHANGED <<gi, firstErr, answered>>
      BY <1>2 DEF LinkTick, groupVars, GroupInv
    <2>2. 1 .. 0 = {}
      OBVIOUS
    <2> QED
      BY <2>1, <2>2, GroupReset DEF GroupInv
  <1>3. CASE LinkTop \/ LinkOpenFailed \/ LinkOpened \/ LinkRetry \/ LinkInterrupted \/ LinkDone
             \/ LinkExit \/ LinkProbeOk \/ LinkProbeFailed \/ LinkRestart
    <2>1. UNCHANGED <<gi, firstErr, answered>> /\ pc # "poll" /\ pc' # "poll"
      BY <1>3 DEF LinkTop, LinkOpenFailed, LinkOpened, LinkRetry, LinkInterrupted, LinkDone, LinkExit,
                  LinkProbeOk, LinkProbeFailed, LinkRestart, pollVars, groupVars
    <2> QED
      BY <2>1 DEF GroupInv
  <1>4. CASE LinkHeartbeat \/ LinkCancel \/ UNCHANGED vars
    <2>1. UNCHANGED <<gi, firstErr, answered, pc, due>>
      BY <1>4 DEF LinkHeartbeat, LinkCancel, vars, linkVars, pollVars, groupVars
    <2> QED
      BY <2>1 DEF GroupInv
  <1> QED
    BY <1>1, <1>2, <1>3, <1>4 DEF Next, LinkStep

-----------------------------------------------------------------------------
\* The smaller of two numbers.
LEMMA MinOfTwo ==
  ASSUME NEW a \in Int, NEW b \in Int
  PROVE  Min({a, b}) = IF a <= b THEN a ELSE b
  <1> DEFINE m == IF a <= b THEN a ELSE b
  <1>1. m \in {a, b} /\ \A y \in {a, b} : m <= y
    OBVIOUS
  <1>2. \A x \in {a, b} : (\A y \in {a, b} : x <= y) => x = m
    OBVIOUS
  <1> HIDE DEF m
  <1>3. Min({a, b}) = m
    BY <1>1, <1>2 DEF Min
  <1> QED
    BY <1>3 DEF m

\* The larger of two numbers.
LEMMA MaxOfTwo ==
  ASSUME NEW a \in Int, NEW b \in Int
  PROVE  Max({a, b}) = IF a >= b THEN a ELSE b
  <1> DEFINE m == IF a >= b THEN a ELSE b
  <1>1. m \in {a, b} /\ \A y \in {a, b} : m >= y
    OBVIOUS
  <1>2. \A x \in {a, b} : (\A y \in {a, b} : x >= y) => x = m
    OBVIOUS
  <1> HIDE DEF m
  <1>3. Max({a, b}) = m
    BY <1>1, <1>2 DEF Max
  <1> QED
    BY <1>3 DEF m

\* A power of two counts the subsets of a set, and the empty set is one.
LEMMA PowerPositive == \A n \in Nat : 2^n \in Nat \ {0}
  <1> SUFFICES ASSUME NEW n \in Nat PROVE 2^n \in Nat \ {0}
    OBVIOUS
  <1>1. IsFiniteSet(1 .. n) /\ Cardinality(1 .. n) = n
    BY FS_Interval
  <1> DEFINE all == SUBSET (1 .. n)
  <1>2. IsFiniteSet(all) /\ Cardinality(all) = 2^n
    BY <1>1, FS_SUBSET
  <1>3. all # {}
    OBVIOUS
  <1> HIDE DEF all
  <1>4. Cardinality(all) \in Nat /\ Cardinality(all) # 0
    BY <1>2, <1>3, FS_CardinalityType, FS_EmptySet
  <1> QED
    BY <1>2, <1>4

\* nextDelay stays within its bounds, and a failure never makes it shorter
\* than the poll interval unless the ceiling is lower than that.
LEMMA DelayBounds ==
  ASSUME NEW f \in Nat
  PROVE  /\ Delay(f) \in 0 .. Max({BaseDelay, MaxDelay})
         /\ BaseDelay <= MaxDelay => Delay(f) >= BaseDelay
  <1> DEFINE top == Max({BaseDelay, MaxDelay})
  <1>1. BaseDelay \in Nat \ {0} /\ MaxDelay \in Nat \ {0}
    BY LinkAssumption
  <1>2. top \in Nat /\ BaseDelay <= top /\ MaxDelay <= top
    BY <1>1, MaxOfTwo
  <1> HIDE DEF top
  <1> SUFFICES Delay(f) \in 0 .. top /\ (BaseDelay <= MaxDelay => Delay(f) >= BaseDelay)
    BY DEF top
  <1>3. CASE f = 0
    <2>1. Delay(f) = BaseDelay
      BY <1>3 DEF Delay
    <2> QED
      BY <1>1, <1>2, <2>1
  <1>4. CASE f # 0
    <2> DEFINE p == 2^(f - 1)
    <2>1. f - 1 \in Nat
      BY <1>4
    <2>2. p \in Nat \ {0}
      BY <2>1, PowerPositive
    <2> HIDE DEF p
    <2>3. BaseDelay * p \in Nat /\ BaseDelay * p >= BaseDelay
      BY <1>1, <2>2
    <2>4. Delay(f) = Min({MaxDelay, BaseDelay * p})
      BY <1>4 DEF Delay, p
    <2>5. Delay(f) = IF MaxDelay <= BaseDelay * p THEN MaxDelay ELSE BaseDelay * p
      BY <1>1, <2>3, <2>4, MinOfTwo
    <2> QED
      BY <1>1, <1>2, <2>3, <2>5
  <1> QED
    BY <1>3, <1>4

\* A counter that is counted up stays within its cap.
LEMMA BumpBounds ==
  ASSUME NEW n \in 0 .. CountCap
  PROVE  Bump(n) \in 0 .. CountCap
  <1>1. CountCap \in Nat
    BY LinkAssumption
  <1>2. Bump(n) = IF n + 1 <= CountCap THEN n + 1 ELSE CountCap
    BY <1>1, MinOfTwo DEF Bump
  <1> QED
    BY <1>1, <1>2

\* Orders of a set of devices are sequences of devices.
LEMMA OrderTypes ==
  ASSUME NEW D \in SUBSET Devices
  PROVE  SetToSeqs(D) \subseteq Seq(Devices)
  <1>1. IsFiniteSet(D)
    BY LinkAssumption, FS_Subset
  <1>2. Cardinality(D) \in Nat
    BY <1>1, FS_CardinalityType
  <1>3. \A s \in SetToSeqs(D) : s \in [1 .. Cardinality(D) -> D]
    BY DEF SetToSeqs
  <1>4. \A s \in [1 .. Cardinality(D) -> D] : s \in Seq(Devices)
    BY <1>2
  <1> QED
    BY <1>3, <1>4

-----------------------------------------------------------------------------
\* A poll leaves collectLoop at most for waitReconnect or the exit.
LEMMA LinkTypesPoll ==
  ASSUME LinkTypes, LinkPoll
  PROVE  LinkTypes'
  <1>1. UNCHANGED <<cancelled, gen, attempts>>
    BY DEF linkVars, LinkPoll, GroupOk, GroupFailed, GroupsLeft, PollOk, PollCut, PollFailed, PollBroken, Reschedule
  <1>2. connected' \in BOOLEAN
    BY DEF linkVars, LinkTypes, LinkPoll, GroupOk, GroupFailed, GroupsLeft, PollOk, PollCut, PollFailed, PollBroken, Reschedule, DeviceOnline
  <1>3. phase' \in {phase, "reconnecting"} /\ pc' \in {pc, "exit", "wait", "collect"}
    BY DEF linkVars, LinkPoll, GroupOk, GroupFailed, GroupsLeft, PollOk, PollCut, PollFailed, PollBroken,
           Reschedule, NextDevice
  <1> QED
    BY <1>1, <1>2, <1>3 DEF LinkTypes

\* Every step keeps the control of the worker within its types.
LEMMA LinkTypesStep ==
  ASSUME LinkTypes, [Next]_vars
  PROVE  LinkTypes'
  <1>1. /\ CountCap \in Nat /\ Restarts \in Nat
        /\ gen \in 0 .. Restarts /\ attempts \in 0 .. CountCap
    <2>1. CountCap \in Nat /\ Restarts \in Nat
      BY LinkAssumption
    <2> QED
      BY <2>1 DEF LinkTypes
  <1>7. CASE LinkPoll
    BY <1>7, LinkTypesPoll
  <1>2. CASE LinkOpenFailed
    <2>1. attempts' \in 0 .. CountCap
      BY <1>2, BumpBounds DEF LinkTypes, LinkOpenFailed
    <2> QED
      BY <1>2, <2>1 DEF LinkTypes, LinkOpenFailed
  <1>3. CASE LinkRestart
    <2>1. gen' = gen + 1 /\ gen < Restarts /\ attempts' = 0
      BY <1>3 DEF LinkRestart
    <2>3. gen' \in 0 .. Restarts /\ attempts' \in 0 .. CountCap
      BY <1>1, <2>1
    <2>2. pc' = "top" /\ phase' = "" /\ cancelled' = FALSE /\ connected' = connected
      BY <1>3 DEF LinkRestart
    <2> QED
      BY <2>2, <2>3 DEF LinkTypes
  <1>4. CASE LinkTop \/ LinkOpened \/ LinkRetry \/ LinkInterrupted \/ LinkDone
               \/ LinkExit \/ LinkProbeOk \/ LinkProbeFailed \/ LinkCancel
    <2>1. gen' = gen /\ attempts' \in {attempts, 0}
      BY <1>4
         DEF LinkTop, LinkOpened, LinkRetry, LinkInterrupted, LinkDone,
             LinkExit, LinkProbeOk, LinkProbeFailed, LinkCancel
    <2>2. /\ pc' \in {pc, "top", "dial", "collect", "exit", "done"}
          /\ phase' \in {phase, "connecting", "online", "stopped"}
      BY <1>4
         DEF LinkTop, LinkOpened, LinkRetry, LinkInterrupted, LinkDone,
             LinkExit, LinkProbeOk, LinkProbeFailed, LinkCancel
    <2>3. cancelled' \in {cancelled, TRUE} /\ connected' \in {connected, TRUE, FALSE}
      BY <1>4
         DEF LinkTop, LinkOpened, LinkRetry, LinkInterrupted, LinkDone,
             LinkExit, LinkProbeOk, LinkProbeFailed, LinkCancel
    <2>4. gen' \in 0 .. Restarts /\ attempts' \in 0 .. CountCap
      BY <1>1, <2>1
    <2> QED
      BY <2>2, <2>3, <2>4 DEF LinkTypes
  <1>5. CASE LinkTick
    <2>1. pc' \in {"collect", "poll"} /\ UNCHANGED <<cancelled, gen, phase, connected, attempts>>
      BY <1>5 DEF LinkTick
    <2> QED
      BY <2>1 DEF LinkTypes
  <1>6. CASE LinkHeartbeat \/ UNCHANGED vars
    BY <1>6 DEF LinkTypes, LinkHeartbeat, vars, linkVars
  <1> QED
    BY <1>2, <1>3, <1>4, <1>5, <1>6, <1>7 DEF Next, LinkStep

-----------------------------------------------------------------------------
\* A device is put off only at the end of a round, by its delay.
PutOff ==
  \A d \in Devices : wait'[d] > wait[d] => wait'[d] = Delay(fails[d])

\* Ticks only bring the devices nearer to their turn.
LEMMA TickTypes ==
  ASSUME PollTypes, LinkTick
  PROVE  PollTypes' /\ PutOff
  <1> DEFINE top == Max({BaseDelay, MaxDelay})
  <1>1. PICK k \in 1 .. MaxDelay :
          LET left == [d \in Devices |-> wait[d] - k]
              now  == {d \in Devices : left[d] <= 0}
          IN /\ wait' = [d \in Devices |-> Max({left[d], 0})]
             /\ round' = now
             /\ due' \in SetToSeqs(now)
    BY DEF LinkTick
  <1>2. top \in Nat
    BY LinkAssumption, MaxOfTwo
  <1> HIDE DEF top
  <1>3. \A d \in Devices : wait[d] \in 0 .. top
    BY DEF PollTypes, top
  <1>4. \A d \in Devices : Max({wait[d] - k, 0}) = IF wait[d] - k >= 0 THEN wait[d] - k ELSE 0
    BY <1>2, <1>3, LinkAssumption, MaxOfTwo
  <1>5. wait' = [d \in Devices |-> IF wait[d] - k >= 0 THEN wait[d] - k ELSE 0]
    BY <1>1, <1>4
  <1>6. \A d \in Devices : wait'[d] \in 0 .. top /\ wait'[d] <= wait[d]
    BY <1>2, <1>3, <1>5, LinkAssumption
  <1>7. round' \subseteq Devices /\ due' \in SetToSeqs(round')
    BY <1>1
  <1>8. due' \in Seq(Devices)
    BY <1>7, OrderTypes
  <1>9. fails' = fails
    BY DEF LinkTick
  <1>10. PutOff
    BY <1>2, <1>3, <1>6 DEF PutOff
  <1> QED
    BY <1>2, <1>3, <1>5, <1>6, <1>7, <1>8, <1>9, <1>10 DEF PollTypes, top

\* Polls take devices off the round; its end puts them off by their delay.
LEMMA PollTypesPoll ==
  ASSUME PollTypes, LinkPoll
  PROVE  PollTypes' /\ PutOff
  <1> DEFINE top == Max({BaseDelay, MaxDelay})
  <1>1. top \in Nat /\ CountCap \in Nat
    BY LinkAssumption, MaxOfTwo
  <1> HIDE DEF top
  <1>2. wait \in [Devices -> 0 .. top] /\ fails \in [Devices -> 0 .. CountCap]
    BY DEF PollTypes, top
  <1>3. \A n \in 0 .. CountCap : Bump(n) \in 0 .. CountCap
    BY BumpBounds
  <1>4. CASE PollOk \/ PollCut \/ PollFailed \/ PollBroken
    <2>1. wait' = wait /\ round' = round
      BY <1>4 DEF GroupOk, GroupFailed, GroupsLeft, PollOk, PollCut, PollFailed, PollBroken
    <2>2. due' \in {Tail(due), << >>} /\ due # << >>
      BY <1>4 DEF GroupOk, GroupFailed, GroupsLeft, PollOk, PollCut, PollFailed, PollBroken, NextDevice
    <2>3. due' \in Seq(Devices)
      <3>1. due \in Seq(Devices) /\ << >> \in Seq(Devices)
        BY DEF PollTypes
      <3>2. Tail(due) \in Seq(Devices)
        BY <2>2, <3>1
      <3> QED
        BY <2>2, <3>1, <3>2
    <2>4. \E d : fails' \in {[fails EXCEPT ![d] = 0], [fails EXCEPT ![d] = Bump(@)]}
      BY <1>4 DEF GroupOk, GroupFailed, GroupsLeft, PollOk, PollCut, PollFailed, PollBroken, DeviceOnline, DeviceOffline
    <2>5. fails' \in [Devices -> 0 .. CountCap]
      BY <1>1, <1>2, <1>3, <2>4
    <2>6. PutOff
      BY <1>1, <1>2, <2>1 DEF PutOff
    <2> QED
      BY <2>1, <2>3, <2>5, <2>6 DEF PollTypes
  <1>5. CASE GroupOk \/ GroupFailed
    <2>1. UNCHANGED <<due, round, wait, fails>>
      BY <1>5 DEF GroupOk, GroupFailed
    <2>2. PollTypes'
      BY <2>1 DEF PollTypes
    <2>3. PutOff
      BY <1>1, <1>2, <2>1 DEF PutOff
    <2> QED
      BY <2>2, <2>3
  <1>6. CASE Reschedule
    <2>1. /\ wait' = [d \in Devices |-> IF d \in round THEN Delay(fails[d]) ELSE wait[d]]
          /\ round' = {}
          /\ UNCHANGED <<due, fails>>
      BY <1>6 DEF Reschedule
    <2>2. \A d \in Devices : Delay(fails[d]) \in 0 .. top
      <3>1. \A d \in Devices : fails[d] \in Nat
        BY <1>1, <1>2
      <3> QED
        BY <3>1, DelayBounds DEF top
    <2>3. wait' \in [Devices -> 0 .. top]
      BY <1>2, <2>1, <2>2
    <2>4. PutOff
      BY <1>1, <1>2, <2>1 DEF PutOff
    <2> QED
      BY <2>1, <2>3, <2>4 DEF PollTypes, top
  <1> QED
    BY <1>4, <1>5, <1>6 DEF LinkPoll

\* Every step keeps the schedule within its types and puts no device off
\* but by its delay.
LEMMA PollTypesStep ==
  ASSUME PollTypes, [Next]_vars
  PROVE  PollTypes' /\ PutOff
  <1>1. CASE LinkPoll
    BY <1>1, PollTypesPoll
  <1>2. CASE LinkTick
    BY <1>2, TickTypes
  <1> DEFINE top == Max({BaseDelay, MaxDelay})
  <1>3. top \in Nat /\ CountCap \in Nat
    BY LinkAssumption, MaxOfTwo
  <1> HIDE DEF top
  <1>4. CASE LinkOpened \/ LinkRestart
    <2>1. /\ wait' = [d \in Devices |-> 0]
          /\ fails' \in {fails, [d \in Devices |-> 0]}
          /\ UNCHANGED <<due, round>>
      BY <1>4 DEF LinkOpened, LinkRestart
    <2>2. wait' \in [Devices -> 0 .. top] /\ fails' \in [Devices -> 0 .. CountCap]
      BY <1>3, <2>1 DEF PollTypes
    <2>3. \A d \in Devices : wait[d] \in 0 .. top
      BY DEF PollTypes, top
    <2>4. PutOff
      BY <1>3, <2>1, <2>3 DEF PutOff
    <2> QED
      BY <2>1, <2>2, <2>4 DEF PollTypes, top
  <1>5. CASE LinkTop \/ LinkOpenFailed \/ LinkRetry \/ LinkInterrupted \/ LinkDone
               \/ LinkExit \/ LinkProbeOk \/ LinkProbeFailed \/ LinkCancel
               \/ LinkHeartbeat \/ UNCHANGED vars
    <2>1. UNCHANGED <<due, round, wait, fails>>
      BY <1>5 DEF LinkTop, LinkOpenFailed, LinkRetry, LinkInterrupted, LinkDone,
                  LinkExit, LinkProbeOk, LinkProbeFailed, LinkCancel, LinkHeartbeat,
                  vars, pollVars
    <2>2. PollTypes'
      BY <2>1 DEF PollTypes
    <2>3. \A d \in Devices : wait[d] \in 0 .. top
      BY DEF PollTypes, top
    <2>4. PutOff
      BY <1>3, <2>1, <2>3 DEF PutOff
    <2> QED
      BY <2>2, <2>4
  <1> QED
    BY <1>1, <1>2, <1>4, <1>5 DEF Next, LinkStep

-----------------------------------------------------------------------------
\* Every step keeps the cache and the history of the alarm within their types.
LEMMA CacheTypesStep ==
  ASSUME CacheTypes, [Next]_vars
  PROVE  CacheTypes'
  <1>1. \/ cache' = cache
        \/ cache' \in {[d \in Devices |-> "0"], [d \in Devices |-> "unset"]}
        \/ \E d : cache' \in {[cache EXCEPT ![d] = "0"], [cache EXCEPT ![d] = "1"]}
    BY DEF Next, LinkStep, LinkPoll, LinkTop, LinkOpenFailed, LinkOpened, LinkRetry,
           LinkInterrupted, LinkTick, LinkDone, LinkExit, LinkProbeOk, LinkProbeFailed,
           LinkHeartbeat, LinkCancel, LinkRestart, GroupOk, GroupFailed, GroupsLeft, PollOk, PollCut, PollFailed, PollBroken,
           Reschedule, DeviceOnline, MarkAllOffline, vars, deviceVars
  <1>2. unpaired' \in {unpaired, unpaired + 1, unpaired - 1}
    BY DEF Next, LinkStep, LinkPoll, LinkTop, LinkOpenFailed, LinkOpened, LinkRetry,
           LinkInterrupted, LinkTick, LinkDone, LinkExit, LinkProbeOk, LinkProbeFailed,
           LinkHeartbeat, LinkCancel, LinkRestart, GroupOk, GroupFailed, GroupsLeft, PollOk, PollCut, PollFailed, PollBroken,
           Reschedule, TrackDisconnect, TrackRecover, vars, alarmVars
  <1> QED
    BY <1>1, <1>2 DEF CacheTypes

-----------------------------------------------------------------------------
\* Nothing is scheduled, counted or cached at the start.
LEMMA InitTypes == Init => LinkTypes /\ PollTypes /\ CacheTypes
  <1> SUFFICES ASSUME Init PROVE LinkTypes /\ PollTypes /\ CacheTypes
    OBVIOUS
  <1> DEFINE top == Max({BaseDelay, MaxDelay})
  <1>1. CountCap \in Nat /\ Restarts \in Nat /\ top \in Nat
    BY LinkAssumption, MaxOfTwo
  <1> HIDE DEF top
  <1>2. pc = "top" /\ phase = "" /\ cancelled = FALSE /\ connected = FALSE
    BY DEF Init
  <1>3. LinkTypes
    <2>1. gen = 0 /\ attempts = 0
      BY DEF Init
    <2>2. gen \in 0 .. Restarts /\ attempts \in 0 .. CountCap
      BY <1>1, <2>1
    <2> QED
      BY <1>2, <2>2, Zenon DEF LinkTypes
  <1>4. /\ due = << >> /\ round = {}
        /\ wait = [d \in Devices |-> 0] /\ fails = [d \in Devices |-> 0]
    BY DEF Init
  <1>5. /\ due \in Seq(Devices) /\ round \subseteq Devices
        /\ wait \in [Devices -> 0 .. top] /\ fails \in [Devices -> 0 .. CountCap]
    BY <1>1, <1>4
  <1>6. cache = [d \in Devices |-> "unset"] /\ unpaired = 0
    BY DEF Init
  <1>7. CacheTypes
    BY <1>6 DEF CacheTypes
  <1> QED
    BY <1>3, <1>5, <1>7 DEF PollTypes, top

\* Init sets the tracker aside and the worker at the top of run.
LEMMA InitInv == Init => IInv
  BY InitTypes, GroupInit DEF Init, IInv, TrackerInv, DownIsOffline, SaidTypes

\* Every reachable state satisfies the invariant.
THEOREM Invariance == Spec => []IInv
  <1>1. IInv /\ [Next]_vars => IInv'
    <2> SUFFICES ASSUME IInv, [Next]_vars PROVE IInv'
      OBVIOUS
    <2>1. PollTypes'
      BY PollTypesStep DEF IInv
    <2>2. GroupInv'
      BY <2>1, GroupStep DEF IInv, PollTypes
    <2> QED
      BY <2>1, <2>2, TrackerStep, OfflineStep, SaidStep, LinkTypesStep, CacheTypesStep DEF IInv
  <1> QED
    BY InitInv, <1>1, PTL DEF Spec

\* Every variable keeps its type: the schedule stays within the ceiling, the
\* counters within their caps, and a round holds devices of the plan only.
THEOREM TypeCorrect == Spec => []TypeOK
  <1>1. IInv => TypeOK
    <2> SUFFICES ASSUME IInv PROVE TypeOK
      OBVIOUS
    <2>1. active \in BOOLEAN /\ raised \in Int /\ unpaired \in Int
      BY DEF IInv, TrackerInv, CacheTypes
    <2>2. cache \in [Devices -> {"unset", "0", "1"}]
      BY DEF IInv, CacheTypes
    <2>3. gi \in Nat /\ firstErr \in BOOLEAN /\ answered \subseteq 1 .. gi
      BY DEF IInv, GroupInv
    <2> QED
      BY <2>1, <2>2, <2>3, Zenon DEF IInv, SaidTypes, LinkTypes, PollTypes, TypeOK
  <1> QED
    BY <1>1, Invariance, PTL

\* A worker never raises the alarm of its link twice nor clears what it has
\* not raised, and nothing is raised while it polls.
THEOREM AlarmPairs == Spec => []AlarmPaired
  <1>1. IInv => AlarmPaired
    BY DEF IInv, TrackerInv, AlarmPaired
  <1> QED
    BY <1>1, Invariance, PTL

\* While a link is down every device of it has been announced as offline.
THEOREM DownOffline == Spec => []DownIsOffline
  <1>1. IInv => DownIsOffline
    BY DEF IInv
  <1> QED
    BY <1>1, Invariance, PTL

\* Every group of a device is requested, whichever of them fail, and the device
\* is announced online exactly if all were answered - on a worker that is not
\* being stopped, whose link holds (worker.go, pollDevice).
THEOREM WholePoll == Spec => PollWhole
  <1> DEFINE A == pc = "poll" /\ due # << >> /\ due' # due /\ pc' # "wait" /\ ~cancelled =>
                    LET d == Head(due)
                    IN gi = Groups[d] /\ (said'[d] = "on" <=> answered = 1 .. Groups[d])
  <1>1. IInv /\ [Next]_vars => [A]_vars
    <2> SUFFICES ASSUME IInv, [Next]_vars,
                        pc = "poll", due # << >>, due' # due, pc' # "wait", ~cancelled
                 PROVE  /\ gi = Groups[Head(due)]
                        /\ said'[Head(due)] = "on" <=> answered = 1 .. Groups[Head(due)]
      OBVIOUS
    <2>1. PollOk \/ PollFailed
      BY DEF Next, LinkStep, LinkPoll, LinkTop, LinkOpenFailed, LinkOpened, LinkRetry,
             LinkInterrupted, LinkTick, LinkDone, LinkExit, LinkProbeOk, LinkProbeFailed,
             LinkHeartbeat, LinkCancel, LinkRestart, GroupOk, GroupFailed, PollCut,
             PollBroken, Reschedule, vars, pollVars
    <2>2. gi = Groups[Head(due)]
      BY <2>1 DEF PollOk, PollFailed
    <2>3. Head(due) \in Devices
      BY DEF IInv, PollTypes
    <2>4. firstErr <=> answered # 1 .. Groups[Head(due)]
      BY <2>2 DEF IInv, GroupInv
    <2>5. CASE PollOk
      <3>1. said'[Head(due)] = "on"
        BY <2>3, <2>5 DEF PollOk, DeviceOnline, IInv, SaidTypes
      <3> QED
        BY <2>2, <2>4, <2>5, <3>1 DEF PollOk
    <2>6. CASE PollFailed
      <3>1. said'[Head(due)] = "off"
        BY <2>3, <2>6 DEF PollFailed, SayOffline
      <3> QED
        BY <2>2, <2>4, <2>6, <3>1 DEF PollFailed
    <2> QED
      BY <2>1, <2>5, <2>6
  <1> QED
    BY <1>1, Invariance, PTL DEF Spec, PollWhole

\* A device that fails is not polled again sooner than one that answers, as
\* long as the poll interval is not beyond the ceiling of nextDelay.
THEOREM FailingBacksOff ==
  ASSUME BaseDelay <= MaxDelay
  PROVE  Spec => FailingNotFaster
  <1> DEFINE A == \A d \in Devices :
                    wait'[d] > wait[d] /\ fails[d] > 0 => wait'[d] >= BaseDelay
  <1>1. IInv /\ [Next]_vars => [A]_vars
    <2> SUFFICES ASSUME IInv, [Next]_vars, NEW d \in Devices,
                        wait'[d] > wait[d], fails[d] > 0
                 PROVE  wait'[d] >= BaseDelay
      OBVIOUS
    <2>1. wait'[d] = Delay(fails[d])
      BY PollTypesStep DEF IInv, PutOff
    <2>2. fails[d] \in Nat
      BY LinkAssumption DEF IInv, PollTypes
    <2> QED
      BY <2>1, <2>2, DelayBounds
  <1> QED
    BY <1>1, Invariance, PTL DEF Spec, FailingNotFaster
=============================================================================

-------------------------- MODULE CommMonitorProofs --------------------------
(***************************************************************************)
(* The ring and the counters of the monitor, and the page that follows     *)
(* them, for any number of devices, any capacity and page size and any     *)
(* number of events, sessions and reloads.                                 *)
(***************************************************************************)
EXTENDS CommMonitor, WellFoundedInduction, TLAPS

\* The types of what the monitor keeps; the page's part needs none here.
MonitorTypeOK ==
  /\ nextSeq \in Nat
  /\ events \in Seq(Event)
  /\ session \in [Devices -> Counters]
  /\ cumulative \in [Devices -> Counters]

IInv == MonitorTypeOK /\ RingIsTail /\ CountersAgree

-----------------------------------------------------------------------------
\* What appendLocked keeps of a sequence: its last events, in their order.
LEMMA NewestIsSuffix ==
  ASSUME NEW s \in Seq(Event)
  PROVE  /\ Newest(s) \in Seq(Event)
         /\ Len(Newest(s)) \in Nat
         /\ Len(Newest(s)) <= Len(s)
         /\ \A i \in 1 .. Len(Newest(s)) : Newest(s)[i] = s[Len(s) - Len(Newest(s)) + i]
  <1>1. CASE Len(s) <= Capacity
    BY <1>1 DEF Newest
  <1>2. CASE ~(Len(s) <= Capacity)
    <2>1. /\ Capacity \in Nat \ {0}
          /\ Newest(s) = SubSeq(s, Len(s) - Capacity + 1, Len(s))
      BY <1>2, MonitorAssumption DEF Newest
    <2>2. Len(s) - Capacity + 1 \in 1 .. Len(s) /\ Len(s) \in Nat
      BY <1>2, <2>1
    <2>3. Len(Newest(s)) = Capacity
      BY <2>1, <2>2
    <2> QED
      BY <1>2, <2>1, <2>2, <2>3
  <1> QED
    BY <1>1, <1>2

-----------------------------------------------------------------------------
\* What snapshot makes of the ring.  Its loop is a recursive function; what is
\* said of it for every n is shown by the least n for which it would fail.

\* A set of natural numbers that is not empty has a least one.
LEMMA Least ==
  ASSUME NEW T, T \subseteq Nat, T # {}
  PROVE  \E m \in T : \A n \in T : m <= n
  <1>1. IsWellFoundedOn(OpToRel(<, Nat), Nat)
    BY NatLessThanWellFounded
  <1>2. PICK m \in T : \A n \in T : ~(<<n, m>> \in OpToRel(<, Nat))
    BY <1>1, WFMin
  <1>3. ASSUME NEW n \in T PROVE m <= n
    <2>1. m \in Nat /\ n \in Nat
      BY <1>2
    <2>2. ~(n < m)
      BY <1>2, <2>1 DEF OpToRel
    <2> QED
      BY <2>1, <2>2
  <1> QED
    BY <1>2, <1>3

\* The loop over the first n events.
IsLoop(f, n, after) ==
  f = [k \in 0 .. n |-> IF k = 0 THEN << >>
                        ELSE IF Wanted(events[k], after) THEN Append(f[k - 1], events[k])
                        ELSE f[k - 1]]

\* There is a loop over any number of the events.
LEMMA LoopExists ==
  ASSUME NEW after
  PROVE  \A n \in Nat : \E f : IsLoop(f, n, after)
  <1> DEFINE T == {n \in Nat : ~\E f : IsLoop(f, n, after)}
  <1> SUFFICES ASSUME T # {} PROVE FALSE
    OBVIOUS
  <1>1. PICK m \in T : \A n \in T : m <= n
    BY Least
  <1>2. m \in Nat
    OBVIOUS
  <1>3. CASE m = 0
    <2>1. IsLoop([k \in 0 .. 0 |-> << >>], 0, after)
      BY DEF IsLoop
    <2> QED
      BY <1>3, <2>1
  <1>4. CASE m # 0
    <2>1. m - 1 \in Nat /\ m - 1 \notin T
      BY <1>1, <1>2, <1>4
    <2>2. PICK f : IsLoop(f, m - 1, after)
      BY <2>1
    <2> DEFINE next == IF Wanted(events[m], after) THEN Append(f[m - 1], events[m]) ELSE f[m - 1]
               g    == [k \in 0 .. m |-> IF k = m THEN next ELSE f[k]]
    <2>3. /\ \A k \in 0 .. m - 1 : g[k] = f[k]
          /\ g[m] = next /\ g[m - 1] = f[m - 1]
      BY <1>2, <2>1
    <2>4. ASSUME NEW k \in 0 .. m
          PROVE  g[k] = IF k = 0 THEN << >>
                        ELSE IF Wanted(events[k], after) THEN Append(g[k - 1], events[k])
                        ELSE g[k - 1]
      <3> HIDE DEF g
      <3>1. CASE k = m
        BY <1>4, <2>3, <3>1
      <3>2. CASE k # m
        <4>1. k \in 0 .. m - 1 /\ (k # 0 => k - 1 \in 0 .. m - 1)
          BY <1>2, <3>2
        <4>2. f[k] = IF k = 0 THEN << >>
                     ELSE IF Wanted(events[k], after) THEN Append(f[k - 1], events[k])
                     ELSE f[k - 1]
          BY <2>2, <4>1 DEF IsLoop
        <4> QED
          BY <2>3, <4>1, <4>2
      <3> QED
        BY <3>1, <3>2
    <2>5. IsLoop(g, m, after)
      BY <2>4 DEF IsLoop
    <2> QED
      BY <2>5
  <1> QED
    BY <1>3, <1>4

\* The answer before it is cut to its limit.
LEMMA FreshIsLoop ==
  ASSUME NEW after, events \in Seq(Event)
  PROVE  \E f : IsLoop(f, Len(events), after) /\ Fresh(after) = f[Len(events)]
  <1> DEFINE loop == CHOOSE f : IsLoop(f, Len(events), after)
  <1>1. IsLoop(loop, Len(events), after)
    BY LoopExists
  <1>2. Fresh(after) = loop[Len(events)]
    BY DEF Fresh, IsLoop
  <1> QED
    BY <1>1, <1>2

\* It holds every event that is wanted, and nothing else, in the order of the
\* ring.
LEMMA FreshHolds ==
  ASSUME NEW after, nextSeq \in Nat, events \in Seq(Event), RingIsTail
  PROVE  /\ Fresh(after) \in Seq(Event)
         /\ \A j \in 1 .. Len(Fresh(after)) :
              \E i \in 1 .. Len(events) : Fresh(after)[j] = events[i] /\ Wanted(events[i], after)
         /\ \A i \in 1 .. Len(events) :
              Wanted(events[i], after) => \E j \in 1 .. Len(Fresh(after)) : Fresh(after)[j] = events[i]
         /\ \A j, k \in 1 .. Len(Fresh(after)) : j < k => Fresh(after)[j].seq < Fresh(after)[k].seq
  <1> DEFINE L == Len(events)
  <1>0. L \in Nat /\ DOMAIN events = 1 .. L /\ \A i \in 1 .. L : events[i] \in Event
    OBVIOUS
  <1>1. PICK f : IsLoop(f, L, after) /\ Fresh(after) = f[L]
    BY FreshIsLoop
  <1> DEFINE Good(n) ==
        /\ f[n] \in Seq(Event)
        /\ \A j \in 1 .. Len(f[n]) : \E i \in 1 .. n : f[n][j] = events[i] /\ Wanted(events[i], after)
        /\ \A i \in 1 .. n : Wanted(events[i], after) => \E j \in 1 .. Len(f[n]) : f[n][j] = events[i]
        /\ \A j, k \in 1 .. Len(f[n]) : j < k => f[n][j].seq < f[n][k].seq
  <1>2. \A k \in 0 .. L : f[k] = IF k = 0 THEN << >>
                                 ELSE IF Wanted(events[k], after) THEN Append(f[k - 1], events[k])
                                 ELSE f[k - 1]
    <2> HIDE DEF L
    <2> QED
      BY <1>1 DEF IsLoop
  <1>3. Good(0)
    <2>1. f[0] = << >>
      BY <1>0, <1>2
    <2> QED
      BY <2>1
  <1>4. ASSUME NEW n \in 1 .. L, Good(n - 1) PROVE Good(n)
    <2>1. f[n] = IF Wanted(events[n], after) THEN Append(f[n - 1], events[n]) ELSE f[n - 1]
      <3>1. n \in 0 .. L /\ n # 0
        BY <1>0, <1>4
      <3> QED
        BY <1>2, <3>1
    <2>2. n \in Nat /\ events[n] \in Event /\ 1 .. n = 1 .. (n - 1) \cup {n}
      BY <1>0, <1>4
    <2> DEFINE s == f[n - 1]
    <2>3. /\ s \in Seq(Event) /\ Len(s) \in Nat
          /\ \A j \in 1 .. Len(s) : \E i \in 1 .. n - 1 : s[j] = events[i] /\ Wanted(events[i], after)
          /\ \A i \in 1 .. n - 1 : Wanted(events[i], after) => \E j \in 1 .. Len(s) : s[j] = events[i]
          /\ \A j, k \in 1 .. Len(s) : j < k => s[j].seq < s[k].seq
      BY <1>4
    <2>4. CASE ~Wanted(events[n], after)
      <3>1. f[n] = s
        BY <2>1, <2>4
      <3> HIDE DEF s
      <3> QED
        BY <2>2, <2>3, <2>4, <3>1
    <2>5. CASE Wanted(events[n], after)
      <3>1. f[n] = Append(s, events[n])
        BY <2>1, <2>5
      <3> HIDE DEF s
      <3>2. /\ f[n] \in Seq(Event) /\ Len(f[n]) = Len(s) + 1
            /\ \A j \in 1 .. Len(s) : f[n][j] = s[j]
            /\ f[n][Len(s) + 1] = events[n]
        BY <2>2, <2>3, <3>1
      <3>3. 1 .. Len(f[n]) = 1 .. Len(s) \cup {Len(s) + 1}
        BY <2>3, <3>2
      <3>4. \A j \in 1 .. Len(f[n]) : \E i \in 1 .. n : f[n][j] = events[i] /\ Wanted(events[i], after)
        <4> TAKE j \in 1 .. Len(f[n])
        <4>1. CASE j \in 1 .. Len(s)
          <5>1. PICK i \in 1 .. n - 1 : s[j] = events[i] /\ Wanted(events[i], after)
            BY <2>3, <4>1
          <5>2. i \in 1 .. n
            BY <2>2
          <5> QED
            BY <3>2, <4>1, <5>1, <5>2
        <4>2. CASE j = Len(s) + 1
          <5>1. n \in 1 .. n
            BY <2>2
          <5> QED
            BY <2>5, <3>2, <4>2, <5>1
        <4> QED
          BY <3>3, <4>1, <4>2
      <3>5. \A i \in 1 .. n : Wanted(events[i], after) => \E j \in 1 .. Len(f[n]) : f[n][j] = events[i]
        BY <2>2, <2>3, <3>2, <3>3
      <3>6. ASSUME NEW j \in 1 .. Len(s) PROVE s[j].seq < events[n].seq
        <4>1. PICK i \in 1 .. n - 1 : s[j] = events[i]
          BY <2>3
        <4>2. events[i].seq = nextSeq - L + i /\ events[n].seq = nextSeq - L + n
          <5>1. i \in DOMAIN events /\ n \in DOMAIN events
            BY <1>0, <1>4
          <5> QED
            BY <5>1 DEF RingIsTail
        <4>3. events[i].seq \in Nat /\ events[n].seq \in Nat
          BY <1>0, <1>4 DEF Event
        <4> QED
          BY <1>0, <1>4, <4>1, <4>2, <4>3
      <3>7. ASSUME NEW j \in 1 .. Len(f[n]), NEW k \in 1 .. Len(f[n]), j < k
            PROVE  f[n][j].seq < f[n][k].seq
        <4>1. j \in 1 .. Len(s)
          BY <2>3, <3>2, <3>7
        <4> QED
          BY <2>3, <3>2, <3>3, <3>6, <3>7, <4>1
      <3> QED
        BY <3>2, <3>4, <3>5, <3>7
    <2> QED
      BY <2>4, <2>5
  <1>5. \A n \in 0 .. L : Good(n)
    <2> DEFINE T == {n \in 0 .. L : ~Good(n)}
    <2> HIDE DEF Good
    <2> SUFFICES ASSUME T # {} PROVE FALSE
      OBVIOUS
    <2>1. T \subseteq Nat
      BY <1>0
    <2>2. PICK m \in T : \A n \in T : m <= n
      BY <2>1, Least
    <2>3. m # 0 /\ m \in 1 .. L
      BY <1>0, <1>3, <2>2
    <2>4. m - 1 \in 0 .. L /\ m - 1 \notin T
      BY <1>0, <2>2, <2>3
    <2> QED
      BY <1>4, <2>2, <2>3, <2>4
  <1>6. Good(L)
    <2> HIDE DEF Good
    <2>1. L \in 0 .. L
      BY <1>0
    <2> QED
      BY <1>5, <2>1
  <1> QED
    BY <1>1, <1>6

\* The invariant holds at the start.
LEMMA InitInv == Init => IInv
  BY DEF Init, IInv, MonitorTypeOK, RingIsTail, CountersAgree, Zero, Counters

\* A packet or an error extends the ring, whatever the counters do.
LEMMA AppendInv ==
  ASSUME MonitorTypeOK, RingIsTail,
         NEW d \in Devices, NEW kind \in EventKinds, NEW cause \in Causes \cup {"none"},
         AppendEvent(d, kind, cause)
  PROVE  nextSeq' \in Nat /\ events' \in Seq(Event) /\ RingIsTail'
  <1> DEFINE e == [seq |-> nextSeq + 1, dev |-> d, kind |-> kind, cause |-> cause]
             s == Append(events, e)
  <1>1. /\ nextSeq \in Nat /\ nextSeq' = nextSeq + 1
        /\ events \in Seq(Event)
        /\ events' = Newest(s)
    BY DEF AppendEvent, MonitorTypeOK
  <1>2. e \in Event /\ e.seq = nextSeq + 1
    BY <1>1 DEF Event
  <1> HIDE DEF e
  <1>3. /\ s \in Seq(Event) /\ Len(s) = Len(events) + 1
        /\ \A i \in 1 .. Len(s) : s[i] = IF i <= Len(events) THEN events[i] ELSE e
    BY <1>1, <1>2
  <1>4. \A i \in 1 .. Len(s) : s[i].seq = nextSeq' - Len(s) + i
    BY <1>1, <1>2, <1>3 DEF RingIsTail
  <1> HIDE DEF s
  <1>5. \A i \in 1 .. Len(events') : events'[i].seq = nextSeq' - Len(events') + i
    <2> TAKE i \in 1 .. Len(events')
    <2>1. /\ events'[i] = s[Len(s) - Len(events') + i]
          /\ Len(events') \in Nat /\ Len(events') <= Len(s) /\ Len(s) \in Nat
      <3>1. s \in Seq(Event) /\ Len(s) \in Nat
        BY <1>3
      <3>2. /\ Len(Newest(s)) \in Nat /\ Len(Newest(s)) <= Len(s)
            /\ \A k \in 1 .. Len(Newest(s)) : Newest(s)[k] = s[Len(s) - Len(Newest(s)) + k]
        BY <3>1, NewestIsSuffix
      <3> QED
        BY <1>1, <3>1, <3>2
    <2> DEFINE j == Len(s) - Len(events') + i
    <2>2. j \in 1 .. Len(s)
      BY <2>1
    <2>3. s[j].seq = nextSeq' - Len(s) + j
      BY <1>4, <2>2
    <2>4. nextSeq' - Len(s) + j = nextSeq' - Len(events') + i
      BY <1>1, <2>1
    <2> QED
      BY <2>1, <2>3, <2>4
  <1>6. events' \in Seq(Event)
    BY <1>1, <1>3, NewestIsSuffix
  <1>7. DOMAIN events' = 1 .. Len(events')
    BY <1>6
  <1> QED
    BY <1>1, <1>5, <1>6, <1>7 DEF RingIsTail

\* A request counts once, as successful or as failed.
LEMMA CountAgrees ==
  ASSUME NEW c \in Counters, NEW ok \in BOOLEAN
  PROVE  /\ Count(c, ok) \in Counters
         /\ c.requests = c.successful + c.failed =>
              Count(c, ok).requests = Count(c, ok).successful + Count(c, ok).failed
         /\ Count(c, ok).successful = IF ok THEN c.successful + 1 ELSE c.successful
         /\ Count(c, ok).failed = IF ok THEN c.failed ELSE c.failed + 1
  <1>1. /\ c.requests \in Nat /\ c.successful \in Nat /\ c.failed \in Nat
        /\ c = [requests |-> c.requests, successful |-> c.successful, failed |-> c.failed]
    BY DEF Counters
  <1>2. CASE ok
    <2>1. Count(c, ok) = [requests |-> c.requests + 1, successful |-> c.successful + 1,
                          failed |-> c.failed]
      BY <1>1, <1>2 DEF Count, Counters
    <2>2. Count(c, ok) \in Counters
      BY <1>1, <2>1 DEF Counters
    <2>3. /\ Count(c, ok).requests = c.requests + 1
          /\ Count(c, ok).successful = c.successful + 1
          /\ Count(c, ok).failed = c.failed
      BY <2>1
    <2>4. c.requests = c.successful + c.failed =>
            Count(c, ok).requests = Count(c, ok).successful + Count(c, ok).failed
      BY <1>1, <2>3
    <2>5. /\ Count(c, ok).successful = IF ok THEN c.successful + 1 ELSE c.successful
          /\ Count(c, ok).failed = IF ok THEN c.failed ELSE c.failed + 1
      BY <1>2, <2>3, Zenon
    <2> QED
      BY <2>2, <2>4, <2>5
  <1>3. CASE ~ok
    <2>1. Count(c, ok) = [requests |-> c.requests + 1, successful |-> c.successful,
                          failed |-> c.failed + 1]
      BY <1>1, <1>3 DEF Count, Counters
    <2> QED
      BY <1>1, <1>3, <2>1 DEF Counters
  <1> QED
    BY <1>2, <1>3

\* The outcome of a request is counted in the session and in the total.
LEMMA BothCounted ==
  ASSUME MonitorTypeOK, CountersAgree, NEW d \in Devices, NEW ok \in BOOLEAN,
         session' = [session EXCEPT ![d] = Count(@, ok)],
         cumulative' = [cumulative EXCEPT ![d] = Count(@, ok)]
  PROVE  /\ session' \in [Devices -> Counters]
         /\ cumulative' \in [Devices -> Counters]
         /\ CountersAgree'
  <1>1. \A x \in Devices : session[x] \in Counters /\ cumulative[x] \in Counters
    BY DEF MonitorTypeOK
  <1>2. /\ session' \in [Devices -> Counters]
        /\ cumulative' \in [Devices -> Counters]
    BY <1>1, CountAgrees DEF MonitorTypeOK
  <1>3. ASSUME NEW x \in Devices
        PROVE  /\ session'[x].requests = session'[x].successful + session'[x].failed
               /\ cumulative'[x].requests = cumulative'[x].successful + cumulative'[x].failed
               /\ session'[x].successful <= cumulative'[x].successful
               /\ session'[x].failed <= cumulative'[x].failed
    <2>1. CASE x # d
      <3>1. session'[x] = session[x] /\ cumulative'[x] = cumulative[x]
        BY <2>1 DEF MonitorTypeOK
      <3> QED
        BY <3>1 DEF CountersAgree
    <2>2. CASE x = d
      <3>1. session'[x] = Count(session[x], ok) /\ cumulative'[x] = Count(cumulative[x], ok)
        BY <2>2 DEF MonitorTypeOK
      <3>2. /\ session[x].requests = session[x].successful + session[x].failed
            /\ cumulative[x].requests = cumulative[x].successful + cumulative[x].failed
            /\ session[x].successful <= cumulative[x].successful
            /\ session[x].failed <= cumulative[x].failed
        BY DEF CountersAgree
      <3>3. /\ session[x].successful \in Nat /\ session[x].failed \in Nat
            /\ cumulative[x].successful \in Nat /\ cumulative[x].failed \in Nat
        BY <1>1 DEF Counters
      <3> QED
        BY <1>1, <3>1, <3>2, <3>3, CountAgrees
    <2> QED
      BY <2>1, <2>2
  <1> QED
    BY <1>2, <1>3 DEF CountersAgree

\* Every step keeps the invariant.
LEMMA StepInv == IInv /\ [Next]_vars => IInv'
  <1> SUFFICES ASSUME IInv, [Next]_vars PROVE IInv'
    OBVIOUS
  <1> USE DEF IInv
  <1>1. ASSUME NEW d \in Devices, Packet(d) PROVE IInv'
    <2>1. nextSeq' \in Nat /\ events' \in Seq(Event) /\ RingIsTail'
      <3>1. AppendEvent(d, "packet", "none")
        BY <1>1 DEF Packet
      <3>3. "packet" \in EventKinds /\ "none" \in Causes \cup {"none"}
        BY DEF EventKinds
      <3>2. MonitorTypeOK /\ RingIsTail
        OBVIOUS
      <3> QED
        BY <3>1, <3>2, <3>3, AppendInv
    <2>2. UNCHANGED <<session, cumulative>>
      BY <1>1 DEF Packet
    <2> QED
      BY <2>1, <2>2 DEF MonitorTypeOK, CountersAgree
  <1>2. ASSUME NEW d \in Devices, CompleteOk(d) PROVE IInv'
    <2>1. /\ session' \in [Devices -> Counters]
          /\ cumulative' \in [Devices -> Counters]
          /\ CountersAgree'
      BY <1>2, BothCounted DEF CompleteOk
    <2>2. UNCHANGED <<nextSeq, events>>
      BY <1>2 DEF CompleteOk
    <2> QED
      BY <2>1, <2>2 DEF MonitorTypeOK, RingIsTail
  <1>3. ASSUME NEW d \in Devices, NEW cause \in Causes, CompleteFailed(d, cause)
        PROVE  IInv'
    <2>1. /\ session' \in [Devices -> Counters]
          /\ cumulative' \in [Devices -> Counters]
          /\ CountersAgree'
      BY <1>3, BothCounted DEF CompleteFailed
    <2>2. Classify(cause) \in EventKinds
      BY DEF Classify, EventKinds
    <2>3. nextSeq' \in Nat /\ events' \in Seq(Event) /\ RingIsTail'
      BY <1>3, <2>2, AppendInv DEF CompleteFailed
    <2> QED
      BY <2>1, <2>3 DEF MonitorTypeOK
  <1>4. ASSUME Reset PROVE IInv'
    BY <1>4 DEF Reset, MonitorTypeOK, RingIsTail, CountersAgree, Zero, Counters
  <1>5. ASSUME Reload PROVE IInv'
    BY <1>5 DEF Reload, MonitorTypeOK, RingIsTail, CountersAgree, Zero, Counters
  <1>6. ASSUME UNCHANGED monitorVars PROVE IInv'
    BY <1>6 DEF monitorVars, MonitorTypeOK, RingIsTail, CountersAgree
  <1>7. CASE Fetch
    BY <1>6, <1>7 DEF Fetch
  <1>8. CASE UNCHANGED vars
    BY <1>6, <1>8 DEF vars
  <1> QED
    BY <1>1, <1>2, <1>3, <1>4, <1>5, <1>7, <1>8 DEF Next

\* The invariant holds in every state.
THEOREM Invariance == Spec => []IInv
  BY InitInv, StepInv, PTL DEF Spec

\* The ring of a monitor holds its newest events without a gap, and the number
\* of the last one is the one a page takes for its next request (monitor.go).
THEOREM RingTail == Spec => []RingIsTail
  <1>1. IInv => RingIsTail
    BY DEF IInv
  <1> QED
    BY <1>1, Invariance, PTL

\* Requests are the successful and the failed ones, in a session and in all,
\* and no session is ahead of the total (CommunicationStats).
THEOREM CountsAgree == Spec => []CountersAgree
  <1>1. IInv => CountersAgree
    BY DEF IInv
  <1> QED
    BY <1>1, Invariance, PTL

-----------------------------------------------------------------------------
\* The page.

\* Bounds of what is kept and shown.
PageType ==
  /\ nextSeq <= MaxSeq /\ Len(events) <= nextSeq /\ Len(events) <= Capacity
  /\ reloads \in 0 .. MaxReloads
  /\ cursor \in Nat
  /\ view \in Seq(1 .. MaxSeq)
  /\ dropped \subseteq 1 .. MaxSeq

\* Until a reload: the page has shown, in order and up to its cursor, all that
\* was not dropped; what came after is in the ring, or dropped.
Waits(n) == \E i \in DOMAIN events : events[i].seq = n

Shown(n) == \E i \in DOMAIN view : view[i] = n

FollowInv ==
  reloads = 0 =>
    /\ cursor <= nextSeq
    /\ \A i \in DOMAIN view : view[i] <= cursor
    /\ \A i, j \in DOMAIN view : i < j => view[i] < view[j]
    /\ \A n \in 1 .. cursor : n \in dropped \/ Shown(n)
    /\ \A n \in cursor + 1 .. nextSeq : n \in dropped \/ Waits(n)
    /\ \A i \in DOMAIN events : events[i].dev \in Selected \/ events[i].seq \in dropped

PageInv == IInv /\ PageType /\ FollowInv

\* The answer is the newest of what is wanted.
LEMMA LastOfIsSuffix ==
  ASSUME NEW s \in Seq(Event)
  PROVE  /\ LastOf(s) \in Seq(Event)
         /\ Len(LastOf(s)) \in Nat
         /\ Len(LastOf(s)) <= Len(s)
         /\ \A i \in 1 .. Len(LastOf(s)) : LastOf(s)[i] = s[Len(s) - Len(LastOf(s)) + i]
  <1>1. CASE Len(s) <= Limit
    BY <1>1 DEF LastOf
  <1>2. CASE ~(Len(s) <= Limit)
    <2>1. /\ Limit \in Nat \ {0}
          /\ LastOf(s) = SubSeq(s, Len(s) - Limit + 1, Len(s))
      BY <1>2, MonitorAssumption DEF LastOf
    <2>2. Len(s) - Limit + 1 \in 1 .. Len(s) /\ Len(s) \in Nat
      BY <1>2, <2>1
    <2>3. Len(LastOf(s)) = Limit
      BY <2>1, <2>2
    <2> QED
      BY <1>2, <2>1, <2>2, <2>3
  <1> QED
    BY <1>1, <1>2

\* A number after the cursor that is not in the new sequence any more is lost.
LEMMA LostNumbers ==
  ASSUME NEW old \in Seq(Event), NEW new \in Seq(Event)
  PROVE  /\ \A n \in Lost(old, new) : \E i \in DOMAIN old : old[i].seq = n
         /\ cursor \in Nat =>
              \A i \in DOMAIN old :
                \/ old[i].seq <= cursor
                \/ old[i].seq \in Lost(old, new)
                \/ \E j \in DOMAIN new : new[j].seq = old[i].seq
  <1>1. \A i \in DOMAIN old : old[i] \in Event /\ old[i].seq \in Nat
    <2>1. \A e \in Event : e.seq \in Nat
      BY DEF Event
    <2>2. \A i \in DOMAIN old : old[i] \in Event
      OBVIOUS
    <2> QED
      BY <2>1, <2>2
  <1> QED
    BY <1>1 DEF Lost

\* The numbers in the ring.
LEMMA RingNumbers ==
  ASSUME IInv, PageType, NEW i \in DOMAIN events
  PROVE  events[i] \in Event /\ events[i].seq \in 1 .. nextSeq
  <1>1. /\ nextSeq \in Nat /\ events \in Seq(Event) /\ Len(events) \in Nat /\ Len(events) <= nextSeq
        /\ events[i].seq = nextSeq - Len(events) + i
        /\ i \in 1 .. Len(events)
    BY DEF IInv, MonitorTypeOK, RingIsTail, PageType
  <1> QED
    BY <1>1

\* A packet or an error.
LEMMA AppendPage ==
  ASSUME PageInv,
         NEW d \in Devices, NEW kind \in EventKinds, NEW cause \in Causes \cup {"none"},
         AppendEvent(d, kind, cause), UNCHANGED <<reloads, cursor, view>>
  PROVE  PageType' /\ FollowInv'
  <1> DEFINE e == [seq |-> nextSeq + 1, dev |-> d, kind |-> kind, cause |-> cause]
             s == Append(events, e)
  <1>1. /\ nextSeq \in Nat /\ nextSeq < MaxSeq /\ nextSeq' = nextSeq + 1
        /\ events \in Seq(Event) /\ events' = Newest(s)
        /\ dropped' = dropped \cup Lost(s, events') \cup (IF d \in Selected THEN {} ELSE {e.seq})
        /\ MaxSeq \in Nat /\ cursor \in Nat
    BY MonitorAssumption DEF AppendEvent, PageInv, PageType, IInv, MonitorTypeOK
  <1>2. e \in Event /\ e.seq = nextSeq + 1 /\ e.dev = d
    BY <1>1 DEF Event
  <1> HIDE DEF e
  <1>3. /\ s \in Seq(Event) /\ Len(s) = Len(events) + 1 /\ DOMAIN s = 1 .. Len(s)
        /\ DOMAIN events = 1 .. Len(events) /\ Len(events) \in Nat
        /\ \A i \in 1 .. Len(events) : s[i] = events[i]
        /\ s[Len(s)] = e
    BY <1>1, <1>2
  <1> HIDE DEF s
  <1>4. /\ events' \in Seq(Event) /\ Len(events') \in Nat /\ Len(events') <= Len(s)
        /\ \A i \in 1 .. Len(events') : events'[i] = s[Len(s) - Len(events') + i]
    BY <1>1, <1>3, NewestIsSuffix
  <1>5. Len(events') <= Capacity
    <2>1. CASE Len(s) <= Capacity
      BY <1>1, <2>1 DEF Newest
    <2>2. CASE ~(Len(s) <= Capacity)
      BY <1>1, <1>3, <2>2, MonitorAssumption DEF Newest
    <2> QED
      BY <2>1, <2>2
  <1>6. \A i \in DOMAIN events' : \E k \in DOMAIN s : events'[i] = s[k]
    <2> TAKE i \in DOMAIN events'
    <2>1. i \in 1 .. Len(events')
      BY <1>4
    <2>2. Len(s) - Len(events') + i \in DOMAIN s
      BY <1>3, <1>4, <2>1
    <2> QED
      BY <1>4, <2>1, <2>2
  <1>7. \A i \in DOMAIN s : s[i].seq \in 1 .. MaxSeq
    <2> TAKE i \in DOMAIN s
    <2>1. CASE i \in 1 .. Len(events)
      <3>1. events[i].seq \in 1 .. nextSeq
        BY <1>3, <2>1, RingNumbers DEF PageInv
      <3> QED
        BY <1>1, <1>3, <2>1, <3>1
    <2>2. CASE i = Len(s)
      BY <1>1, <1>2, <1>3, <2>2
    <2> QED
      BY <1>3, <2>1, <2>2
  <1>8. PageType'
    <2>1. dropped' \subseteq 1 .. MaxSeq
      <3>1. ASSUME NEW n \in Lost(s, events') PROVE n \in 1 .. MaxSeq
        <4>1. PICK i \in DOMAIN s : s[i].seq = n
          BY <1>3, <1>4, LostNumbers
        <4> QED
          BY <1>7, <4>1
      <3>2. e.seq \in 1 .. MaxSeq
        BY <1>1, <1>2
      <3>3. dropped \subseteq 1 .. MaxSeq
        BY DEF PageInv, PageType
      <3> QED
        BY <1>1, <3>1, <3>2, <3>3
    <2> QED
      BY <1>1, <1>3, <1>4, <1>5, <2>1 DEF PageInv, PageType
  <1>9. ASSUME reloads = 0
        PROVE  /\ cursor <= nextSeq'
               /\ \A n \in 1 .. cursor : n \in dropped' \/ Shown(n)
               /\ \A n \in cursor + 1 .. nextSeq' : n \in dropped' \/ Waits(n)'
               /\ \A i \in DOMAIN events' : events'[i].dev \in Selected \/ events'[i].seq \in dropped'
    <2>0. FollowInv /\ cursor <= nextSeq
      BY <1>9 DEF PageInv, FollowInv
    <2>1. ASSUME NEW n \in Nat, n > cursor, NEW i \in DOMAIN s, s[i].seq = n
          PROVE  n \in dropped' \/ Waits(n)'
      <3>1. \/ s[i].seq <= cursor
            \/ s[i].seq \in Lost(s, events')
            \/ \E j \in DOMAIN events' : events'[j].seq = s[i].seq
        BY <1>1, <1>3, <1>4, LostNumbers
      <3> QED
        BY <1>1, <2>1, <3>1 DEF Waits
    <2>2. ASSUME NEW n \in cursor + 1 .. nextSeq' PROVE n \in dropped' \/ Waits(n)'
      <3>1. CASE n = nextSeq'
        <4>1. s[Len(s)].seq = n /\ Len(s) \in DOMAIN s /\ n \in Nat /\ n > cursor
          BY <1>1, <1>2, <1>3, <2>2, <3>1
        <4> QED
          BY <2>1, <4>1
      <3>2. CASE n # nextSeq'
        <4>1. n \in cursor + 1 .. nextSeq
          BY <1>1, <2>2, <3>2
        <4>2. CASE n \in dropped
          BY <1>1, <4>2
        <4>3. CASE Waits(n)
          <5>1. PICK i \in DOMAIN events : events[i].seq = n
            BY <4>3 DEF Waits
          <5>2. i \in DOMAIN s /\ s[i].seq = n /\ n \in Nat /\ n > cursor
            BY <1>1, <1>3, <4>1, <5>1
          <5> QED
            BY <2>1, <5>2
        <4> QED
          BY <1>9, <2>0, <4>1, <4>2, <4>3 DEF FollowInv
      <3> QED
        BY <3>1, <3>2
    <2>3. \A k \in DOMAIN s : s[k].dev \in Selected \/ s[k].seq \in dropped'
      <3> TAKE k \in DOMAIN s
      <3>1. CASE k \in 1 .. Len(events)
        BY <1>1, <1>3, <1>9, <2>0, <3>1 DEF FollowInv
      <3>2. CASE k = Len(s)
        BY <1>1, <1>2, <1>3, <3>2
      <3> QED
        BY <1>3, <3>1, <3>2
    <2>4. \A n \in 1 .. cursor : n \in dropped' \/ Shown(n)
      BY <1>1, <1>9, <2>0 DEF FollowInv
    <2> QED
      BY <1>1, <1>6, <2>0, <2>2, <2>3, <2>4
  <1>10. FollowInv'
    <2> SUFFICES ASSUME reloads' = 0 PROVE FollowInv'
      BY DEF FollowInv
    <2>1. reloads = 0 /\ FollowInv
      BY DEF PageInv
    <2>2. /\ \A i \in DOMAIN view : view[i] <= cursor
          /\ \A i, j \in DOMAIN view : i < j => view[i] < view[j]
      BY <2>1 DEF FollowInv
    <2> QED
      BY <1>9, <2>1, <2>2 DEF FollowInv, Shown
  <1> QED
    BY <1>8, <1>10

\* An answer: what is wanted and fits is shown, the cursor goes to the end.
LEMMA FetchPage ==
  ASSUME PageInv, Fetch
  PROVE  PageType' /\ FollowInv'
  <1> DEFINE all == Fresh(cursor)
             got == LastOf(all)
  <1>1. /\ view' = view \o Seqs(got)
        /\ dropped' = dropped \cup Lost(all, got)
        /\ cursor' = nextSeq
        /\ UNCHANGED <<nextSeq, events, reloads>>
        /\ nextSeq \in Nat /\ nextSeq <= MaxSeq /\ events \in Seq(Event) /\ RingIsTail
        /\ MaxSeq \in Nat /\ cursor \in Nat /\ view \in Seq(1 .. MaxSeq) /\ dropped \subseteq 1 .. MaxSeq
    BY MonitorAssumption DEF Fetch, monitorVars, PageInv, PageType, IInv, MonitorTypeOK
  <1>2. /\ all \in Seq(Event) /\ Len(all) \in Nat
        /\ \A j \in 1 .. Len(all) :
             \E i \in 1 .. Len(events) : all[j] = events[i] /\ Wanted(events[i], cursor)
        /\ \A i \in 1 .. Len(events) :
             Wanted(events[i], cursor) => \E j \in 1 .. Len(all) : all[j] = events[i]
        /\ \A j, k \in 1 .. Len(all) : j < k => all[j].seq < all[k].seq
    BY <1>1, FreshHolds
  <1> HIDE DEF all
  <1>3. /\ got \in Seq(Event) /\ Len(got) \in Nat /\ Len(got) <= Len(all)
        /\ \A i \in 1 .. Len(got) : got[i] = all[Len(all) - Len(got) + i]
    BY <1>2, LastOfIsSuffix
  <1> HIDE DEF got
  <1>4. \A j \in 1 .. Len(all) : all[j].seq \in 1 .. nextSeq /\ all[j].seq > cursor
    <2> TAKE j \in 1 .. Len(all)
    <2>1. PICK i \in 1 .. Len(events) : all[j] = events[i] /\ Wanted(events[i], cursor)
      BY <1>2
    <2>2. i \in DOMAIN events
      BY <1>1
    <2> QED
      BY <2>1, <2>2, RingNumbers DEF PageInv, Wanted
  <1>5. \A i \in 1 .. Len(got) : Len(all) - Len(got) + i \in 1 .. Len(all)
    <2>1. Len(all) \in Nat /\ Len(got) \in Nat /\ Len(got) <= Len(all)
      BY <1>2, <1>3
    <2> QED
      BY <2>1
  <1>6. /\ \A i \in 1 .. Len(got) : got[i].seq \in 1 .. nextSeq /\ got[i].seq > cursor
        /\ \A i, j \in 1 .. Len(got) : i < j => got[i].seq < got[j].seq
    <2>1. \A i \in 1 .. Len(got) : got[i].seq \in 1 .. nextSeq /\ got[i].seq > cursor
      BY <1>3, <1>4, <1>5
    <2>2. ASSUME NEW i \in 1 .. Len(got), NEW j \in 1 .. Len(got), i < j PROVE got[i].seq < got[j].seq
      <3> DEFINE a == Len(all) - Len(got) + i
                 b == Len(all) - Len(got) + j
      <3>1. a < b
        BY <1>2, <1>3, <2>2
      <3>2. a \in 1 .. Len(all) /\ b \in 1 .. Len(all) /\ got[i] = all[a] /\ got[j] = all[b]
        BY <1>3, <1>5
      <3> HIDE DEF a, b
      <3> QED
        BY <1>2, <3>1, <3>2
    <2> QED
      BY <2>1, <2>2
  <1> DEFINE shown == Seqs(got)
  <1>7. /\ shown \in Seq(1 .. MaxSeq) /\ Len(shown) = Len(got)
        /\ \A i \in 1 .. Len(got) : shown[i] = got[i].seq
    <2>1. DOMAIN got = 1 .. Len(got)
      BY <1>3
    <2>2. shown = [i \in 1 .. Len(got) |-> got[i].seq]
      BY <2>1 DEF Seqs
    <2>3. \A i \in 1 .. Len(got) : got[i].seq \in 1 .. MaxSeq
      BY <1>1, <1>6
    <2> HIDE DEF shown
    <2> QED
      BY <1>3, <2>2, <2>3
  <1> HIDE DEF shown
  <1>8. /\ view' \in Seq(1 .. MaxSeq) /\ Len(view') = Len(view) + Len(got) /\ Len(view) \in Nat
        /\ DOMAIN view' = 1 .. Len(view') /\ DOMAIN view = 1 .. Len(view)
        /\ \A i \in 1 .. Len(view) : view'[i] = view[i]
        /\ \A i \in 1 .. Len(got) : view'[Len(view) + i] = got[i].seq
    <2>1. view' = view \o shown /\ view \in Seq(1 .. MaxSeq) /\ shown \in Seq(1 .. MaxSeq)
      BY <1>1, <1>7 DEF shown
    <2>2. /\ view' \in Seq(1 .. MaxSeq) /\ Len(view') = Len(view) + Len(shown)
          /\ \A i \in 1 .. Len(view) : view'[i] = view[i]
          /\ \A i \in 1 .. Len(shown) : view'[Len(view) + i] = shown[i]
      BY <2>1
    <2> QED
      BY <1>7, <2>1, <2>2
  <1>9. \A i \in DOMAIN view' : \/ i \in 1 .. Len(view)
                                \/ \E k \in 1 .. Len(got) : i = Len(view) + k
    <2> TAKE i \in DOMAIN view'
    <2>1. CASE i <= Len(view)
      BY <1>8, <2>1
    <2>2. CASE ~(i <= Len(view))
      <3>1. i - Len(view) \in 1 .. Len(got) /\ i = Len(view) + (i - Len(view))
        BY <1>3, <1>8, <2>2
      <3> QED
        BY <3>1
    <2> QED
      BY <2>1, <2>2
  <1>10. PageType'
    <2>1. \A n \in Lost(all, got) : n \in 1 .. MaxSeq
      <3>1. DOMAIN all = 1 .. Len(all)
        BY <1>2
      <3>2. \A n \in Lost(all, got) : \E i \in DOMAIN all : all[i].seq = n
        BY <1>2, <1>3, LostNumbers
      <3> QED
        BY <1>1, <1>4, <3>1, <3>2
    <2> QED
      BY <1>1, <1>8, <2>1 DEF PageInv, PageType
  <1>11. FollowInv'
    <2> SUFFICES ASSUME reloads' = 0 PROVE FollowInv'
      BY DEF FollowInv
    <2>1. reloads = 0 /\ FollowInv
      BY <1>1 DEF PageInv
    <2>2. /\ cursor <= nextSeq
          /\ \A i \in DOMAIN view : view[i] <= cursor
          /\ \A i, j \in DOMAIN view : i < j => view[i] < view[j]
          /\ \A n \in 1 .. cursor : n \in dropped \/ Shown(n)
          /\ \A n \in cursor + 1 .. nextSeq : n \in dropped \/ Waits(n)
          /\ \A i \in DOMAIN events : events[i].dev \in Selected \/ events[i].seq \in dropped
      BY <2>1 DEF FollowInv
    <2>3. \A i \in DOMAIN view' : view'[i] <= cursor'
      <3> TAKE i \in DOMAIN view'
      <3>1. CASE i \in 1 .. Len(view)
        <4>1. view'[i] = view[i] /\ view[i] \in Nat /\ view[i] <= cursor
          BY <1>1, <1>8, <2>2, <3>1
        <4> QED
          BY <1>1, <2>2, <4>1
      <3>2. ASSUME NEW k \in 1 .. Len(got), i = Len(view) + k PROVE view'[i] <= cursor'
        <4>1. view'[i] = got[k].seq
          BY <1>8, <3>2
        <4>2. got[k].seq \in 1 .. nextSeq
          BY <1>6
        <4> QED
          BY <1>1, <4>1, <4>2
      <3> QED
        BY <1>9, <3>1, <3>2
    <2>4. ASSUME NEW i \in DOMAIN view', NEW j \in DOMAIN view', i < j PROVE view'[i] < view'[j]
      <3>1. CASE j \in 1 .. Len(view)
        <4>1. i \in 1 .. Len(view)
          BY <1>8, <2>4, <3>1
        <4> QED
          BY <1>8, <2>2, <2>4, <3>1, <4>1
      <3>2. ASSUME NEW k \in 1 .. Len(got), j = Len(view) + k PROVE view'[i] < view'[j]
        <4>1. view'[j] = got[k].seq /\ got[k].seq > cursor /\ got[k].seq \in Nat
          BY <1>6, <1>8, <3>2
        <4>2. CASE i \in 1 .. Len(view)
          <5>1. view'[i] = view[i] /\ view[i] \in Nat /\ view[i] <= cursor
            BY <1>1, <1>8, <2>2, <4>2
          <5> QED
            BY <1>1, <4>1, <5>1
        <4>3. ASSUME NEW h \in 1 .. Len(got), i = Len(view) + h PROVE view'[i] < view'[j]
          <5>1. h < k
            BY <1>8, <2>4, <3>2, <4>3
          <5> QED
            BY <1>6, <1>8, <3>2, <4>3, <5>1
        <4> QED
          BY <1>9, <4>2, <4>3
      <3> QED
        BY <1>9, <3>1, <3>2
    <2>5. \A n : Shown(n) => Shown(n)'
      BY <1>8 DEF Shown
    <2>6. ASSUME NEW n \in 1 .. nextSeq PROVE n \in dropped' \/ Shown(n)'
      <3>1. CASE n <= cursor
        <4>1. n \in 1 .. cursor
          BY <1>1, <2>6, <3>1
        <4> QED
          BY <1>1, <2>2, <2>5, <4>1
      <3>2. CASE ~(n <= cursor)
        <4>1. n \in cursor + 1 .. nextSeq
          BY <1>1, <2>6, <3>2
        <4>2. CASE n \in dropped
          BY <1>1, <4>2
        <4>3. ASSUME NEW i \in DOMAIN events, events[i].seq = n, n \notin dropped
              PROVE  n \in dropped' \/ Shown(n)'
          <5>1. Wanted(events[i], cursor) /\ i \in 1 .. Len(events)
            BY <1>1, <2>2, <2>6, <3>2, <4>3 DEF Wanted
          <5>2. PICK j \in 1 .. Len(all) : all[j] = events[i]
            BY <1>2, <5>1
          <5>3. \/ n \in Lost(all, got)
                \/ \E k \in DOMAIN got : got[k].seq = n
            <6>1. j \in DOMAIN all /\ all[j].seq = n
              BY <1>2, <4>3, <5>2
            <6>2. \/ all[j].seq <= cursor
                  \/ all[j].seq \in Lost(all, got)
                  \/ \E k \in DOMAIN got : got[k].seq = all[j].seq
              BY <1>1, <1>2, <1>3, <6>1, LostNumbers
            <6> QED
              BY <3>2, <6>1, <6>2
          <5>4. ASSUME NEW k \in DOMAIN got, got[k].seq = n PROVE Shown(n)'
            <6>1. k \in 1 .. Len(got)
              BY <1>3
            <6>2. Len(view) + k \in DOMAIN view' /\ view'[Len(view) + k] = n
              BY <1>3, <1>8, <5>4, <6>1
            <6> QED
              BY <6>2 DEF Shown
          <5> QED
            BY <1>1, <5>3, <5>4
        <4> QED
          BY <2>2, <4>1, <4>2, <4>3 DEF Waits
      <3> QED
        BY <3>1, <3>2
    <2>7. \A i \in DOMAIN events' : events'[i].dev \in Selected \/ events'[i].seq \in dropped'
      BY <1>1, <2>2
    <2>8. \A n \in cursor' + 1 .. nextSeq' : FALSE
      BY <1>1
    <2>9. cursor' <= nextSeq' /\ (\A n \in 1 .. cursor' : n \in dropped' \/ Shown(n)')
      BY <1>1, <2>6
    <2> QED
      BY <2>3, <2>4, <2>7, <2>8, <2>9 DEF FollowInv
  <1> QED
    BY <1>10, <1>11

\* A new session: what was in the ring and not fetched is lost.
LEMMA ResetPage ==
  ASSUME PageInv, Reset
  PROVE  PageType' /\ FollowInv'
  <1>1. /\ events' = << >> /\ dropped' = dropped \cup Lost(events, << >>)
        /\ UNCHANGED <<nextSeq, reloads, cursor, view>>
        /\ events \in Seq(Event) /\ nextSeq \in Nat /\ cursor \in Nat /\ nextSeq <= MaxSeq /\ MaxSeq \in Nat
        /\ Capacity \in Nat
    BY MonitorAssumption DEF Reset, PageInv, PageType, IInv, MonitorTypeOK
  <1>2. /\ << >> \in Seq(Event)
        /\ \A n \in Lost(events, << >>) : \E i \in DOMAIN events : events[i].seq = n
        /\ \A i \in DOMAIN events :
             \/ events[i].seq <= cursor
             \/ events[i].seq \in Lost(events, << >>)
    <2> DEFINE none == << >>
    <2>1. none \in Seq(Event) /\ DOMAIN none = {}
      OBVIOUS
    <2> HIDE DEF none
    <2>2. /\ \A n \in Lost(events, none) : \E i \in DOMAIN events : events[i].seq = n
          /\ \A i \in DOMAIN events :
               \/ events[i].seq <= cursor
               \/ events[i].seq \in Lost(events, none)
      BY <1>1, <2>1, LostNumbers
    <2> QED
      BY <2>1, <2>2 DEF none
  <1>3. PageType'
    <2>1. Lost(events, << >>) \subseteq 1 .. MaxSeq
      <3> SUFFICES ASSUME NEW n \in Lost(events, << >>) PROVE n \in 1 .. MaxSeq
        OBVIOUS
      <3>1. PICK i \in DOMAIN events : events[i].seq = n
        BY <1>2
      <3>2. n \in 1 .. nextSeq
        BY <3>1, RingNumbers DEF PageInv
      <3> QED
        BY <1>1, <3>2
    <2>2. Len(events') = 0 /\ 0 <= nextSeq /\ 0 <= Capacity
      BY <1>1
    <2>3. dropped' \subseteq 1 .. MaxSeq
      BY <1>1, <2>1 DEF PageInv, PageType
    <2>4. reloads \in 0 .. MaxReloads /\ view \in Seq(1 .. MaxSeq)
      BY DEF PageInv, PageType
    <2> QED
      BY <1>1, <2>2, <2>3, <2>4 DEF PageType
  <1>4. FollowInv'
    <2> SUFFICES ASSUME reloads' = 0 PROVE FollowInv'
      BY DEF FollowInv
    <2>1. reloads = 0 /\ FollowInv
      BY <1>1 DEF PageInv
    <2>2. ASSUME NEW n \in cursor + 1 .. nextSeq PROVE n \in dropped'
      <3>1. CASE n \in dropped
        BY <1>1, <3>1
      <3>2. CASE Waits(n)
        <4>1. PICK i \in DOMAIN events : events[i].seq = n
          BY <3>2 DEF Waits
        <4>2. ~(n <= cursor)
          BY <1>1
        <4> QED
          BY <1>1, <1>2, <4>1, <4>2
      <3> QED
        BY <2>1, <3>1, <3>2 DEF FollowInv
    <2>3. DOMAIN events' = {}
      BY <1>1
    <2> QED
      BY <1>1, <2>1, <2>2, <2>3 DEF FollowInv, Shown
  <1> QED
    BY <1>3, <1>4

\* The page starts empty, as the ring does.
LEMMA InitPage == Init => PageInv
  <1> SUFFICES ASSUME Init PROVE PageInv
    OBVIOUS
  <1>1. IInv
    BY InitInv
  <1>2. PageType /\ FollowInv
    BY MonitorAssumption DEF Init, PageType, FollowInv
  <1> QED
    BY <1>1, <1>2 DEF PageInv

\* Every step keeps it.
LEMMA StepPage == PageInv /\ [Next]_vars => PageInv'
  <1> SUFFICES ASSUME PageInv, [Next]_vars PROVE PageType' /\ FollowInv'
    BY StepInv DEF PageInv
  <1>1. ASSUME NEW d \in Devices, Packet(d) PROVE PageType' /\ FollowInv'
    <2>1. AppendEvent(d, "packet", "none") /\ UNCHANGED <<reloads, cursor, view>>
      BY <1>1 DEF Packet
    <2>2. "packet" \in EventKinds /\ "none" \in Causes \cup {"none"}
      BY DEF EventKinds
    <2> QED
      BY <2>1, <2>2, AppendPage
  <1>2. ASSUME NEW d \in Devices, NEW cause \in Causes, CompleteFailed(d, cause)
        PROVE  PageType' /\ FollowInv'
    <2>1. AppendEvent(d, Classify(cause), cause) /\ UNCHANGED <<reloads, cursor, view>>
      BY <1>2 DEF CompleteFailed
    <2>2. Classify(cause) \in EventKinds
      BY DEF Classify, EventKinds
    <2> QED
      BY <2>1, <2>2, AppendPage
  <1>3. ASSUME UNCHANGED <<nextSeq, events, reloads, cursor, view, dropped>>
        PROVE  PageType' /\ FollowInv'
    BY <1>3 DEF PageInv, PageType, FollowInv, Waits, Shown
  <1>4. ASSUME NEW d \in Devices, CompleteOk(d) PROVE PageType' /\ FollowInv'
    BY <1>3, <1>4 DEF CompleteOk, pageVars
  <1>5. ASSUME Reload PROVE PageType' /\ FollowInv'
    <2>1. /\ reloads \in Nat /\ reloads' = reloads + 1 /\ reloads < MaxReloads /\ MaxReloads \in Nat
          /\ nextSeq' = 0 /\ events' = << >> /\ UNCHANGED <<cursor, view, dropped>>
      BY <1>5, MonitorAssumption DEF Reload, pageVars, PageInv, PageType
    <2>2. Len(events') = 0 /\ MaxSeq \in Nat /\ Capacity \in Nat
      BY <2>1, MonitorAssumption
    <2> QED
      BY <2>1, <2>2 DEF PageInv, PageType, FollowInv
  <1>6. CASE UNCHANGED vars
    BY <1>3, <1>6 DEF vars, monitorVars, pageVars
  <1> QED
    BY <1>1, <1>2, <1>4, <1>5, <1>6, ResetPage, FetchPage DEF Next

\* The page and the monitor together.
THEOREM PageInvariance == Spec => []PageInv
  BY InitPage, StepPage, PTL DEF Spec

\* Every variable of the monitor and of the page keeps its type, the ring its
\* capacity.
THEOREM TypeCorrect == Spec => []TypeOK
  <1>1. PageInv => TypeOK
    BY DEF PageInv, PageType, IInv, MonitorTypeOK, TypeOK
  <1> QED
    BY <1>1, PageInvariance, PTL

\* Until a reload the page shows every event it could have, once and in order,
\* whatever sessions begin between its fetches and however small the ring and
\* the answers are (comment on reset; snapshot).
THEOREM PageFollows == Spec => []ViewFollows
  <1>1. PageInv => ViewFollows
    BY DEF PageInv, FollowInv, Shown, ViewFollows
  <1> QED
    BY <1>1, PageInvariance, PTL
=============================================================================

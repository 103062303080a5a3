----------------------------- MODULE CommMonitor -----------------------------
(***************************************************************************)
(* The communication monitor of a link (internal/engine/monitor.go) and    *)
(* the page that follows it: the worker adds packets and outcomes to a     *)
(* bounded ring and to counters, a reconnection starts a new session, and  *)
(* the log page (internal/web/static/js/log.js) fetches what is new with   *)
(* the sequence number of its last answer.                                 *)
(***************************************************************************)
EXTENDS Naturals, Sequences, FiniteSets

CONSTANTS
  Devices,      \* device indexes of the link
  Selected,     \* devices the page shows: one, or all of them
  Capacity,     \* events the ring holds
  Limit,        \* events one snapshot returns
  MaxReloads,   \* bound: reloads that replace the worker, and with it the monitor
  MaxSeq,       \* bound: events of a behaviour
  MaxDone       \* bound: requests of a behaviour

ASSUME MonitorAssumption ==
  /\ Selected \subseteq Devices
  /\ Capacity \in Nat \ {0}
  /\ Limit \in Nat \ {0}
  /\ MaxReloads \in Nat /\ MaxSeq \in Nat /\ MaxDone \in Nat

\* How a request may end: well, or with an error of one of these causes.
Causes == {"link", "sendTimeout", "frameTimeout", "exception", "map"}

VARIABLES
  nextSeq,      \* commMonitor.nextSeq
  events,       \* commMonitor.events
  session,      \* devices: counters of the session
  cumulative,   \* cumDevices: counters since the worker was started
  reloads       \* reloads so far

monitorVars == <<nextSeq, events, session, cumulative, reloads>>

VARIABLES
  cursor,       \* logNextSeq of the page
  view,         \* history: sequence numbers shown since the page was opened
  dropped       \* history: numbers of other devices' events, and of events that
                \* were gone before they were fetched

pageVars == <<cursor, view, dropped>>

vars == <<monitorVars, pageVars>>

Zero == [requests |-> 0, successful |-> 0, failed |-> 0]

Init ==
  /\ nextSeq = 0
  /\ events = << >>
  /\ session = [d \in Devices |-> Zero]
  /\ cumulative = [d \in Devices |-> Zero]
  /\ reloads = 0
  /\ cursor = 0
  /\ view = << >>
  /\ dropped = {}

-----------------------------------------------------------------------------
\* The worker.

\* Mutant of Newest: the ring gives up its newest events.
Oldest(s) == IF Len(s) <= Capacity THEN s ELSE SubSeq(s, 1, Capacity)

\* The ring after an append: the last Capacity events.
Newest(s) == IF Len(s) <= Capacity THEN s ELSE SubSeq(s, Len(s) - Capacity + 1, Len(s))

Lost(old, new) ==
  {old[i].seq : i \in DOMAIN old} \ ({new[i].seq : i \in DOMAIN new} \cup 0 .. cursor)

\* appendLocked.
AppendEvent(d, kind, cause) ==
  LET e    == [seq |-> nextSeq + 1, dev |-> d, kind |-> kind, cause |-> cause]
      ring == Newest(Append(events, e))
  IN /\ nextSeq < MaxSeq
     /\ nextSeq' = nextSeq + 1
     /\ events' = ring
     /\ dropped' = dropped \cup Lost(Append(events, e), ring)
                          \cup (IF d \in Selected THEN {} ELSE {e.seq})

\* tx and rx: one packet.
Packet(d) ==
  /\ AppendEvent(d, "packet", "none")
  /\ UNCHANGED <<session, cumulative, reloads, cursor, view>>

Count(c, ok) ==
  IF ok THEN [c EXCEPT !.requests = @ + 1, !.successful = @ + 1]
        ELSE [c EXCEPT !.requests = @ + 1, !.failed = @ + 1]

\* classifyError: a frame timeout is no timeout to it, and nothing is "map".
Classify(cause) ==
  CASE cause = "link" -> "link"
    [] cause = "sendTimeout" -> "transient"
    [] OTHER -> "permanent"

Counted == \E d \in Devices : cumulative[d].requests >= MaxDone

CompleteOk(d) ==
  /\ ~Counted
  /\ session' = [session EXCEPT ![d] = Count(@, TRUE)]
  /\ cumulative' = [cumulative EXCEPT ![d] = Count(@, TRUE)]
  /\ UNCHANGED <<nextSeq, events, reloads, pageVars>>

CompleteFailed(d, cause) ==
  /\ ~Counted
  /\ session' = [session EXCEPT ![d] = Count(@, FALSE)]
  /\ cumulative' = [cumulative EXCEPT ![d] = Count(@, FALSE)]
  /\ AppendEvent(d, Classify(cause), cause)
  /\ UNCHANGED <<reloads, cursor, view>>

\* Mutant of Reset: the cumulative counters go, the session's stay.
ResetWrong ==
  /\ events' = << >>
  /\ cumulative' = [d \in Devices |-> Zero]
  /\ dropped' = dropped \cup Lost(events, << >>)
  /\ UNCHANGED <<nextSeq, session, reloads, cursor, view>>

\* reset: the link has connected, a new session begins.
Reset ==
  /\ events' = << >>
  /\ session' = [d \in Devices |-> Zero]
  /\ dropped' = dropped \cup Lost(events, << >>)
  /\ UNCHANGED <<nextSeq, cumulative, reloads, cursor, view>>

\* A reload starts another worker, with a monitor of its own.
Reload ==
  /\ reloads < MaxReloads
  /\ reloads' = reloads + 1
  /\ nextSeq' = 0
  /\ events' = << >>
  /\ session' = [d \in Devices |-> Zero]
  /\ cumulative' = [d \in Devices |-> Zero]
  /\ UNCHANGED pageVars

-----------------------------------------------------------------------------
\* The page: snapshot(device, afterSeq, limit), and what it keeps of the answer.

\* Mutant of Fresh: afterSeq is taken for the next number wanted, and off by one.
FreshSkips(after) ==
  SelectSeq(events, LAMBDA e : e.seq > after + 1 /\ e.dev \in Selected)

Wanted(e, after) == e.seq > after /\ e.dev \in Selected

\* What is wanted of the ring, in its order.
Fresh(after) ==
  LET wanted[n \in 0 .. Len(events)] ==
        IF n = 0 THEN << >>
        ELSE IF Wanted(events[n], after) THEN Append(wanted[n - 1], events[n])
        ELSE wanted[n - 1]
  IN wanted[Len(events)]

LastOf(s) == IF Len(s) <= Limit THEN s ELSE SubSeq(s, Len(s) - Limit + 1, Len(s))

Seqs(s) == [i \in DOMAIN s |-> s[i].seq]

\* Mutant of Fetch: the cursor is the last event of the answer.
FetchCursorOfView ==
  LET got == LastOf(Fresh(cursor))
  IN /\ view' = view \o Seqs(got)
     /\ dropped' = dropped \cup Lost(Fresh(cursor), got)
     /\ cursor' = IF got = << >> THEN 0 ELSE got[Len(got)].seq
     /\ UNCHANGED monitorVars

Fetch ==
  LET got == LastOf(Fresh(cursor))
  IN /\ view' = view \o Seqs(got)
     /\ dropped' = dropped \cup Lost(Fresh(cursor), got)
     /\ cursor' = nextSeq
     /\ UNCHANGED monitorVars

-----------------------------------------------------------------------------
Next ==
  \/ \E d \in Devices :
       \/ Packet(d) \/ CompleteOk(d)
       \/ \E cause \in Causes : CompleteFailed(d, cause)
  \/ Reset
  \/ Reload
  \/ Fetch

Spec == Init /\ [][Next]_vars

-----------------------------------------------------------------------------
\* Properties.

Counters == [requests : Nat, successful : Nat, failed : Nat]

\* Kinds of events: packets, and errors by the class the page shows.
EventKinds == {"packet", "link", "transient", "permanent", "map"}

Event == [seq : Nat, dev : Devices, kind : EventKinds, cause : Causes \cup {"none"}]

TypeOK ==
  /\ nextSeq \in Nat
  /\ events \in Seq(Event) /\ Len(events) <= Capacity
  /\ session \in [Devices -> Counters]
  /\ cumulative \in [Devices -> Counters]
  /\ reloads \in 0 .. MaxReloads
  /\ cursor \in Nat
  /\ view \in Seq(1 .. MaxSeq)
  /\ dropped \subseteq 1 .. MaxSeq

\* The ring holds the newest events of the session without a
\* gap, so that the number of its last event is the one the next page asks for.
RingIsTail ==
  \A i \in DOMAIN events : events[i].seq = nextSeq - Len(events) + i

\* Every request is successful or failed, and no counter of a session is ahead
\* of the one that survives reconnections.
CountersAgree ==
  \A d \in Devices :
    /\ session[d].requests = session[d].successful + session[d].failed
    /\ cumulative[d].requests = cumulative[d].successful + cumulative[d].failed
    /\ session[d].successful <= cumulative[d].successful
    /\ session[d].failed <= cumulative[d].failed

\* The page shows every event it could have: none twice and none out of order,
\* whatever reconnections come between its fetches (comment on reset), and it
\* misses only what had left the ring, or was beyond the limit of an answer,
\* before it was fetched.  It holds until a reload replaces the monitor.
ViewFollows ==
  reloads = 0 =>
    /\ \A i, j \in DOMAIN view : i < j => view[i] < view[j]
    /\ \A n \in 1 .. cursor : n \in dropped \/ \E i \in DOMAIN view : view[i] = n

\* README, communication monitor, and the comment on reset: a page using
\* afterSeq never takes what is new for old data.  A reload breaks this.
NothingNewHidden ==
  [][Fetch => \A i \in DOMAIN events :
       \/ events[i].dev \notin Selected
       \/ \E j \in DOMAIN view : view[j] = events[i].seq
       \/ \E j \in DOMAIN view' : view'[j] = events[i].seq]_vars

\* monitor.go, field ErrorKind: transient, permanent, link or map.
MapErrorsNamed ==
  \A i \in DOMAIN events : events[i].cause = "map" => events[i].kind = "map"
=============================================================================

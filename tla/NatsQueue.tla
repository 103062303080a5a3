------------------------------ MODULE NatsQueue ------------------------------
(***************************************************************************)
(* The event queue of the NATS client (internal/natsclient/client.go):     *)
(* workers enqueue telemetry and write results, publishLoop publishes      *)
(* them, Close ends both.  Every event is offered once, by a goroutine of  *)
(* its own, so a goroutine has the name of its event.                      *)
(*                                                                         *)
(* Close is checked against every order of events, cancellation and Close, *)
(* as the client exports it.  The runtime manager always cancels first.    *)
(***************************************************************************)
EXTENDS Naturals, Sequences, FiniteSets

CONSTANTS
  Events,       \* events the workers offer
  Receipts,     \* those of them that are results of write commands
  Cap,          \* capacity of Client.events, at least one (queueSize)
  None

ASSUME QueueAssumption ==
  /\ Cap \in Nat \ {0}
  /\ Receipts \subseteq Events
  /\ None \notin Events
  /\ None # "close"
  /\ "close" \notin Events

VARIABLES
  eventsMu,     \* holder of Client.eventsMu: an event, "close" or None
  epc,          \* control point of enqueue for every event
  events,       \* Client.events
  eventsClosed, \* the channel is closed, and marked so
  evicted       \* history: events thrown out to make room

queueVars == <<eventsMu, epc, events, eventsClosed, evicted>>

VARIABLES
  lpc,          \* control point of publishLoop
  sending,      \* the event publishLoop has received
  published     \* events handed to the connection, in order

loopVars == <<lpc, sending, published>>

VARIABLES
  ctxDone,      \* the run context of the runtime is cancelled
  cpc           \* control point of Close

callVars == <<ctxDone, cpc>>

vars == <<queueVars, loopVars, callVars>>

Init ==
  /\ eventsMu = None
  /\ epc = [e \in Events |-> "idle"]
  /\ events = << >>
  /\ eventsClosed = FALSE
  /\ lpc = "select"
  /\ sending = None
  /\ published = << >>
  /\ evicted = {}
  /\ ctxDone = FALSE
  /\ cpc = "idle"

-----------------------------------------------------------------------------
\* enqueue, under eventsMu.

Goto(e, from, to) == epc[e] = from /\ epc' = [epc EXCEPT ![e] = to]

\* Mutant of EnqueueLock: the closed flag is not looked at.
LockAnyway(e) ==
  /\ eventsMu = None
  /\ Goto(e, "idle", "try")
  /\ eventsMu' = e
  /\ UNCHANGED <<events, eventsClosed, evicted, loopVars, callVars>>

EnqueueLock(e) ==
  /\ eventsMu = None
  /\ IF eventsClosed
     THEN Goto(e, "idle", "refused") /\ UNCHANGED eventsMu
     ELSE Goto(e, "idle", "try") /\ eventsMu' = e
  /\ UNCHANGED <<events, eventsClosed, evicted, loopVars, callVars>>

\* First select: send if there is room.
EnqueueTry(e) ==
  /\ IF Len(events) < Cap
     THEN /\ Goto(e, "try", "done")
          /\ events' = Append(events, e)
          /\ eventsMu' = None
     ELSE /\ Goto(e, "try", "evict")
          /\ UNCHANGED <<eventsMu, events>>
  /\ UNCHANGED <<eventsClosed, evicted, loopVars, callVars>>

\* Mutant of EnqueueEvict: the lock is given up while an event is evicted.
EvictUnlocked(e) ==
  /\ Goto(e, "evict", "put")
  /\ events # << >>
  /\ evicted' = evicted \cup {Head(events)}
  /\ events' = Tail(events)
  /\ eventsMu' = None
  /\ UNCHANGED <<eventsClosed, loopVars, callVars>>

\* Second select: throw out the oldest event, if publishLoop has left one.
EnqueueEvict(e) ==
  /\ Goto(e, "evict", "put")
  /\ IF events = << >>
     THEN UNCHANGED <<events, evicted>>
     ELSE /\ evicted' = evicted \cup {Head(events)}
          /\ events' = Tail(events)
  /\ UNCHANGED <<eventsMu, eventsClosed, loopVars, callVars>>

\* Mutant of EnqueuePut: the event goes to the front of the queue.
PutFirst(e) ==
  /\ Len(events) < Cap
  /\ Goto(e, "put", "done")
  /\ events' = <<e>> \o events
  /\ eventsMu' = None
  /\ UNCHANGED <<eventsClosed, evicted, loopVars, callVars>>

\* The plain send after it: a worker that waits here waits with eventsMu held.
EnqueuePut(e) ==
  /\ Len(events) < Cap
  /\ Goto(e, "put", "done")
  /\ events' = Append(events, e)
  /\ eventsMu' = None
  /\ UNCHANGED <<eventsClosed, evicted, loopVars, callVars>>

-----------------------------------------------------------------------------
\* publishLoop.

LoopGoto(from, to) == lpc = from /\ lpc' = to

LoopDone ==
  /\ ctxDone
  /\ LoopGoto("select", "done")
  /\ UNCHANGED <<queueVars, sending, published, callVars>>

\* A closed channel still delivers what it holds; then it reports the end.
LoopReceive ==
  /\ events # << >>
  /\ LoopGoto("select", "publish")
  /\ sending' = Head(events)
  /\ events' = Tail(events)
  /\ UNCHANGED <<eventsMu, epc, eventsClosed, evicted, published, callVars>>

\* Mutant of LoopEnd: only the context ends the loop.
LoopEndCancelled ==
  /\ ctxDone
  /\ eventsClosed
  /\ LoopGoto("select", "done")
  /\ UNCHANGED <<queueVars, sending, published, callVars>>

LoopEnd ==
  /\ events = << >>
  /\ eventsClosed
  /\ LoopGoto("select", "done")
  /\ UNCHANGED <<queueVars, sending, published, callVars>>

LoopPublish ==
  /\ LoopGoto("publish", "select")
  /\ published' = Append(published, sending)
  /\ sending' = None
  /\ UNCHANGED <<queueVars, callVars>>

-----------------------------------------------------------------------------
\* The manager: it cancels the run context, then stops the engine, then
\* closes the client.  Close takes the lock, closes the channel and waits.

Cancel ==
  /\ ~ctxDone
  /\ ctxDone' = TRUE
  /\ UNCHANGED <<queueVars, loopVars, cpc>>

CloseLock ==
  /\ cpc = "idle"
  /\ eventsMu = None
  /\ cpc' = "wait"
  /\ eventsClosed' = TRUE
  /\ UNCHANGED <<eventsMu, epc, events, evicted, loopVars, ctxDone>>

CloseEnd ==
  /\ cpc = "wait"
  /\ lpc = "done"
  /\ cpc' = "done"
  /\ UNCHANGED <<queueVars, loopVars, ctxDone>>

-----------------------------------------------------------------------------
Enqueue(e) == EnqueueTry(e) \/ EnqueueEvict(e) \/ EnqueuePut(e)

PublishLoop == LoopDone \/ LoopReceive \/ LoopEnd \/ LoopPublish

Next ==
  \/ \E e \in Events : EnqueueLock(e) \/ Enqueue(e)
  \/ PublishLoop
  \/ Cancel
  \/ CloseLock
  \/ CloseEnd

Spec == Init /\ [][Next]_vars

\* Goroutines that can run do; nothing forces an event, a cancellation or a
\* call of Close.
Fairness ==
  /\ \A e \in Events : WF_vars(Enqueue(e))
  /\ WF_vars(PublishLoop)
  /\ WF_vars(CloseEnd)

FairSpec == Spec /\ Fairness

-----------------------------------------------------------------------------
\* Properties.

TypeOK ==
  /\ eventsMu \in Events \cup {None}
  /\ epc \in [Events -> {"idle", "try", "evict", "put", "done", "refused"}]
  /\ events \in Seq(Events) /\ Len(events) <= Cap
  /\ eventsClosed \in BOOLEAN
  /\ lpc \in {"select", "publish", "done"}
  /\ sending \in Events \cup {None}
  /\ published \in Seq(Events)
  /\ evicted \subseteq Events
  /\ ctxDone \in BOOLEAN
  /\ cpc \in {"idle", "wait", "done"}

\* PublishTelemetry "never blocks a worker": the plain send at the end of
\* enqueue always finds room, whatever publishLoop has done since the eviction.
NeverBlocks == \A e \in Events : epc[e] = "put" => Len(events) < Cap

\* No worker sends on the closed channel, which would panic the process.
NoSendOnClosed ==
  \A e \in Events : epc[e] \in {"try", "evict", "put"} => ~eventsClosed

\* What enqueue relies on when it sends: an open channel, with room in the end.
SendsSafe == NeverBlocks /\ NoSendOnClosed

\* To the workers all this is a bounded queue that drops its oldest event:
\* nothing is lost but what was oldest when a newcomer met a full queue,
\* nothing is sent twice, what is published is published in the order of
\* arrival, and nothing enters a closed queue.
Queue == INSTANCE EventQueue WITH
  queue    <- events,
  accepted <- {e \in Events : epc[e] = "done"},
  refused  <- {e \in Events : epc[e] = "refused"},
  taken    <- IF sending = None THEN published ELSE Append(published, sending),
  dropped  <- evicted,
  overflow <- \E e \in Events : epc[e] = "evict",
  closed   <- eventsClosed

ImplementsEventQueue == Queue!Spec

\* Close returns: the loop it waits for always comes to its end.
CloseReturns == cpc = "wait" ~> cpc = "done"

InQueue(e)   == \E i \in DOMAIN events : events[i] = e
Published(e) == \E i \in DOMAIN published : published[i] = e

\* Comment in worker.run: when a worker has stopped, "the receipts have all
\* been sent".  A queued receipt would then be published in the end, or be
\* thrown out by a newer event.  The manager cancels the context first, and
\* the code does not keep this.
ReceiptsLeave ==
  \A e \in Receipts : InQueue(e) ~> (Published(e) \/ e \in evicted)
=============================================================================

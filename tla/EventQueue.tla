----------------------------- MODULE EventQueue -----------------------------
(***************************************************************************)
(* What the event queue of the NATS client promises the workers, with no   *)
(* lock and no goroutine in sight: a bounded queue that is read in the     *)
(* order of arrival, takes every event until it is closed, and makes room  *)
(* for a newcomer by dropping the oldest.  A newcomer that meets a full    *)
(* queue costs at most one event.  Module NatsQueue implements it.         *)
(***************************************************************************)
EXTENDS Naturals, Sequences

CONSTANTS
  Events,       \* what may be offered, each event once
  Cap           \* capacity of the queue

VARIABLES
  queue,        \* what waits, oldest first
  accepted,     \* events the queue has taken
  refused,      \* events turned away because the queue was closed
  taken,        \* events the reader has received, in order
  dropped,      \* events that made room for a newer one
  overflow,     \* a newcomer has met a full queue
  closed

vars == <<queue, accepted, refused, taken, dropped, overflow, closed>>

Init ==
  /\ queue = << >>
  /\ accepted = {}
  /\ refused = {}
  /\ taken = << >>
  /\ dropped = {}
  /\ overflow = FALSE
  /\ closed = FALSE

Fresh(e) == e \notin accepted \cup refused

Accept(e) ==
  /\ Fresh(e)
  /\ ~closed
  /\ ~overflow
  /\ Len(queue) < Cap
  /\ queue' = Append(queue, e)
  /\ accepted' = accepted \cup {e}
  /\ UNCHANGED <<refused, taken, dropped, overflow, closed>>

Refuse(e) ==
  /\ Fresh(e)
  /\ closed
  /\ refused' = refused \cup {e}
  /\ UNCHANGED <<queue, accepted, taken, dropped, overflow, closed>>

Overflow ==
  /\ ~closed
  /\ Len(queue) = Cap
  /\ overflow' = TRUE
  /\ UNCHANGED <<queue, accepted, refused, taken, dropped, closed>>

Drop ==
  /\ overflow
  /\ queue # << >>
  /\ dropped' = dropped \cup {Head(queue)}
  /\ queue' = Tail(queue)
  /\ overflow' = FALSE
  /\ UNCHANGED <<accepted, refused, taken, closed>>

\* The reader has emptied the queue in the meantime.
Spare ==
  /\ overflow
  /\ queue = << >>
  /\ overflow' = FALSE
  /\ UNCHANGED <<queue, accepted, refused, taken, dropped, closed>>

Take ==
  /\ queue # << >>
  /\ taken' = Append(taken, Head(queue))
  /\ queue' = Tail(queue)
  /\ UNCHANGED <<accepted, refused, dropped, overflow, closed>>

Close ==
  /\ ~overflow
  /\ closed' = TRUE
  /\ UNCHANGED <<queue, accepted, refused, taken, dropped, overflow>>

Next ==
  \/ \E e \in Events : Accept(e) \/ Refuse(e)
  \/ Overflow \/ Drop \/ Spare \/ Take \/ Close

Spec == Init /\ [][Next]_vars
=============================================================================

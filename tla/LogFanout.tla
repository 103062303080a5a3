----------------------------- MODULE LogFanout -----------------------------
(***************************************************************************)
(* The fan-out of log records to NATS (internal/natsclient/client.go:      *)
(* WriteLog, logLoop, PublishAlarm; internal/logx/logx.go: natsHandler).   *)
(* A goroutine that logs runs WriteLog itself; a full queue gives up its   *)
(* oldest record and raises an alarm; what cannot be published is logged   *)
(* as a warning, which goes through natsHandler and WriteLog again, in the *)
(* same goroutine.  So every goroutine has a stack of calls of WriteLog.   *)
(*                                                                         *)
(* Records of the program are numbered; the two warnings are told apart by *)
(* where they come from.  While the connection is down PublishMsg may fail *)
(* (the reconnect buffer of nats.go is full) or not.                       *)
(***************************************************************************)
EXTENDS Naturals, Sequences, FiniteSets

CONSTANTS
  Writers,      \* goroutines of the gateway that log
  Loop,         \* the goroutine of logLoop
  Cap,          \* capacity of logQueue
  MayFail,      \* may the connection be down?
  MaxRecords,   \* bound: records the gateway logs
  MaxDepth      \* bound: calls of WriteLog within each other

ASSUME FanoutAssumption ==
  /\ IsFiniteSet(Writers) /\ Writers # {}
  /\ Loop \notin Writers
  /\ Cap \in Nat \ {0}
  /\ MayFail \in BOOLEAN
  /\ MaxRecords \in Nat
  /\ MaxDepth \in Nat \ {0}

Goroutines == Writers \cup {Loop}

VARIABLES
  queue,        \* logQueue
  stack,        \* stack[g]: calls of WriteLog, the innermost last
  logged,       \* records the gateway has logged
  installed,    \* natsWriter is set
  cancelled,    \* the context of the run is done
  taken,        \* record logLoop is publishing, or Nothing
  ended,        \* logLoop has returned
  lost          \* history: records given up by the call that brought them

vars == <<queue, stack, logged, installed, cancelled, taken, ended, lost>>

Nothing     == 0
AlarmFailed == MaxRecords + 1      \* the warning of PublishAlarm
LogFailed   == MaxRecords + 2      \* the warning of logLoop

Init ==
  /\ queue = << >>
  /\ stack = [g \in Goroutines |-> << >>]
  /\ logged = 0
  /\ installed = TRUE
  /\ cancelled = FALSE
  /\ taken = Nothing
  /\ ended = FALSE
  /\ lost = {}

-----------------------------------------------------------------------------
\* WriteLog.

At(g, place) == stack[g] # << >> /\ stack[g][Len(stack[g])].at = place

Record(g) == stack[g][Len(stack[g])].record

Move(s, place) == [s EXCEPT ![Len(s)].at = place]
Return(s) == SubSeq(s, 1, Len(s) - 1)

\* natsHandler: a record reaches WriteLog while the writer is installed, and
\* is not below logThreshold: the default, warn, lets both warnings through.
Call(s, r) == IF installed THEN Append(s, [record |-> r, at |-> "try"]) ELSE s

Log(g) ==
  /\ stack[g] = << >>
  /\ logged < MaxRecords
  /\ logged' = logged + 1
  /\ stack' = [stack EXCEPT ![g] = Call(@, logged')]
  /\ UNCHANGED <<queue, installed, cancelled, taken, ended, lost>>

\* The first attempt to queue the record.
Try(g) ==
  /\ At(g, "try")
  /\ IF Len(queue) < Cap
     THEN queue' = Append(queue, Record(g)) /\ stack' = [stack EXCEPT ![g] = Return(@)]
     ELSE UNCHANGED queue /\ stack' = [stack EXCEPT ![g] = Move(@, "evict")]
  /\ UNCHANGED <<logged, installed, cancelled, taken, ended, lost>>

\* The oldest record is given up, if there still is one.
Evict(g) ==
  /\ At(g, "evict")
  /\ queue' = IF queue = << >> THEN queue ELSE Tail(queue)
  /\ stack' = [stack EXCEPT ![g] = Move(@, "alarm")]
  /\ UNCHANGED <<logged, installed, cancelled, taken, ended, lost>>

\* PublishAlarm.  When it fails, its warning is logged before it returns.  While
\* other goroutines take the room each time, that repeats: the code has no bound.
Alarm(g) ==
  /\ At(g, "alarm")
  /\ \E failed \in {FALSE, MayFail /\ Len(stack[g]) < MaxDepth} :
       stack' = [stack EXCEPT ![g] =
                   IF failed THEN Call(Move(@, "again"), AlarmFailed) ELSE Move(@, "again")]
  /\ UNCHANGED <<queue, logged, installed, cancelled, taken, ended, lost>>

\* Mutant of Again: it waits for room.
AgainBlocks(g) ==
  /\ At(g, "again")
  /\ Len(queue) < Cap
  /\ queue' = Append(queue, Record(g))
  /\ stack' = [stack EXCEPT ![g] = Return(@)]
  /\ UNCHANGED <<logged, installed, cancelled, taken, ended, lost>>

\* The second attempt; the record is dropped when others have filled the queue.
Again(g) ==
  /\ At(g, "again")
  /\ IF Len(queue) < Cap
     THEN queue' = Append(queue, Record(g)) /\ UNCHANGED lost
     ELSE UNCHANGED queue /\ lost' = lost \cup {Record(g)}
  /\ stack' = [stack EXCEPT ![g] = Return(@)]
  /\ UNCHANGED <<logged, installed, cancelled, taken, ended>>

WriteLog(g) == Try(g) \/ Evict(g) \/ Alarm(g) \/ Again(g)

-----------------------------------------------------------------------------
\* logLoop, and the end of the client.

AtSelect == ~ended /\ taken = Nothing /\ stack[Loop] = << >>

LoopTake ==
  /\ AtSelect
  /\ queue # << >>
  /\ taken' = Head(queue)
  /\ queue' = Tail(queue)
  /\ UNCHANGED <<stack, logged, installed, cancelled, ended, lost>>

\* A record that cannot be published is gone, and a warning is logged instead.
LoopPublish ==
  /\ taken # Nothing
  /\ taken' = Nothing
  /\ \E failed \in {FALSE, MayFail} :
       stack' = IF failed THEN [stack EXCEPT ![Loop] = Call(@, LogFailed)] ELSE stack
  /\ UNCHANGED <<queue, logged, installed, cancelled, ended, lost>>

LoopDone ==
  /\ AtSelect
  /\ cancelled
  /\ ended' = TRUE
  /\ UNCHANGED <<queue, stack, logged, installed, cancelled, taken, lost>>

\* Manager.stop cancels the context ...
CancelRun ==
  /\ ~cancelled
  /\ cancelled' = TRUE
  /\ UNCHANGED <<queue, stack, logged, installed, taken, ended, lost>>

\* ... and Close takes the writer away; a call that has begun goes on.
Uninstall ==
  /\ cancelled /\ installed
  /\ installed' = FALSE
  /\ UNCHANGED <<queue, stack, logged, cancelled, taken, ended, lost>>

-----------------------------------------------------------------------------
Next ==
  \/ \E g \in Writers : Log(g)
  \/ \E g \in Goroutines : WriteLog(g)
  \/ LoopTake \/ LoopPublish \/ LoopDone
  \/ CancelRun \/ Uninstall

Spec == Init /\ [][Next]_vars

\* Goroutines run.
FairSpec ==
  /\ Spec
  /\ \A g \in Goroutines : WF_vars(WriteLog(g))
  /\ WF_vars(LoopPublish)

-----------------------------------------------------------------------------
\* Properties.

Records == 1 .. LogFailed

TypeOK ==
  /\ queue \in Seq(Records) /\ Len(queue) <= Cap
  /\ \A g \in Goroutines :
       /\ Len(stack[g]) <= MaxDepth
       /\ stack[g] \in Seq([record : Records, at : {"try", "evict", "alarm", "again"}])
  /\ logged \in 0 .. MaxRecords
  /\ installed \in BOOLEAN /\ cancelled \in BOOLEAN /\ ended \in BOOLEAN
  /\ taken \in Records \cup {Nothing}
  /\ lost \subseteq Records

\* logx.go, NATSWriter: WriteLog does not block, whatever becomes of the
\* connection and of logLoop.
CallsReturn == \A g \in Goroutines : stack[g] # << >> ~> stack[g] = << >>

\* client.go, WriteLog: the oldest record is dropped and the newest is kept.
NewestKept == lost = {}

\* client.go, logLoop: a failed publication is not queued for publication again.
NoFeedback == \A i \in DOMAIN queue : queue[i] # LogFailed
=============================================================================

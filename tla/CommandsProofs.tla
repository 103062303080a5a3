--------------------------- MODULE CommandsProofs ---------------------------
(***************************************************************************)
(* Proofs about the event queue of the NATS client and about the commands  *)
(* whose receipts go through it (modules NatsQueue and Commands), for any  *)
(* number of commands and events and any capacity.                         *)
(*                                                                         *)
(* The queue: the goroutine that holds eventsMu is the only one between    *)
(* the first select and the send, the channel is open while it is held,    *)
(* and publishLoop only takes events away.  The commands: what a caller    *)
(* has been told follows from how far the engine has come by then, and     *)
(* that only goes forward.                                                 *)
(***************************************************************************)
EXTENDS Commands, TLAPS

-----------------------------------------------------------------------------
\* The queue.

\* Control points of enqueue at which eventsMu is held.
Inside == {"try", "evict", "put"}

\* The goroutine inside enqueue is the one that holds the lock.
HolderInv == \A e \in Events : epc[e] \in Inside <=> eventsMu = e

\* Close needs the lock to close the channel, and enqueue refuses once it has.
OpenInv == eventsMu # None => ~eventsClosed

\* publishLoop holds an event while it publishes, and no event otherwise.
SendingInv == sending # None <=> lpc = "publish"

IInv == TypeOK /\ HolderInv /\ OpenInv /\ SendingInv /\ NeverBlocks

-----------------------------------------------------------------------------
\* The invariant holds at the start.
LEMMA InitInv == Init => IInv
  <1> SUFFICES ASSUME Init PROVE IInv
    OBVIOUS
  <1>1. TypeOK
    <2>1. << >> \in Seq(Events) /\ Len(<< >>) = 0 /\ 0 <= Cap
      BY QueueAssumption
    <2>2. epc \in [Events -> {"idle", "try", "evict", "put", "done", "refused"}]
      BY DEF Init
    <2> QED
      BY <2>1, <2>2 DEF Init, TypeOK
  <1>2. HolderInv /\ OpenInv
    BY QueueAssumption DEF Init, Inside, HolderInv, OpenInv
  <1>3. SendingInv /\ NeverBlocks
    BY DEF Init, SendingInv, NeverBlocks
  <1> QED
    BY <1>1, <1>2, <1>3 DEF IInv

\* Appending to a queue with room keeps it within its capacity.
LEMMA AppendFits ==
  ASSUME NEW e \in Events, events \in Seq(Events), Len(events) < Cap
  PROVE  /\ Append(events, e) \in Seq(Events)
         /\ Len(Append(events, e)) <= Cap
  BY QueueAssumption

\* Taking the oldest event away makes room.
LEMMA TailFits ==
  ASSUME events \in Seq(Events), events # << >>, Len(events) <= Cap
  PROVE  /\ Head(events) \in Events
         /\ Tail(events) \in Seq(Events)
         /\ Len(Tail(events)) < Cap
         /\ Len(Tail(events)) < Len(events)
  BY QueueAssumption

\* enqueue, in any of its steps, keeps the invariant.
LEMMA EnqueueInv ==
  ASSUME IInv, NEW e \in Events, EnqueueLock(e) \/ Enqueue(e)
  PROVE  IInv'
  <1> USE QueueAssumption DEF IInv, loopVars, callVars, Goto
  <1>1. CASE EnqueueLock(e)
    <2> USE <1>1 DEF EnqueueLock
    <2>1. TypeOK'
      BY DEF TypeOK
    <2>2. HolderInv' /\ OpenInv'
      BY DEF TypeOK, HolderInv, OpenInv, Inside
    <2>3. SendingInv' /\ NeverBlocks'
      BY DEF TypeOK, SendingInv, NeverBlocks
    <2> QED
      BY <2>1, <2>2, <2>3
  <1>2. CASE EnqueueTry(e) /\ Len(events) < Cap
    <2> USE <1>2 DEF EnqueueTry
    <2>1. TypeOK'
      <3>1. events' \in Seq(Events) /\ Len(events') <= Cap
        BY AppendFits DEF TypeOK
      <3>2. epc' \in [Events -> {"idle", "try", "evict", "put", "done", "refused"}]
        BY DEF TypeOK
      <3> QED
        BY <3>1, <3>2 DEF TypeOK
    <2>2. HolderInv' /\ OpenInv'
      BY DEF TypeOK, HolderInv, OpenInv, Inside
    <2>3. SendingInv' /\ NeverBlocks'
      BY DEF TypeOK, SendingInv, NeverBlocks, HolderInv, Inside
    <2> QED
      BY <2>1, <2>2, <2>3
  <1>3. CASE EnqueueTry(e) /\ ~(Len(events) < Cap)
    <2> USE <1>3 DEF EnqueueTry
    <2>1. TypeOK'
      BY DEF TypeOK
    <2>2. HolderInv' /\ OpenInv'
      BY DEF TypeOK, HolderInv, OpenInv, Inside
    <2>3. SendingInv' /\ NeverBlocks'
      BY DEF TypeOK, SendingInv, NeverBlocks
    <2> QED
      BY <2>1, <2>2, <2>3
  <1>4. CASE EnqueueEvict(e)
    <2> USE <1>4 DEF EnqueueEvict
    <2>1. events' \in Seq(Events) /\ Len(events') < Cap
      <3>1. CASE events = << >>
        BY <3>1 DEF TypeOK
      <3>2. CASE events # << >>
        BY <3>2, TailFits DEF TypeOK
      <3> QED
        BY <3>1, <3>2
    <2>2. evicted' \subseteq Events
      <3>1. CASE events = << >>
        BY <3>1 DEF TypeOK
      <3>2. CASE events # << >>
        BY <3>2, TailFits DEF TypeOK
      <3> QED
        BY <3>1, <3>2
    <2>3. TypeOK'
      BY <2>1, <2>2 DEF TypeOK
    <2>4. HolderInv' /\ OpenInv'
      BY DEF TypeOK, HolderInv, OpenInv, Inside
    <2>5. SendingInv' /\ NeverBlocks'
      BY <2>1 DEF TypeOK, SendingInv, NeverBlocks
    <2> QED
      BY <2>3, <2>4, <2>5
  <1>5. CASE EnqueuePut(e)
    <2> USE <1>5 DEF EnqueuePut
    <2>1. TypeOK'
      BY AppendFits DEF TypeOK
    <2>2. HolderInv' /\ OpenInv'
      BY DEF TypeOK, HolderInv, OpenInv, Inside
    <2>3. SendingInv' /\ NeverBlocks'
      BY DEF TypeOK, SendingInv, NeverBlocks, HolderInv, Inside
    <2> QED
      BY <2>1, <2>2, <2>3
  <1> QED
    BY <1>1, <1>2, <1>3, <1>4, <1>5 DEF Enqueue

\* publishLoop keeps it: it only takes events out of the queue.
LEMMA LoopInv ==
  ASSUME IInv, PublishLoop
  PROVE  IInv'
  <1> USE QueueAssumption DEF IInv, HolderInv, OpenInv, SendingInv, NeverBlocks,
                              TypeOK, Inside, LoopGoto, queueVars, callVars
  <1>1. CASE LoopDone \/ LoopEnd
    BY <1>1 DEF LoopDone, LoopEnd
  <1>2. CASE LoopReceive
    BY <1>2, TailFits DEF LoopReceive
  <1>3. CASE LoopPublish
    BY <1>3 DEF LoopPublish
  <1> QED
    BY <1>1, <1>2, <1>3 DEF PublishLoop

\* Cancelling and closing keep it: the channel is closed under the lock.
LEMMA CloseInv ==
  ASSUME IInv, Cancel \/ CloseLock \/ CloseEnd
  PROVE  IInv'
  <1> USE QueueAssumption DEF IInv, HolderInv, OpenInv, SendingInv, NeverBlocks,
                              TypeOK, Inside, queueVars, loopVars
  <1>1. CASE Cancel
    BY <1>1 DEF Cancel
  <1>2. CASE CloseLock
    BY <1>2 DEF CloseLock
  <1>3. CASE CloseEnd
    BY <1>3 DEF CloseEnd
  <1> QED
    BY <1>1, <1>2, <1>3

\* Every step keeps it.
LEMMA StepInv == IInv /\ [Next]_vars => IInv'
  <1> SUFFICES ASSUME IInv, [Next]_vars PROVE IInv'
    OBVIOUS
  <1>1. CASE Next
    BY <1>1, EnqueueInv, LoopInv, CloseInv DEF Next
  <1>2. CASE UNCHANGED vars
    BY <1>2 DEF vars, queueVars, loopVars, callVars, IInv, TypeOK, HolderInv,
       OpenInv, SendingInv, NeverBlocks
  <1> QED
    BY <1>1, <1>2

\* The invariant holds in every state.
THEOREM Invariance == Spec => []IInv
  BY InitInv, StepInv, PTL DEF Spec

\* Every variable of the queue keeps its type, and the queue its capacity.
THEOREM TypeCorrect == Spec => []TypeOK
  <1>1. IInv => TypeOK
    BY DEF IInv
  <1> QED
    BY <1>1, Invariance, PTL

\* "Never blocks a worker" (client.go): the send at the end of enqueue finds
\* room, and no worker sends on a channel that Close has closed.
THEOREM Sends == Spec => []SendsSafe
  <1>1. IInv => SendsSafe
    BY QueueAssumption DEF IInv, TypeOK, HolderInv, OpenInv, SendsSafe, NoSendOnClosed, Inside
  <1> QED
    BY <1>1, Invariance, PTL

-----------------------------------------------------------------------------
(***************************************************************************)
(* NatsQueue implements EventQueue.  What the abstract queue calls one     *)
(* step is one step of the goroutine that holds the lock, or of            *)
(* publishLoop; the lock, the cancellation and the publication are         *)
(* stutters.                                                               *)
(***************************************************************************)

\* What the abstract queue sees, by the names it has there.
Accepted == {e \in Events : epc[e] = "done"}
Refused  == {e \in Events : epc[e] = "refused"}
Taken    == IF sending = None THEN published ELSE Append(published, sending)
Overflow == \E e \in Events : epc[e] = "evict"

\* While somebody holds the lock it is the only one that evicts.
LEMMA OverflowIsHolders ==
  ASSUME IInv, NEW e \in Events, eventsMu = e
  PROVE  Overflow <=> epc[e] = "evict"
  BY DEF IInv, HolderInv, Inside, Overflow

\* Nobody evicts while nobody holds the lock.
LEMMA NoOverflowUnlocked ==
  ASSUME IInv, eventsMu = None
  PROVE  ~Overflow
  BY QueueAssumption DEF IInv, HolderInv, Inside, Overflow

\* The empty queue is an empty abstract queue.
LEMMA InitSim == Init => Queue!Init
  BY QueueAssumption DEF Init, Queue!Init

\* A step of enqueue is a step of the abstract queue, or none.
LEMMA EnqueueSim ==
  ASSUME IInv, IInv', NEW e \in Events, EnqueueLock(e) \/ Enqueue(e)
  PROVE  [Queue!Next]_(Queue!vars)
  <1> USE QueueAssumption DEF loopVars, callVars, Goto
  <1>0. epc \in [Events -> {"idle", "try", "evict", "put", "done", "refused"}]
    BY DEF IInv, TypeOK
  <1>t. EnqueueLock(e) \/ Enqueue(e) => Taken' = Taken
    BY DEF EnqueueLock, Enqueue, EnqueueTry, EnqueueEvict, EnqueuePut, Taken
  <1>1. CASE EnqueueLock(e) /\ eventsClosed
    <2>1. Accepted' = Accepted /\ Refused' = Refused \cup {e} /\ e \notin Accepted \cup Refused
      BY <1>0, <1>1 DEF EnqueueLock, Accepted, Refused
    <2>2. Overflow' = Overflow
      BY <1>0, <1>1 DEF EnqueueLock, Overflow
    <2>3. Queue!Refuse(e)
      BY <1>1, <1>t, <2>1, <2>2 DEF EnqueueLock, Queue!Refuse, Queue!Fresh, Accepted, Refused, Overflow, Taken
    <2> QED
      BY <2>3 DEF Queue!Next
  <1>2. CASE EnqueueLock(e) /\ ~eventsClosed
    <2>1. Accepted' = Accepted /\ Refused' = Refused /\ Overflow' = Overflow
      BY <1>0, <1>2 DEF EnqueueLock, Accepted, Refused, Overflow
    <2> QED
      BY <1>2, <1>t, <2>1 DEF EnqueueLock, Queue!vars, Accepted, Refused, Overflow, Taken
  <1>3. CASE (EnqueueTry(e) /\ Len(events) < Cap) \/ EnqueuePut(e)
    <2>1. eventsMu = e /\ eventsMu' = None
      BY <1>3 DEF EnqueueTry, EnqueuePut, IInv, HolderInv, Inside
    <2>2. ~Overflow /\ ~Overflow'
      <3>1. ~Overflow
        BY <1>3, <2>1, OverflowIsHolders DEF EnqueueTry, EnqueuePut
      <3>2. ~Overflow'
        BY <1>0, <1>3, <3>1 DEF EnqueueTry, EnqueuePut, Overflow
      <3> QED
        BY <3>1, <3>2
    <2>3. Accepted' = Accepted \cup {e} /\ Refused' = Refused /\ e \notin Accepted \cup Refused
      BY <1>0, <1>3 DEF EnqueueTry, EnqueuePut, Accepted, Refused
    <2>4. ~eventsClosed
      BY <2>1 DEF IInv, OpenInv
    <2>5. Queue!Accept(e)
      BY <1>3, <1>t, <2>2, <2>3, <2>4
         DEF Enqueue, EnqueueTry, EnqueuePut, Queue!Accept, Queue!Fresh, Accepted, Refused, Overflow, Taken
    <2> QED
      BY <2>5 DEF Queue!Next
  <1>4. CASE EnqueueTry(e) /\ ~(Len(events) < Cap)
    <2>1. eventsMu = e
      BY <1>4 DEF EnqueueTry, IInv, HolderInv, Inside
    <2>2. Accepted' = Accepted /\ Refused' = Refused /\ Overflow'
      BY <1>0, <1>4 DEF EnqueueTry, Accepted, Refused, Overflow
    <2>3. ~eventsClosed /\ Len(events) = Cap
      BY <1>4, <2>1 DEF IInv, OpenInv, TypeOK
    <2>4. Queue!Overflow
      BY <1>4, <1>t, <2>2, <2>3 DEF Enqueue, EnqueueTry, Queue!Overflow, Accepted, Refused, Overflow, Taken
    <2> QED
      BY <2>4 DEF Queue!Next
  <1>5. CASE EnqueueEvict(e)
    <2>1. eventsMu = e
      BY <1>5 DEF EnqueueEvict, IInv, HolderInv, Inside
    <2>2. Overflow /\ ~Overflow'
      <3>1. Overflow /\ \A x \in Events \ {e} : epc[x] # "evict"
        BY <1>5, <2>1 DEF EnqueueEvict, Overflow, IInv, HolderInv, Inside
      <3>2. ~Overflow'
        BY <1>0, <1>5, <3>1 DEF EnqueueEvict, Overflow
      <3> QED
        BY <3>1, <3>2
    <2>3. Accepted' = Accepted /\ Refused' = Refused
      BY <1>0, <1>5 DEF EnqueueEvict, Accepted, Refused
    <2>4. CASE events = << >>
      <3>1. Queue!Spare
        BY <1>5, <1>t, <2>2, <2>3, <2>4 DEF Enqueue, EnqueueEvict, Queue!Spare, Accepted, Refused, Overflow, Taken
      <3> QED
        BY <3>1 DEF Queue!Next
    <2>5. CASE events # << >>
      <3>1. Queue!Drop
        BY <1>5, <1>t, <2>2, <2>3, <2>5 DEF Enqueue, EnqueueEvict, Queue!Drop, Accepted, Refused, Overflow, Taken
      <3> QED
        BY <3>1 DEF Queue!Next
    <2> QED
      BY <2>4, <2>5
  <1> QED
    BY <1>1, <1>2, <1>3, <1>4, <1>5 DEF Enqueue

\* publishLoop takes an event when it receives it; publishing it is a stutter.
LEMMA LoopSim ==
  ASSUME IInv, PublishLoop
  PROVE  [Queue!Next]_(Queue!vars)
  <1> USE QueueAssumption DEF LoopGoto, queueVars, callVars
  <1>1. CASE LoopDone \/ LoopEnd
    BY <1>1 DEF LoopDone, LoopEnd, Queue!vars
  <1>2. CASE LoopReceive
    <2>1. sending = None /\ Head(events) # None
      BY <1>2, TailFits DEF LoopReceive, IInv, SendingInv, TypeOK
    <2>2. Queue!Take
      BY <1>2, <2>1 DEF LoopReceive, Queue!Take
    <2> QED
      BY <2>2 DEF Queue!Next
  <1>3. CASE LoopPublish
    <2>1. sending # None
      BY <1>3 DEF LoopPublish, IInv, SendingInv
    <2> QED
      BY <1>3, <2>1 DEF LoopPublish, Queue!vars
  <1> QED
    BY <1>1, <1>2, <1>3 DEF PublishLoop

\* Only the first step of Close is seen by the abstract queue.
LEMMA CloseSim ==
  ASSUME IInv, Cancel \/ CloseLock \/ CloseEnd
  PROVE  [Queue!Next]_(Queue!vars)
  <1> USE DEF queueVars, loopVars
  <1>1. CASE Cancel \/ CloseEnd
    BY <1>1 DEF Cancel, CloseEnd, Queue!vars
  <1>2. CASE CloseLock
    <2>1. ~Overflow
      BY <1>2, NoOverflowUnlocked DEF CloseLock
    <2>2. Queue!Close
      BY <1>2, <2>1 DEF CloseLock, Queue!Close, Overflow
    <2> QED
      BY <2>2 DEF Queue!Next
  <1> QED
    BY <1>1, <1>2

\* Every step is one of the abstract queue, or a stutter.
LEMMA StepSim == IInv /\ IInv' /\ [Next]_vars => [Queue!Next]_(Queue!vars)
  <1> SUFFICES ASSUME IInv, IInv', [Next]_vars PROVE [Queue!Next]_(Queue!vars)
    OBVIOUS
  <1>1. CASE Next
    BY <1>1, EnqueueSim, LoopSim, CloseSim DEF Next
  <1>2. CASE UNCHANGED vars
    BY <1>2 DEF vars, queueVars, loopVars, callVars, Queue!vars
  <1> QED
    BY <1>1, <1>2

\* To the workers the queue of the client, with its lock, its two selects and
\* its closing, is a bounded queue that drops its oldest event and nothing else.
THEOREM Implements == Spec => ImplementsEventQueue
  BY InitSim, StepSim, Invariance, PTL DEF Spec, Queue!Spec, ImplementsEventQueue

-----------------------------------------------------------------------------
\* The commands.

\* What the caller knows at each of its control points, and what the engine has
\* made of the command by then.
CallerInv ==
  \A c \in Receipts :
    /\ caller[c] = "idle" => ledger[c] = "new"
    /\ caller[c] = "checked" => ledger[c] \in {"new", "offered"}
    /\ caller[c] \in {"turned down", "failure"} => ledger[c] \in {"new", "rejected"}
    /\ caller[c] \in {"taken", "waiting", "accepted", "pending"} => ledger[c] \in {"accepted", "answered"}

\* Only what the engine has accepted is executed, and only once.
ResultInv ==
  \A c \in Receipts : result[c] # None => ledger[c] \in {"accepted", "answered"}

\* ResultCh holds the result of its own command, and so has the caller that took
\* it from there.
SlotInv ==
  \A c \in Receipts :
    /\ slot[c] # None => ledger[c] = "answered" /\ slot[c] = result[c]
    /\ caller[c] \in Outcomes => ledger[c] = "answered" /\ result[c] = caller[c]

\* A receipt enters the queue after its result was delivered.
ReceiptInv ==
  \A c \in Receipts : epc[c] # "idle" => ledger[c] = "answered"

AnswerInv == CallerInv /\ ResultInv /\ SlotInv /\ ReceiptInv

CommandsInv == IInv /\ CommandsTypeOK /\ AnswerInv

-----------------------------------------------------------------------------
\* The invariant holds at the start.
LEMMA CommandsInitInv == CommandsInit => CommandsInv
  <1> SUFFICES ASSUME CommandsInit PROVE CommandsInv
    OBVIOUS
  <1>1. IInv
    BY InitInv DEF CommandsInit
  <1>2. CommandsTypeOK
    BY <1>1 DEF IInv, CommandsInit, CommandsTypeOK, Ledger!States
  <1>3. AnswerInv
    BY CommandsAssumption, QueueAssumption DEF CommandsInit, Init, AnswerInv, CallerInv, ResultInv, SlotInv, ReceiptInv, Outcomes
  <1> QED
    BY <1>1, <1>2, <1>3 DEF CommandsInv

\* The steps of a caller, and of the engine with its command, leave the queue alone.
CommandStep(c) ==
  InvalidRequest(c) \/ InvalidMessage(c) \/ HasDevice(c) \/ CallerStep(c) \/ Execute(c) \/ Deliver(c)

\* They do not touch the queue.
LEMMA CommandFrame ==
  ASSUME NEW c \in Receipts, CommandStep(c)
  PROVE  UNCHANGED vars
  BY DEF CommandStep, InvalidRequest, InvalidMessage, HasDevice, CallerStep, SubmitLookup,
     SubmitReturn, Reply, ReceiveResult, WaitTimeout, Execute, Deliver

\* The others do not touch the command.
LEMMA QueueFrame ==
  ASSUME QueueStep \/ \E c \in Receipts : ReceiptEnqueue(c)
  PROVE  UNCHANGED cmdVars
  BY DEF QueueStep, ReceiptEnqueue

\* Every step of the commands is one of the queue, or does not touch it.
LEMMA QueueNext == [CommandsNext]_commandsVars => [Next]_vars
  <1> SUFFICES ASSUME [CommandsNext]_commandsVars PROVE [Next]_vars
    OBVIOUS
  <1>1. CASE \E c \in Receipts : CommandStep(c)
    BY <1>1, CommandFrame
  <1>2. CASE \E c \in Receipts : ReceiptEnqueue(c)
    BY <1>2, QueueAssumption DEF ReceiptEnqueue, Next
  <1>3. CASE QueueStep
    BY <1>3 DEF QueueStep, Next
  <1>4. CASE UNCHANGED commandsVars
    BY <1>4 DEF commandsVars
  <1> QED
    BY <1>1, <1>2, <1>3, <1>4 DEF CommandsNext, CommandStep

\* A step of a caller or of the engine keeps the types.
LEMMA CommandType ==
  ASSUME CommandsTypeOK, TypeOK', NEW c \in Receipts, CommandStep(c)
  PROVE  CommandsTypeOK'
  <1> USE DEF CommandsTypeOK, CallerGoto, Ledger!Move, Ledger!States
  <1>1. CASE InvalidRequest(c) \/ InvalidMessage(c) \/ HasDevice(c) \/ Reply(c) \/ WaitTimeout(c)
    BY <1>1 DEF InvalidRequest, InvalidMessage, HasDevice, Reply, WaitTimeout
  <1>2. CASE SubmitLookup(c) \/ SubmitReturn(c)
    BY <1>2 DEF SubmitLookup, SubmitReturn, Ledger!Offer, Ledger!Accept
  <1>3. CASE Execute(c) \/ Deliver(c)
    BY <1>3 DEF Execute, Deliver, Ledger!Answer
  <1>4. CASE ReceiveResult(c)
    BY <1>4 DEF ReceiveResult
  <1> QED
    BY <1>1, <1>2, <1>3, <1>4 DEF CommandStep, CallerStep

\* A step of a caller or of the engine keeps what the caller knows true.
LEMMA CommandAnswer ==
  ASSUME CommandsInv, NEW c \in Receipts, CommandStep(c)
  PROVE  AnswerInv'
  <1> USE DEF CallerGoto, Ledger!Move
  <1>0. /\ CommandsTypeOK /\ CallerInv /\ ResultInv /\ SlotInv /\ ReceiptInv
        /\ epc' = epc
    BY CommandFrame DEF CommandsInv, AnswerInv, vars, queueVars
  <1>1. CASE InvalidRequest(c) \/ InvalidMessage(c) \/ HasDevice(c) \/ Reply(c) \/ WaitTimeout(c)
    <2>1. /\ UNCHANGED <<ledger, result, slot>>
          /\ \E to \in {"turned down", "checked", "accepted", "failure", "gone", "pending"} :
               caller' = [caller EXCEPT ![c] = to]
      BY <1>1 DEF InvalidRequest, InvalidMessage, HasDevice, Reply, WaitTimeout
    <2>2. CallerInv'
      BY <1>0, <1>1, <2>1 DEF CommandsTypeOK, CallerInv, InvalidRequest, InvalidMessage, HasDevice, Reply, WaitTimeout
    <2>3. ResultInv' /\ ReceiptInv' /\ SlotInv'
      BY <1>0, <2>1 DEF CommandsTypeOK, ResultInv, ReceiptInv, SlotInv, Outcomes
    <2> QED
      BY <2>2, <2>3 DEF AnswerInv
  <1>2. CASE SubmitLookup(c) \/ SubmitReturn(c)
    <2> USE <1>2 DEF SubmitLookup, SubmitReturn, Ledger!Offer, Ledger!Accept
    <2>1. CallerInv'
      BY <1>0 DEF CommandsTypeOK, CallerInv
    <2>2. ResultInv' /\ ReceiptInv'
      BY <1>0 DEF CommandsTypeOK, CallerInv, ResultInv, ReceiptInv
    <2>3. SlotInv'
      BY <1>0 DEF CommandsTypeOK, SlotInv, Outcomes
    <2> QED
      BY <2>1, <2>2, <2>3 DEF AnswerInv
  <1>3. CASE ReceiveResult(c)
    <2> USE <1>3 DEF ReceiveResult
    <2>0. slot[c] \in Outcomes /\ slot[c] = result[c]
      BY <1>0 DEF CommandsTypeOK, SlotInv
    <2>1. CallerInv'
      BY <1>0, <2>0 DEF CommandsTypeOK, CallerInv, Outcomes
    <2>2. ResultInv' /\ ReceiptInv' /\ SlotInv'
      BY <1>0, <2>0 DEF CommandsTypeOK, ResultInv, ReceiptInv, SlotInv
    <2> QED
      BY <2>1, <2>2 DEF AnswerInv
  <1>4. CASE Execute(c)
    <2> USE <1>4 DEF Execute
    <2>1. CallerInv' /\ ResultInv' /\ ReceiptInv'
      BY <1>0 DEF CommandsTypeOK, CallerInv, ResultInv, ReceiptInv
    <2>2. SlotInv'
      <3>1. slot[c] = None /\ caller[c] \notin Outcomes
        BY <1>0 DEF SlotInv
      <3> QED
        BY <1>0, <3>1 DEF CommandsTypeOK, SlotInv
    <2> QED
      BY <2>1, <2>2 DEF AnswerInv
  <1>5. CASE Deliver(c)
    <2> USE <1>5 DEF Deliver, Ledger!Answer
    <2>1. CallerInv' /\ ResultInv' /\ ReceiptInv'
      BY <1>0 DEF CommandsTypeOK, CallerInv, ResultInv, ReceiptInv
    <2>2. SlotInv'
      BY <1>0 DEF CommandsTypeOK, SlotInv
    <2> QED
      BY <2>1, <2>2 DEF AnswerInv
  <1> QED
    BY <1>1, <1>2, <1>3, <1>4, <1>5 DEF CommandStep, CallerStep

\* A step of the queue keeps it: a receipt starts once its command is answered.
LEMMA QueueAnswer ==
  ASSUME CommandsInv, QueueStep \/ \E c \in Receipts : ReceiptEnqueue(c)
  PROVE  AnswerInv'
  <1>0. /\ AnswerInv /\ IInv /\ UNCHANGED cmdVars
        /\ epc \in [Events -> {"idle", "try", "evict", "put", "done", "refused"}]
    BY QueueFrame DEF CommandsInv, IInv, TypeOK
  <1>1. CallerInv' /\ ResultInv' /\ SlotInv'
    BY <1>0 DEF cmdVars, AnswerInv, CallerInv, ResultInv, SlotInv
  <1>2. ReceiptInv'
    <2>1. ASSUME NEW e \in Events, EnqueueLock(e) PROVE \A c \in Receipts \ {e} : epc'[c] = epc[c]
      BY <1>0, <2>1, QueueAssumption DEF EnqueueLock, Goto
    <2>2. CASE \E c \in Receipts : ReceiptEnqueue(c)
      BY <1>0, <2>1, <2>2, QueueAssumption DEF ReceiptEnqueue, AnswerInv, ReceiptInv, cmdVars
    <2>3. CASE \E e \in Events \ Receipts : EnqueueLock(e)
      BY <1>0, <2>1, <2>3 DEF AnswerInv, ReceiptInv, cmdVars
    <2>4. CASE \E e \in Events : Enqueue(e)
      <3>1. PICK e \in Events : Enqueue(e)
        BY <2>4
      <3>2. epc[e] # "idle" /\ \A c \in Events \ {e} : epc'[c] = epc[c]
        BY <1>0, <3>1 DEF Enqueue, EnqueueTry, EnqueueEvict, EnqueuePut, Goto
      <3> QED
        BY <1>0, <3>2, QueueAssumption DEF AnswerInv, ReceiptInv, cmdVars
    <2>5. CASE PublishLoop \/ Cancel \/ CloseLock \/ CloseEnd
      <3>1. epc' = epc
        BY <2>5 DEF PublishLoop, LoopDone, LoopReceive, LoopEnd, LoopPublish, Cancel, CloseLock, CloseEnd, queueVars
      <3> QED
        BY <1>0, <3>1 DEF AnswerInv, ReceiptInv, cmdVars
    <2> QED
      BY <2>2, <2>3, <2>4, <2>5 DEF QueueStep
  <1> QED
    BY <1>1, <1>2 DEF AnswerInv

\* Every step keeps the invariant.
LEMMA CommandsStepInv == CommandsInv /\ [CommandsNext]_commandsVars => CommandsInv'
  <1> SUFFICES ASSUME CommandsInv, [CommandsNext]_commandsVars PROVE CommandsInv'
    OBVIOUS
  <1>0. IInv' /\ TypeOK'
    BY QueueNext, StepInv DEF CommandsInv, IInv
  <1>1. CASE \E c \in Receipts : CommandStep(c)
    BY <1>0, <1>1, CommandType, CommandAnswer DEF CommandsInv
  <1>2. CASE QueueStep \/ \E c \in Receipts : ReceiptEnqueue(c)
    <2>1. CommandsTypeOK'
      BY <1>0, <1>2, QueueFrame DEF CommandsInv, CommandsTypeOK, cmdVars
    <2> QED
      BY <1>0, <1>2, <2>1, QueueAnswer DEF CommandsInv
  <1>3. CASE UNCHANGED commandsVars
    <2>1. CommandsTypeOK'
      BY <1>0, <1>3 DEF CommandsInv, CommandsTypeOK, commandsVars, cmdVars
    <2>2. AnswerInv'
      BY <1>3 DEF CommandsInv, AnswerInv, CallerInv, ResultInv, SlotInv, ReceiptInv,
         commandsVars, cmdVars, vars, queueVars
    <2> QED
      BY <1>0, <2>1, <2>2 DEF CommandsInv
  <1> QED
    BY <1>1, <1>2, <1>3 DEF CommandsNext, CommandStep

\* The invariant holds in every state.
THEOREM CommandsInvariance == CommandsSpec => []CommandsInv
  BY CommandsInitInv, CommandsStepInv, PTL DEF CommandsSpec

\* Every variable of the commands keeps its type.
THEOREM CommandsTypeCorrect == CommandsSpec => []CommandsTypeOK
  <1>1. CommandsInv => CommandsTypeOK
    BY DEF CommandsInv
  <1> QED
    BY <1>1, CommandsInvariance, PTL

\* What SetValue and handleCommand have told a caller stays true: a command that
\* was turned down is never executed, one that was accepted is with the engine,
\* and the result a caller waited for is its own.
THEOREM Answers == CommandsSpec => []AnswersTruthful
  <1>1. CommandsInv => AnswersTruthful
    <2> SUFFICES ASSUME CommandsInv, NEW c \in Receipts
                 PROVE  /\ caller[c] \in {"turned down", "failure"} =>
                             ledger[c] \in {"new", "rejected"} /\ result[c] = None /\ epc[c] = "idle"
                        /\ caller[c] \in {"accepted", "pending", "waiting"} => ledger[c] \in {"accepted", "answered"}
                        /\ caller[c] \in Outcomes => result[c] = caller[c]
      BY DEF AnswersTruthful
    <2> QED
      BY DEF CommandsInv, AnswerInv, CallerInv, ResultInv, SlotInv, ReceiptInv
  <1> QED
    BY <1>1, CommandsInvariance, PTL

\* The commands use the queue as its own specification says, so what was proved
\* of the queue holds of it here: it is safe to send on, and to the workers it is
\* a bounded queue that drops its oldest event.
THEOREM QueueOfCommands == CommandsSpec => []SendsSafe /\ ImplementsEventQueue
  <1>1. CommandsInit => Init
    BY DEF CommandsInit
  <1>2. CommandsSpec => Spec
    BY <1>1, QueueNext, PTL DEF CommandsSpec, Spec
  <1> QED
    BY <1>2, Sends, Implements, PTL
=============================================================================

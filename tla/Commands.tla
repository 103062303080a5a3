------------------------------ MODULE Commands ------------------------------
(***************************************************************************)
(* A write command from its caller to its receipt: the two ways in         *)
(* (api.SetValue in internal/api/realtime.go and Client.handleCommand in   *)
(* internal/natsclient/client.go), the engine as module CommandLedger      *)
(* promises it, and the two ways back (the ResultCh of a waiting HTTP      *)
(* caller and the event queue of the NATS client, module NatsQueue).       *)
(*                                                                         *)
(* The receipt of a command is an event with the name of the command.  The *)
(* other events are telemetry.  Workers run in parallel: no command waits  *)
(* for another one's execution here, which module Engine orders.           *)
(***************************************************************************)
EXTENDS NatsQueue

CONSTANTS
  Waiting       \* commands sent over HTTP with waitMs, the others do not wait

ASSUME CommandsAssumption == Waiting \subseteq Receipts

Outcomes == {"ok", "failed"}

VARIABLES
  ledger,       \* what the engine makes of a command
  result,       \* the WriteResult of its execution
  slot,         \* its ResultCh, a channel of capacity one
  caller        \* control point of its caller, in the end what it was told

cmdVars == <<ledger, result, slot, caller>>

Ledger == INSTANCE CommandLedger WITH Cmds <- Receipts, state <- ledger

CommandsInit ==
  /\ Init
  /\ ledger = [c \in Receipts |-> "new"]
  /\ result = [c \in Receipts |-> None]
  /\ slot = [c \in Receipts |-> None]
  /\ caller = [c \in Receipts |-> "idle"]

CallerGoto(c, from, to) == caller[c] = from /\ caller' = [caller EXCEPT ![c] = to]

-----------------------------------------------------------------------------
\* The way in: SetValue and handleCommand check the message, then the device,
\* then submit.

\* HTTP: no JSON, no channel, a negative one, no property, or no engine.
InvalidRequest(c) ==
  /\ CallerGoto(c, "idle", "turned down")
  /\ UNCHANGED <<vars, ledger, result, slot>>

\* NATS: no header, a header without an id, a type, a version or a timestamp,
\* another type of message, no JSON, no property, or a negative channel.
InvalidMessage(c) ==
  /\ c \notin Waiting
  /\ CallerGoto(c, "idle", "turned down")
  /\ UNCHANGED <<vars, ledger, result, slot>>

\* HasDevice: no running link, no such device, or one that is not valid.
HasDevice(c) ==
  /\ \/ CallerGoto(c, "idle", "turned down")
     \/ CallerGoto(c, "idle", "checked")
  /\ UNCHANGED <<vars, ledger, result, slot>>

\* Submit looks the worker up and offers it the command; a reload may have
\* taken the link away since HasDevice.
SubmitLookup(c) ==
  /\ caller[c] = "checked"
  /\ \/ Ledger!Offer(c) /\ UNCHANGED caller
     \/ Ledger!Move(c, "new", "rejected") /\ CallerGoto(c, "checked", "turned down")
  /\ UNCHANGED <<vars, result, slot>>

\* Mutant of SubmitReturn: the result of Submit is not looked at.
SubmitUnchecked(c) ==
  /\ caller[c] = "checked"
  /\ Ledger!Accept(c) \/ Ledger!Move(c, "offered", "rejected")
  /\ CallerGoto(c, "checked", IF c \in Waiting THEN "waiting" ELSE "taken")
  /\ UNCHANGED <<vars, result, slot>>

\* tryWrite puts it into the queue of the worker, or finds the queue full.
SubmitReturn(c) ==
  /\ \/ Ledger!Accept(c) /\ CallerGoto(c, "checked", IF c \in Waiting THEN "waiting" ELSE "taken")
     \/ Ledger!Move(c, "offered", "rejected") /\ CallerGoto(c, "checked", "turned down")
  /\ UNCHANGED <<vars, result, slot>>

\* The immediate answer: 202 or 503 over HTTP, respondAck over NATS, which
\* says nothing to a caller that gave no reply subject.
Reply(c) ==
  /\ \/ CallerGoto(c, "taken", "accepted")
     \/ CallerGoto(c, "turned down", "failure")
     \/ c \notin Waiting /\ CallerGoto(c, "taken", "gone")
     \/ c \notin Waiting /\ CallerGoto(c, "turned down", "gone")
  /\ UNCHANGED <<vars, ledger, result, slot>>

-----------------------------------------------------------------------------
\* The way back.

\* The worker has executed the command, or turned it down when it stopped.
Execute(c) ==
  /\ ledger[c] = "accepted"
  /\ result[c] = None
  /\ \E r \in Outcomes : result' = [result EXCEPT ![c] = r]
  /\ UNCHANGED <<vars, ledger, slot, caller>>

\* Mutant of Deliver: the result is handed to the caller, not left for it.
HandOver(c) ==
  /\ result[c] # None
  /\ c \in Waiting => caller[c] = "waiting"
  /\ Ledger!Answer(c)
  /\ slot' = IF c \in Waiting THEN [slot EXCEPT ![c] = result[c]] ELSE slot
  /\ UNCHANGED <<vars, result, caller>>

\* It offers the result to ResultCh: the send has room or is left out.
Deliver(c) ==
  /\ result[c] # None
  /\ Ledger!Answer(c)
  /\ slot' = IF c \in Waiting THEN [slot EXCEPT ![c] = result[c]] ELSE slot
  /\ UNCHANGED <<vars, result, caller>>

\* The waiting caller: the result, the timer or the end of the connection,
\* whichever the select takes.
ReceiveResult(c) ==
  /\ slot[c] # None
  /\ CallerGoto(c, "waiting", slot[c])
  /\ slot' = [slot EXCEPT ![c] = None]
  /\ UNCHANGED <<vars, ledger, result>>

WaitTimeout(c) ==
  /\ \/ CallerGoto(c, "waiting", "pending")
     \/ CallerGoto(c, "waiting", "gone")
  /\ UNCHANGED <<vars, ledger, result, slot>>

\* PublishWriteResult of the worker, once the result is delivered.
ReceiptEnqueue(c) ==
  /\ ledger[c] = "answered"
  /\ EnqueueLock(c)
  /\ UNCHANGED cmdVars

-----------------------------------------------------------------------------
CallerStep(c) == SubmitLookup(c) \/ SubmitReturn(c) \/ Reply(c) \/ ReceiveResult(c) \/ WaitTimeout(c)

QueueStep ==
  /\ \/ \E e \in Events \ Receipts : EnqueueLock(e)
     \/ \E e \in Events : Enqueue(e)
     \/ PublishLoop \/ Cancel \/ CloseLock \/ CloseEnd
  /\ UNCHANGED cmdVars

CommandsNext ==
  \/ \E c \in Receipts : \/ InvalidRequest(c) \/ InvalidMessage(c) \/ HasDevice(c) \/ CallerStep(c)
                         \/ Execute(c) \/ Deliver(c) \/ ReceiptEnqueue(c)
  \/ QueueStep

commandsVars == <<vars, cmdVars>>

\* Handlers go on, their timers fire, and a worker that has a result delivers
\* it and gets the mutex in the end (a Go mutex is handed to a waiter that
\* starves).  Nothing forces an accepted command to be executed: its worker may
\* have stopped (section 9 of the README).
CommandsFairness ==
  /\ \A c \in Receipts : /\ WF_commandsVars(CallerStep(c))
                         /\ WF_commandsVars(Deliver(c))
                         /\ SF_commandsVars(ReceiptEnqueue(c))
  /\ \A e \in Events : WF_commandsVars(Enqueue(e) /\ UNCHANGED cmdVars)
  /\ WF_commandsVars(PublishLoop /\ UNCHANGED cmdVars)
  /\ WF_commandsVars(CloseEnd /\ UNCHANGED cmdVars)

CommandsSpec == CommandsInit /\ [][CommandsNext]_commandsVars /\ CommandsFairness

-----------------------------------------------------------------------------
\* Properties.

CommandsTypeOK ==
  /\ TypeOK
  /\ ledger \in [Receipts -> Ledger!States]
  /\ result \in [Receipts -> Outcomes \cup {None}]
  /\ slot \in [Receipts -> Outcomes \cup {None}]
  /\ caller \in [Receipts ->
       {"idle", "checked", "taken", "turned down", "waiting", "accepted",
        "failure", "pending", "gone"} \cup Outcomes]

\* What a caller has been told is true whatever happens later: a command that
\* was turned down is never executed and has no receipt, so it is safe to send
\* again; "accepted" and "pending" mean that the engine has it or had it; and
\* a caller that waited is given the result of its own execution, the one its
\* receipt tells, even when it answers at the very moment the timer fires.
AnswersTruthful ==
  \A c \in Receipts :
    /\ caller[c] \in {"turned down", "failure"} =>
         ledger[c] \in {"new", "rejected"} /\ result[c] = None /\ epc[c] = "idle"
    /\ caller[c] \in {"accepted", "pending", "waiting"} => ledger[c] \in {"accepted", "answered"}
    /\ caller[c] \in Outcomes => result[c] = caller[c]

\* The receipt of an executed command is published (message-contract-design.md
\* section 2.2.3: "after the execution the gateway publishes cmdAck on .data"),
\* whether or not its caller still waits, unless newer events push it out of
\* the queue or the run ends.
ReceiptPublished ==
  \A c \in Receipts :
    result[c] # None ~> Published(c) \/ c \in evicted \/ ctxDone \/ eventsClosed

\* README section on the NATS subjects: the gateway replies "accepted" at once
\* and publishes the final result afterwards.  The receipt may be published
\* before handleCommand has replied: the code does not keep this order.
ReplyFirst == \A c \in Receipts : Published(c) => caller[c] # "taken"
=============================================================================

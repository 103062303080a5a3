------------------------------ MODULE Exchange ------------------------------
(***************************************************************************)
(* Requests and answers on one link: pollOne, execWrite and writeFrame with*)
(* their resends, receiveFrame with its frame timeout, the decoders of     *)
(* converter/modbus, and Driver.Refresh (internal/engine/worker.go,        *)
(* internal/engine/converter/modbus, internal/engine/connector).           *)
(*                                                                         *)
(* A command is one read or one write; a write may take several frames.    *)
(* Frames are numbered; a frame is an encoded request, sent up to Attempts *)
(* times.  Each device has a converter of its own, which numbers the frames*)
(* of that device alone, so that transaction ids of two slaves coincide; no*)
(* two devices of a link share a slave address.  A slave may answer late,  *)
(* answer several times or not at all, in any order; on a serial line an   *)
(* answer may arrive damaged.  Bytes are abstracted to the answers they    *)
(* belong to: Receive takes whole answers from the inbox, or all but the   *)
(* tail of the last one.                                                   *)
(***************************************************************************)
EXTENDS Naturals, Sequences, FiniteSets, SequencesExt

CONSTANTS
  Requests,     \* commands the worker may execute
  Fc,           \* Fc[r]: its function code
  Unit,         \* Unit[r]: the slave addressed
  Shape,        \* Shape[r]: what else a decoder compares in an answer: the
                \* quantity of a read, the address of a write
  Frames,       \* Frames[r]: frames of the command, 1 for a read
  Protocols,    \* protocols the link may be configured for: "tcp", "rtu"
  Attempts,     \* ResendRetries + 1
  MapMayFail,   \* may mapping the members of a read fail?
  MayBreak,     \* may the connection break?
  MaxFrames,    \* bound: frames sent in a behaviour
  WireCap       \* bound: requests the slaves have not answered

ASSUME ExchangeAssumption ==
  /\ Fc \in [Requests -> {1, 2, 3, 4, 5, 6, 15, 16}]
  /\ Frames \in [Requests -> Nat \ {0}]
  /\ \A r \in Requests : Fc[r] <= 4 => Frames[r] = 1
  /\ DOMAIN Unit = Requests /\ DOMAIN Shape = Requests
  /\ Protocols \subseteq {"tcp", "rtu"} /\ Protocols # {}
  /\ MapMayFail \in BOOLEAN /\ MayBreak \in BOOLEAN
  /\ Attempts \in Nat \ {0} /\ MaxFrames \in Nat /\ WireCap \in Nat

\* The transaction id has 16 bits.
TidModulus == 2^16

\* The slaves of the link.
Units == {Unit[r] : r \in Requests}

IsRead(r)   == Fc[r] <= 4
IsSingle(r) == Fc[r] \in {5, 6}

VARIABLES
  pc,           \* "idle", "send", "await", "down" or "stopped"
  req,          \* the command being executed
  frame,        \* number of the last frame encoded
  encoded,      \* encoded[u]: frames encoded for slave u, its converter's
                \* counter of transaction ids
  tid,          \* transaction id of the last frame; 0 on RTU
  attempt,      \* attempts made with it
  buf,          \* receiveFrame has kept bytes of no use
  applied,      \* WriteResult.Applied
  outcome,      \* of the last command: "none", "ok", "failed", "cut"
  counted       \* calls of monitor.complete for the last frame

workerVars == <<pc, req, frame, encoded, tid, attempt, buf, applied, outcome, counted>>

VARIABLES
  protocol,     \* Modbus TCP or RTU; configured, it never changes
  broken,       \* the connection is gone
  wire,         \* requests the slaves may still answer
  inbox         \* answers the driver has not read yet

lineVars == <<broken, wire, inbox>>

Tcp == protocol = "tcp"

VARIABLES
  first,        \* history: number of the command's first frame
  executed,     \* history: frames a slave has carried out
  taken,        \* history: the answer that ended the last frame well
  heard         \* history: a good answer to this very frame was decoded

historyVars == <<first, executed, taken, heard>>

vars == <<protocol, workerVars, lineVars, historyVars>>

\* No answer has been taken.
NoAnswer == [frame |-> 0]

Init ==
  /\ pc = "idle"
  /\ req \in Requests
  /\ frame = 0 /\ tid = 0 /\ attempt = 0
  /\ encoded = [u \in Units |-> 0]
  /\ buf = FALSE
  /\ applied = 0
  /\ outcome = "none"
  /\ counted = 0
  /\ protocol \in Protocols
  /\ broken = FALSE
  /\ wire = << >> /\ inbox = << >>
  /\ first = 0
  /\ executed = {}
  /\ taken = NoAnswer
  /\ heard = FALSE

-----------------------------------------------------------------------------
\* The decoders.

\* Mutant of UnitFits: the transaction id is thought to be enough.
AnyUnit(a) == Tcp \/ Unit[a.req] = Unit[req]

\* tcpExtractPDU and rtuExtractPDU compare the slave address.
UnitFits(a) == Unit[a.req] = Unit[req]

\* tcpExtractPDU compares the transaction id; RTU has none.
TidFits(a) == ~Tcp \/ a.tid = tid

\* What DecodeRead and DecodeWrite may say of the bytes that start with answer
\* a: "ok", "short" (wait for more), "resync" (IsFrameResetError), "transient"
\* or "permanent" (exception codes).  On RTU the answer to FC05 and FC06 is
\* taken to be 6 bytes long; it has 8, so its checksum never fits.  An answer
\* of another length is short or has the wrong checksum.
Decode(a) ==
  LET sameFc    == Fc[a.req] = Fc[req]
      exception == a.kind \in {"transient", "permanent"}
  IN IF a.kind = "damaged" THEN {"short", "resync"}
     ELSE IF ~TidFits(a) \/ ~UnitFits(a) THEN {"resync"}
     ELSE IF exception /\ (Tcp \/ sameFc) THEN {a.kind}
     ELSE IF exception \/ ~sameFc \/ Shape[a.req] # Shape[req] THEN {"short", "resync"}
     ELSE IF ~Tcp /\ IsSingle(req) THEN {"resync"}
     ELSE {"ok"}

-----------------------------------------------------------------------------
\* The worker.

\* Mutant of Encode: the transaction id never changes.
EncodeNoTid(r) ==
  /\ frame' = frame + 1
  /\ encoded' = [encoded EXCEPT ![Unit[r]] = @ + 1]
  /\ tid' = IF Tcp THEN 1 ELSE 0
  /\ attempt' = 0
  /\ counted' = 0
  /\ taken' = NoAnswer /\ heard' = FALSE

\* Encode the next frame of r: one transaction id for all its attempts, the
\* next one of the device's converter.
Encode(r) ==
  /\ frame' = frame + 1
  /\ encoded' = [encoded EXCEPT ![Unit[r]] = @ + 1]
  /\ tid' = IF Tcp THEN encoded'[Unit[r]] % TidModulus ELSE 0
  /\ attempt' = 0
  /\ counted' = 0
  /\ taken' = NoAnswer /\ heard' = FALSE

Start(r) ==
  /\ pc = "idle"
  /\ outcome # "next"
  /\ frame + Frames[r] <= MaxFrames
  /\ req' = r
  /\ pc' = "send"
  /\ outcome' = "none"
  /\ applied' = 0
  /\ first' = frame + 1
  /\ Encode(r)
  /\ UNCHANGED <<buf, lineVars, executed>>

\* The frame has failed: complete() counts it, once.
Fail(times) ==
  /\ counted' = counted + times
  /\ outcome' = "failed"

\* The request as it goes out; nth is history, its number among its slave's.
Message(id) == [frame |-> frame, nth |-> encoded[Unit[req]], req |-> req, tid |-> id]

\* Mutant of Send: every attempt has a transaction id of its own.
SendRenumbered ==
  /\ pc = "send"
  /\ ~broken
  /\ pc' = "await"
  /\ attempt' = attempt + 1
  /\ buf' = FALSE
  /\ tid' = IF Tcp THEN tid + 1 ELSE 0
  /\ wire' = IF Len(wire) < WireCap
             THEN Append(wire, Message(tid')) ELSE wire
  /\ UNCHANGED <<req, frame, encoded, applied, outcome, counted, broken, inbox, historyVars>>

\* One attempt: the bytes go out.
Send ==
  /\ pc = "send"
  /\ ~broken
  /\ pc' = "await"
  /\ attempt' = attempt + 1
  /\ buf' = FALSE
  /\ wire' = IF Len(wire) < WireCap
             THEN Append(wire, Message(tid)) ELSE wire
  /\ UNCHANGED <<req, frame, encoded, tid, applied, outcome, counted, broken, inbox, historyVars>>

\* The driver reports ErrPortClosed.  A read ends collectLoop.  A write does
\* not - its error has become text - and its frame goes uncounted if it broke
\* on sending.
SendBroken ==
  /\ pc = "send"
  /\ broken
  /\ pc' = IF IsRead(req) THEN "down" ELSE "idle"
  /\ attempt' = attempt + 1
  /\ Fail(IF IsRead(req) THEN 1 ELSE 0)
  /\ UNCHANGED <<req, frame, encoded, tid, buf, applied, lineVars, historyVars>>

ReceiveBroken ==
  /\ pc = "await"
  /\ broken
  /\ pc' = IF IsRead(req) THEN "down" ELSE "idle"
  /\ Fail(1)
  /\ UNCHANGED <<req, frame, encoded, tid, attempt, buf, applied, lineVars, historyVars>>

\* Resend, or give the frame up.
Again(made) ==
  IF made < Attempts
  THEN pc' = "send" /\ UNCHANGED <<counted, outcome>>
  ELSE pc' = "idle" /\ Fail(1)

\* Send failed for another reason than a broken connection.
SendFailed ==
  /\ pc = "send"
  /\ attempt' = attempt + 1
  /\ Again(attempt + 1)
  /\ UNCHANGED <<req, frame, encoded, tid, buf, applied, lineVars, historyVars>>

\* The frame was answered well.  A read stores its members, and every member
\* that cannot be mapped is counted as a failed request of its own.  After each
\* frame of several, the last one too, execWrite sleeps for the frame gap, and a
\* stop meanwhile makes the command a failed one.
Succeed ==
  /\ applied' = applied + 1
  /\ \E unmapped \in IF MapMayFail /\ IsRead(req) THEN {0, 1} ELSE {0} :
       counted' = counted + 1 + unmapped
  /\ \/ /\ pc' = "idle"
        /\ outcome' = IF applied' = Frames[req] THEN "ok" ELSE "next"
     \/ /\ Frames[req] > 1
        /\ pc' = "stopped"
        /\ outcome' = "cut"

\* execWrite goes on with the next frame of the command.
NextFrame ==
  /\ pc = "idle"
  /\ outcome = "next"
  /\ pc' = "send"
  /\ outcome' = "none"
  /\ Encode(req)
  /\ UNCHANGED <<req, buf, applied, lineVars, first, executed>>

\* Receive returns the first k answers in the inbox, the last one perhaps
\* without its tail; decode looks at the first and the rest is dropped with
\* the buffer.
Chunk(k) ==
  \/ inbox' = SubSeq(inbox, k + 1, Len(inbox))
  \/ /\ k > 1
     /\ inbox' = <<[inbox[k] EXCEPT !.kind = "damaged"]>> \o SubSeq(inbox, k + 1, Len(inbox))

\* Bytes that are kept, followed by anything, are no frame.
Verdicts == IF buf THEN {"short", "resync"} ELSE Decode(Head(inbox))

\* Receive and decode.  A bad frame empties the driver's buffer (Refresh, whose
\* own failure is left to the next Send); an exception code or a frame that is
\* merely late does not.
Receive ==
  /\ pc = "await"
  /\ ~broken
  /\ inbox # << >>
  /\ heard' = (heard \/ (Head(inbox).frame = frame /\ Head(inbox).kind = "ok" /\ ~buf))
  /\ \E k \in 1 .. Len(inbox), v \in Verdicts :
       /\ IF v = "resync" THEN inbox' = << >> ELSE Chunk(k)  \* Driver.Refresh
       /\ buf' = (v = "short")
       /\ taken' = IF v = "ok" THEN Head(inbox) ELSE taken
       /\ CASE v = "ok" -> Succeed
            [] v = "short" -> UNCHANGED <<pc, applied, outcome, counted>>
            [] v = "permanent" -> pc' = "idle" /\ Fail(1) /\ UNCHANGED applied
            [] OTHER -> Again(attempt) /\ UNCHANGED applied
  /\ UNCHANGED <<req, frame, encoded, tid, attempt, broken, wire, first, executed>>

\* Mutant of FrameTimeout: it only runs while nothing has been received.
SilenceTimeout ==
  /\ pc = "await"
  /\ ~broken
  /\ ~buf
  /\ Again(attempt)
  /\ UNCHANGED <<req, frame, encoded, tid, attempt, buf, applied, lineVars, historyVars>>

\* The frame timeout passes.  Nothing is cleared: what arrives later is read
\* as the answer to whatever is sent next.
FrameTimeout ==
  /\ pc = "await"
  /\ ~broken
  /\ Again(attempt)
  /\ buf' = FALSE
  /\ UNCHANGED <<req, frame, encoded, tid, attempt, applied, lineVars, historyVars>>

\* The worker is stopped within a command.  It looks before each attempt and in
\* the frame gap after it, and the frame goes uncounted; and each time before it
\* receives, where a stop counts as the end of the attempt: in the last one the
\* frame is counted.
CancelledSending ==
  /\ pc = "send"
  /\ UNCHANGED counted

CancelledWaiting ==
  /\ pc = "await"
  /\ counted' = counted \/ (attempt = Attempts /\ counted' = counted + 1)

Cancelled ==
  /\ CancelledSending \/ CancelledWaiting
  /\ pc' = "stopped"
  /\ outcome' = "cut"
  /\ UNCHANGED <<req, frame, encoded, tid, attempt, buf, applied, lineVars, historyVars>>

-----------------------------------------------------------------------------
\* The line and the slaves.

Kinds == {"ok", "transient", "permanent"} \cup (IF Tcp THEN {} ELSE {"damaged"})

\* A slave carries out or rejects a request, and its answer arrives.
Answer(i) ==
  /\ wire' = RemoveAt(wire, i)
  /\ \E kind \in Kinds :
       /\ executed' = IF kind \in {"ok", "damaged"}
                       THEN executed \cup {wire[i].frame} ELSE executed
       /\ inbox' = Append(inbox, [frame |-> wire[i].frame, nth |-> wire[i].nth, req |-> wire[i].req,
                                  tid |-> wire[i].tid, kind |-> kind])
  /\ UNCHANGED <<workerVars, broken, first, taken, heard>>

\* The request or its answer is lost.
Lose(i) ==
  /\ \E done \in BOOLEAN :
       executed' = IF done THEN executed \cup {wire[i].frame} ELSE executed
  /\ wire' = RemoveAt(wire, i)
  /\ UNCHANGED <<workerVars, broken, inbox, first, taken, heard>>

Break ==
  /\ MayBreak
  /\ ~broken
  /\ broken' = TRUE
  /\ UNCHANGED <<workerVars, wire, inbox, historyVars>>

\* run opens the link anew: a new connection carries nothing of the old one,
\* while the slaves of a serial line may still be about to answer.
Reconnect ==
  /\ pc = "down"
  /\ pc' = "idle"
  /\ broken' = FALSE
  /\ inbox' = << >>
  /\ wire' = IF Tcp THEN << >> ELSE wire
  /\ UNCHANGED <<req, frame, encoded, tid, attempt, buf, applied, outcome, counted, historyVars>>

-----------------------------------------------------------------------------
WorkerStep ==
  /\ \/ Send \/ SendFailed \/ SendBroken \/ ReceiveBroken
     \/ NextFrame \/ Receive \/ FrameTimeout
  /\ UNCHANGED protocol

Outside ==
  /\ \/ \E r \in Requests : Start(r)
     \/ Cancelled \/ Reconnect \/ Break
     \/ \E i \in DOMAIN wire : Answer(i) \/ Lose(i)
  /\ UNCHANGED protocol

Next == WorkerStep \/ Outside

Spec == Init /\ [][Next]_vars

\* The worker's waits all have deadlines.
FairSpec == Spec /\ WF_vars(WorkerStep)

-----------------------------------------------------------------------------
\* Properties.

Verdict == {"none", "next", "ok", "failed", "cut"}

TypeOK ==
  /\ pc \in {"idle", "send", "await", "down", "stopped"}
  /\ req \in Requests
  /\ frame \in 0 .. MaxFrames
  /\ encoded \in [Units -> 0 .. MaxFrames]
  /\ tid \in 0 .. TidModulus - 1
  /\ attempt \in 0 .. Attempts
  /\ buf \in BOOLEAN
  /\ applied \in Nat
  /\ outcome \in Verdict
  /\ counted \in 0 .. 2
  /\ broken \in BOOLEAN
  /\ Len(wire) <= WireCap
  /\ executed \subseteq 1 .. MaxFrames
  /\ taken = NoAnswer \/ taken.frame \in 1 .. MaxFrames
  /\ heard \in BOOLEAN

\* The value stored for a group and the success of a write frame come from the
\* answer to that very frame, however late, often or out of order the slaves
\* answer.  Modbus TCP owes this to the transaction id, which tells the frames
\* of one slave apart, and to the slave address, which tells apart the slaves
\* whose converters have come to the same id; on RTU nothing tells two answers
\* of one slave and shape apart.
OwnAnswer == Tcp /\ taken # NoAnswer => taken.frame = frame

\* The same of RTU.  The code does not keep this.
AlwaysOwnAnswer == taken # NoAnswer => taken.frame = frame

\* A receipt says what the device has done: success means that the device has
\* carried out every frame of the command, and the frames reported as applied
\* before a failure were carried out.
ReceiptTruthful ==
  Tcp =>
    /\ outcome = "ok" => first .. frame \subseteq executed
    /\ first # 0 => applied <= Cardinality(executed \cap first .. frame)

\* An answer that arrives undamaged and is the next thing decoded ends its
\* frame well: a late answer to an earlier attempt counts as well.  Writes of
\* one register on RTU are left to SingleWriteAccepted.
GoodAnswerAccepted == heard /\ (Tcp \/ ~IsSingle(req)) => taken.frame = frame

\* pdu.go, the decoder of write answers: the normal answers to single and to
\* multiple writes are both accepted.  On RTU the code does not keep this.
SingleWriteAccepted == heard /\ IsSingle(req) => taken.frame = frame

\* Every command ends.
CommandEnds ==
  pc \in {"send", "await"} ~>
    \/ pc \in {"down", "stopped"}
    \/ pc = "idle" /\ outcome # "next"

\* monitor.go, CommunicationStats: a request is counted once, with its final
\* outcome.
CountedOnce == outcome \in {"ok", "failed"} => counted = 1
=============================================================================

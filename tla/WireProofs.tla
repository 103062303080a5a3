----------------------------- MODULE WireProofs -----------------------------
(***************************************************************************)
(* Proofs about what the worker of a link exchanges with its devices.      *)
(*                                                                         *)
(* Module Exchange, for any commands, any number of frames and attempts,   *)
(* and slaves that answer late, often, damaged or never: the invariant     *)
(* says of every request and answer on its way which frame it belongs to,  *)
(* and how far the command has come.                                       *)
(*                                                                         *)
(* Module DeviceAccess, for any device model and limits: the invariant     *)
(* says that a plan reads every property once with legal requests, that    *)
(* what was read is the value of the property's own registers as long as   *)
(* none of them is written, and that what was written, frame by frame, is  *)
(* what those registers hold.                                              *)
(***************************************************************************)
EXTENDS Exchange, DeviceAccess, FiniteSetTheorems, SequenceTheorems, WellFoundedInduction, TLAPS

Busy == {"send", "await"}

\* Requests as they were sent: none is newer than the last one encoded for its
\* slave, the one that is as new belongs to the current frame, and on TCP the
\* transaction id is the number among the frames of the slave.
SentRequests ==
  {m \in [frame : 1 .. MaxFrames, nth : Nat, req : Requests, tid : 0 .. TidModulus - 1] :
     /\ m.frame <= frame
     /\ m.nth <= encoded[Unit[m.req]]
     /\ m.frame = frame => m.req = req /\ m.nth = encoded[Unit[req]]
     /\ Unit[m.req] = Unit[req] /\ m.nth = encoded[Unit[req]] => m.frame = frame
     /\ Tcp => m.tid = m.nth % TidModulus}

\* Answers carry what their request carried; a good one comes from a slave that
\* has carried the frame out.
SentAnswers ==
  {a \in [frame : 1 .. MaxFrames, nth : Nat, req : Requests, tid : 0 .. TidModulus - 1,
          kind : {"ok", "transient", "permanent", "damaged"}] :
     /\ a.frame <= frame
     /\ a.nth <= encoded[Unit[a.req]]
     /\ a.frame = frame => a.req = req /\ a.nth = encoded[Unit[req]]
     /\ Unit[a.req] = Unit[req] /\ a.nth = encoded[Unit[req]] => a.frame = frame
     /\ Tcp => a.tid = a.nth % TidModulus
     /\ a.kind = "ok" => a.frame \in executed}

LineInv ==
  /\ wire \in Seq(SentRequests)
  /\ inbox \in Seq(SentAnswers)
  /\ Tcp => tid = encoded[Unit[req]] % TidModulus

\* While a frame is under way nothing has been said of it yet, and its command
\* has room for the frames that are left.
CommandInv ==
  /\ pc \in Busy => outcome = "none" /\ counted = 0 /\ taken = NoAnswer /\ first # 0
  /\ pc = "send" => attempt < Attempts
  /\ outcome = "next" => pc = "idle" /\ applied < Frames[req]
  /\ outcome = "ok" => applied = Frames[req]
  /\ first # 0 => first + Frames[req] <= MaxFrames + 1
  /\ applied <= Frames[req]
  /\ pc \in Busy => applied < Frames[req]

\* The frames of a command that are applied are its first ones, and the frame
\* under way is the next one; no slave has more of them than there are.
ProgressInv ==
  /\ \A u \in Units : encoded[u] <= frame
  /\ first \in 0 .. MaxFrames
  /\ first = 0 => applied = 0 /\ outcome = "none"
  /\ first + applied <= frame + 1
  /\ pc \in Busy => first + applied = frame
  /\ outcome \in {"next", "ok"} => first + applied = frame + 1

\* The answer taken was sent, comes from the slave of the frame and on TCP has
\* the frame's transaction id.
TakenInv ==
  taken # NoAnswer =>
    taken \in SentAnswers /\ Unit[taken.req] = Unit[req] /\ (Tcp => taken.tid = tid)

\* A good answer that was heard has ended its frame.
HeardInv ==
  heard /\ (Tcp \/ ~IsSingle(req)) => taken.frame = frame /\ pc \notin Busy

StateInv == TypeOK /\ CommandInv /\ ProgressInv /\ TakenInv /\ HeardInv

IInv == StateInv /\ LineInv

-----------------------------------------------------------------------------
\* Sequences of messages.

\* A sequence over a set is one over a larger set.
LEMMA SeqOfMore ==
  ASSUME NEW S, NEW T, S \subseteq T, NEW q \in Seq(S)
  PROVE  q \in Seq(T)
  OBVIOUS

\* Two sequences over a set make one over it.
LEMMA ConcatType ==
  ASSUME NEW S, NEW a \in Seq(S), NEW b \in Seq(S)
  PROVE  a \o b \in Seq(S) /\ Len(a \o b) = Len(a) + Len(b)
  OBVIOUS

\* A sequence is over the same set when one element is removed.
LEMMA RemoveAtType ==
  ASSUME NEW S, NEW q \in Seq(S), NEW i \in 1 .. Len(q)
  PROVE  RemoveAt(q, i) \in Seq(S) /\ Len(RemoveAt(q, i)) = Len(q) - 1
<1>1. /\ SubSeq(q, 1, i - 1) \in Seq(S) /\ Len(SubSeq(q, 1, i - 1)) = i - 1
      /\ SubSeq(q, i + 1, Len(q)) \in Seq(S) /\ Len(SubSeq(q, i + 1, Len(q))) = Len(q) - i
  OBVIOUS
<1> DEFINE a == SubSeq(q, 1, i - 1)
           b == SubSeq(q, i + 1, Len(q))
<1>2. RemoveAt(q, i) = a \o b
  BY DEF RemoveAt
<1> HIDE DEF a, b
<1>3. a \in Seq(S) /\ b \in Seq(S) /\ Len(a) = i - 1 /\ Len(b) = Len(q) - i
  BY <1>1 DEF a, b
<1>4. a \o b \in Seq(S) /\ Len(a \o b) = Len(a) + Len(b)
  BY <1>3, ConcatType
<1> QED BY <1>2, <1>3, <1>4

-----------------------------------------------------------------------------
\* Requests and answers.

\* A new frame makes all that was sent before it old.
LEMMA EncodeLine ==
  ASSUME TypeOK, LineInv, NEW r \in Requests, Encode(r), req' = r, encoded[Unit[r]] <= frame,
         UNCHANGED <<wire, inbox, executed, protocol>>
  PROVE  LineInv'
<1>1. Unit[r] \in Units /\ encoded \in [Units -> 0 .. MaxFrames] /\ MaxFrames \in Nat
      /\ \A q \in Requests : Unit[q] \in Units
  BY ExchangeAssumption DEF TypeOK, Units
<1>2. /\ frame' = frame + 1 /\ frame \in Nat
      /\ encoded'[Unit[r]] = encoded[Unit[r]] + 1 /\ encoded[Unit[r]] \in Nat
      /\ \A u \in Units : encoded[u] \in Nat /\ encoded'[u] \in Nat /\ encoded[u] <= encoded'[u]
  BY <1>1 DEF Encode, TypeOK
<1>3. ASSUME NEW m, m.frame \in Nat, m.nth \in Nat, m.req \in Requests,
             m.frame <= frame, m.nth <= encoded[Unit[m.req]]
      PROVE  /\ m.frame <= frame' /\ m.frame # frame'
             /\ m.nth <= encoded'[Unit[m.req]]
             /\ Unit[m.req] = Unit[r] => m.nth # encoded'[Unit[r]]
  <2>1. PICK u \in Units : u = Unit[m.req]
    BY <1>1, <1>3
  <2>2. encoded[u] \in Nat /\ encoded'[u] \in Nat /\ encoded[u] <= encoded'[u] /\ m.nth <= encoded[u]
    BY <1>2, <1>3, <2>1
  <2>3. m.nth <= encoded'[u]
    BY <1>3, <2>2
  <2>4. u = Unit[r] => m.nth # encoded'[u]
    BY <1>2, <1>3, <2>2
  <2> QED BY <1>2, <1>3, <2>1, <2>3, <2>4
<1>4. SentRequests \subseteq SentRequests'
  <2> SUFFICES ASSUME NEW m \in SentRequests PROVE m \in SentRequests'
    OBVIOUS
  <2>1. m.frame \in Nat
    BY DEF SentRequests
  <2> QED BY <1>3, <2>1 DEF SentRequests, Tcp
<1>5. SentAnswers \subseteq SentAnswers'
  <2> SUFFICES ASSUME NEW m \in SentAnswers PROVE m \in SentAnswers'
    OBVIOUS
  <2>1. m.frame \in Nat
    BY DEF SentAnswers
  <2> QED BY <1>3, <2>1 DEF SentAnswers, Tcp
<1>6. wire' \in Seq(SentRequests') /\ inbox' \in Seq(SentAnswers')
  BY <1>4, <1>5, SeqOfMore DEF LineInv
<1> QED BY <1>6 DEF LineInv, Encode, Tcp

\* While frame, command and what was executed stay, so do the messages that fit.
LEMMA SameLine ==
  ASSUME UNCHANGED <<frame, encoded, req, protocol>>, executed \subseteq executed'
  PROVE  SentRequests' = SentRequests /\ SentAnswers \subseteq SentAnswers'
  BY DEF SentRequests, SentAnswers, Tcp

\* The steps that leave the line alone keep what is on it.
LEMMA WorkerLine ==
  ASSUME TypeOK, LineInv, UNCHANGED <<frame, encoded, tid, req, protocol, executed>>,
         wire' \in Seq(SentRequests), inbox' \in Seq(SentAnswers)
  PROVE  LineInv'
  BY SameLine, SeqOfMore DEF LineInv, Tcp

\* What is sent is the request of the current frame.
LEMMA SendLine ==
  ASSUME TypeOK, LineInv, CommandInv, ProgressInv, Send, UNCHANGED protocol
  PROVE  LineInv' /\ Len(wire') <= WireCap
<1>1. Message(tid) \in SentRequests
  <2>1. Unit[req] \in Units /\ encoded[Unit[req]] \in Nat
    BY ExchangeAssumption DEF TypeOK, Units
  <2> QED BY <2>1 DEF Message, SentRequests, TypeOK, Send, CommandInv, ProgressInv, Busy, LineInv
<1>2. wire' \in Seq(SentRequests) /\ Len(wire') <= WireCap
  BY <1>1, ExchangeAssumption DEF Send, LineInv, TypeOK
<1> QED BY <1>2, WorkerLine DEF Send, LineInv, historyVars

\* A part of the line holds answers of the line.
LEMMA ChunkType ==
  ASSUME LineInv, NEW k \in 1 .. Len(inbox), Chunk(k)
  PROVE  inbox' \in Seq(SentAnswers)
<1>1. SubSeq(inbox, k + 1, Len(inbox)) \in Seq(SentAnswers)
  BY DEF LineInv
<1>2. inbox[k] \in SentAnswers
  BY DEF LineInv
<1>3. [inbox[k] EXCEPT !.kind = "damaged"] \in SentAnswers
  BY <1>2 DEF SentAnswers
<1>4. <<[inbox[k] EXCEPT !.kind = "damaged"]>> \in Seq(SentAnswers)
  BY <1>3
<1>5. <<[inbox[k] EXCEPT !.kind = "damaged"]>> \o SubSeq(inbox, k + 1, Len(inbox)) \in Seq(SentAnswers)
  BY <1>1, <1>4, ConcatType, Zenon
<1> QED BY <1>1, <1>5, Zenon DEF Chunk

\* Receiving takes answers off the line and adds none.
LEMMA ReceiveLine ==
  ASSUME TypeOK, LineInv, Receive, UNCHANGED protocol
  PROVE  LineInv'
<1>1. PICK k \in 1 .. Len(inbox) : inbox' = << >> \/ Chunk(k)
  BY DEF Receive
<1>2. inbox' \in Seq(SentAnswers)
  <2>1. CASE inbox' = << >>
    BY <2>1
  <2>2. CASE Chunk(k)
    BY <2>2, ChunkType
  <2> QED BY <1>1, <2>1, <2>2
<1> QED BY <1>2, WorkerLine DEF Receive, LineInv

\* What the device answers carries the request it answers.
LEMMA AnswerLine ==
  ASSUME TypeOK, LineInv, NEW i \in DOMAIN wire, Answer(i), UNCHANGED protocol
  PROVE  LineInv' /\ Len(wire') <= WireCap /\ executed \subseteq executed' /\ executed' \subseteq 1 .. MaxFrames
<1>1. i \in 1 .. Len(wire) /\ wire[i] \in SentRequests
  BY DEF LineInv
<1>2. wire' \in Seq(SentRequests) /\ Len(wire') = Len(wire) - 1
  BY <1>1, RemoveAtType DEF Answer, LineInv
<1>3. PICK kind \in Kinds :
        /\ executed' = IF kind \in {"ok", "damaged"} THEN executed \cup {wire[i].frame} ELSE executed
        /\ inbox' = Append(inbox, [frame |-> wire[i].frame, nth |-> wire[i].nth, req |-> wire[i].req,
                                   tid |-> wire[i].tid, kind |-> kind])
  BY DEF Answer
<1>4. executed \subseteq executed' /\ executed' \subseteq 1 .. MaxFrames
  BY <1>1, <1>3 DEF SentRequests, TypeOK
<1>5. UNCHANGED <<frame, encoded, req, tid, protocol>>
  BY DEF Answer, workerVars
<1>6. [frame |-> wire[i].frame, nth |-> wire[i].nth, req |-> wire[i].req,
       tid |-> wire[i].tid, kind |-> kind] \in SentAnswers'
  BY <1>1, <1>3, <1>5 DEF SentRequests, SentAnswers, Kinds, Tcp
<1>7. inbox \in Seq(SentAnswers')
  BY <1>4, <1>5, SameLine, SeqOfMore DEF LineInv
<1>8. inbox' \in Seq(SentAnswers')
  BY <1>3, <1>6, <1>7
<1>9. wire' \in Seq(SentRequests')
  BY <1>2, <1>4, <1>5, SameLine
<1>10. Len(wire') <= WireCap
  BY <1>1, <1>2, ExchangeAssumption DEF TypeOK
<1> QED BY <1>4, <1>5, <1>8, <1>9, <1>10 DEF LineInv, Tcp

\* A request or answer that is lost adds none.
LEMMA LoseLine ==
  ASSUME TypeOK, LineInv, NEW i \in DOMAIN wire, Lose(i), UNCHANGED protocol
  PROVE  LineInv' /\ Len(wire') <= WireCap /\ executed \subseteq executed' /\ executed' \subseteq 1 .. MaxFrames
<1>1. i \in 1 .. Len(wire) /\ wire[i] \in SentRequests
  BY DEF LineInv
<1>2. wire' \in Seq(SentRequests) /\ Len(wire') = Len(wire) - 1
  BY <1>1, RemoveAtType DEF Lose, LineInv
<1>3. executed \subseteq executed' /\ executed' \subseteq 1 .. MaxFrames
  BY <1>1 DEF SentRequests, TypeOK, Lose
<1>4. UNCHANGED <<frame, encoded, req, tid, protocol, inbox>>
  BY DEF Lose, workerVars
<1>5. wire' \in Seq(SentRequests') /\ inbox' \in Seq(SentAnswers')
  BY <1>2, <1>3, <1>4, SameLine, SeqOfMore DEF LineInv
<1>6. Len(wire') <= WireCap
  BY <1>1, <1>2, ExchangeAssumption DEF TypeOK
<1> QED BY <1>3, <1>4, <1>5, <1>6 DEF LineInv, Tcp

-----------------------------------------------------------------------------
\* The decoders.

\* What is accepted is a good answer of the slave asked and, on TCP, one with
\* this transaction id.
LEMMA DecodeOk ==
  ASSUME NEW a \in SentAnswers, "ok" \in Decode(a)
  PROVE  a.kind = "ok" /\ Unit[a.req] = Unit[req] /\ (Tcp => a.tid = tid)
  BY DEF Decode, SentAnswers, TidFits, UnitFits

\* The good answer to the frame is accepted, but for a write of one register or
\* coil on RTU.
LEMMA DecodeGood ==
  ASSUME NEW a, a.kind = "ok", a.req = req, Tcp => a.tid = tid, Tcp \/ ~IsSingle(req)
  PROVE  Decode(a) = {"ok"}
  BY DEF Decode, TidFits, UnitFits

\* The first answer on the line is one that was sent.
LEMMA HeadAnswer ==
  ASSUME LineInv, inbox # << >>
  PROVE  Head(inbox) \in SentAnswers
  BY DEF LineInv

-----------------------------------------------------------------------------
\* The worker.

\* The invariant holds before the first frame.
LEMMA StateInit == Init => IInv
<1> SUFFICES ASSUME Init PROVE IInv
  OBVIOUS
<1> USE ExchangeAssumption DEF Init, Busy
<1>1. TypeOK
  <2>1. /\ frame \in 0 .. MaxFrames /\ attempt \in 0 .. Attempts /\ Len(wire) <= WireCap
        /\ taken = NoAnswer /\ applied \in Nat /\ counted \in 0 .. 2
        /\ encoded \in [Units -> 0 .. MaxFrames]
    OBVIOUS
  <2>2. tid \in 0 .. TidModulus - 1
    BY DEF TidModulus
  <2> QED BY <2>1, <2>2 DEF TypeOK, Verdict
<1>2. CommandInv
  BY DEF CommandInv
<1>3. ProgressInv /\ TakenInv /\ HeardInv
  BY DEF ProgressInv, TakenInv, HeardInv
<1>4. LineInv
  <2>1. Unit[req] \in Units
    BY DEF Units
  <2> QED BY <2>1 DEF LineInv, TidModulus
<1> QED BY <1>1, <1>2, <1>3, <1>4 DEF IInv, StateInv

\* Transaction numbers stay within their width.
LEMMA TidRange ==
  ASSUME NEW f \in Nat
  PROVE  f % TidModulus \in 0 .. TidModulus - 1
  BY DEF TidModulus

\* Numbering a request keeps the invariant.
LEMMA EncodeState ==
  ASSUME StateInv, NEW r \in Requests, Encode(r), req' = r, frame < MaxFrames, UNCHANGED protocol,
         pc' = "send", outcome' = "none", first' \in 1 .. frame + 1,
         applied' \in Nat, applied' < Frames[r], first' + applied' = frame + 1,
         first' + Frames[r] <= MaxFrames + 1,
         UNCHANGED <<buf, lineVars, executed>>
  PROVE  StateInv'
<1> USE ExchangeAssumption DEF StateInv, Encode, lineVars, Busy
<1>1. /\ Unit[r] \in Units /\ encoded \in [Units -> 0 .. MaxFrames] /\ MaxFrames \in Nat
      /\ frame \in 0 .. MaxFrames /\ frame' = frame + 1 /\ frame' \in 1 .. MaxFrames
      /\ \A u \in Units : encoded[u] \in Nat /\ encoded[u] <= frame
  BY DEF TypeOK, Units, ProgressInv
<1>2. encoded' \in [Units -> 0 .. MaxFrames] /\ \A u \in Units : encoded'[u] <= frame'
  <2>1. ASSUME NEW u \in Units PROVE encoded'[u] \in 0 .. MaxFrames /\ encoded'[u] <= frame'
    BY <1>1
  <2> QED BY <1>1, <2>1
<1>3. tid' \in 0 .. TidModulus - 1
  <2>1. encoded'[Unit[r]] \in Nat
    BY <1>1, <1>2
  <2> QED BY <2>1, TidRange DEF Tcp, TidModulus
<1>4. TypeOK'
  <2>1. /\ attempt' \in 0 .. Attempts /\ counted' \in 0 .. 2 /\ taken' = NoAnswer
    OBVIOUS
  <2>2. /\ req' \in Requests /\ frame' \in 0 .. MaxFrames /\ applied' \in Nat
        /\ pc' = "send" /\ outcome' \in Verdict
    BY <1>1 DEF Verdict
  <2>3. buf' \in BOOLEAN /\ broken' \in BOOLEAN /\ Len(wire') <= WireCap
        /\ executed' \subseteq 1 .. MaxFrames /\ heard' \in BOOLEAN
    BY DEF TypeOK
  <2> QED BY <1>2, <1>3, <2>1, <2>2, <2>3 DEF TypeOK
<1>5. CommandInv'
  BY DEF CommandInv, TypeOK
<1>6. ProgressInv'
  <2>1. first' \in 0 .. MaxFrames /\ first' # 0 /\ first' + applied' <= frame' + 1
    <3>1. \A x \in 1 .. frame + 1 : x \in 0 .. MaxFrames /\ x # 0
      BY <1>1
    <3> QED BY <1>1, <3>1
  <2> QED BY <1>1, <1>2, <2>1 DEF ProgressInv
<1>7. TakenInv' /\ HeardInv'
  BY DEF TakenInv, HeardInv
<1> QED BY <1>4, <1>5, <1>6, <1>7

\* Starting a command keeps the invariant.
LEMMA StartState ==
  ASSUME IInv, NEW r \in Requests, Start(r), UNCHANGED protocol
  PROVE  IInv'
<1>1. Frames[r] \in Nat \ {0} /\ MaxFrames \in Nat /\ frame \in 0 .. MaxFrames /\ frame + Frames[r] <= MaxFrames
  BY ExchangeAssumption DEF Start, IInv, StateInv, TypeOK
<1>2. Unit[r] \in Units /\ encoded[Unit[r]] <= frame
  BY DEF Units, IInv, StateInv, ProgressInv
<1>3. StateInv'
  BY <1>1, EncodeState DEF Start, IInv
<1>4. LineInv'
  BY <1>1, <1>2, EncodeLine DEF Start, IInv, StateInv, lineVars
<1> QED BY <1>3, <1>4 DEF IInv

\* Going on to the next frame keeps the invariant.
LEMMA NextFrameState ==
  ASSUME IInv, NextFrame, UNCHANGED protocol
  PROVE  IInv'
<1>1. Frames[req] \in Nat \ {0} /\ MaxFrames \in Nat /\ frame \in 0 .. MaxFrames /\ applied \in Nat
  BY ExchangeAssumption DEF IInv, StateInv, TypeOK
<1>2. /\ outcome = "next" /\ applied < Frames[req] /\ first \in 1 .. MaxFrames
      /\ first + applied = frame + 1 /\ first + Frames[req] <= MaxFrames + 1
  BY DEF NextFrame, IInv, StateInv, CommandInv, ProgressInv
<1>3. frame < MaxFrames /\ first \in 1 .. frame + 1
  BY <1>1, <1>2
<1>4. req \in Requests /\ Unit[req] \in Units /\ encoded[Unit[req]] <= frame
  BY DEF Units, IInv, StateInv, TypeOK, ProgressInv
<1>5. StateInv'
  BY <1>1, <1>2, <1>3, <1>4, EncodeState DEF NextFrame, IInv, StateInv, TypeOK
<1>6. LineInv'
  BY <1>4, EncodeLine DEF NextFrame, IInv, StateInv, lineVars
<1> QED BY <1>5, <1>6 DEF IInv

\* What was said of a frame stays true while nothing is encoded.
LEMMA SameTaken ==
  ASSUME TakenInv, UNCHANGED <<frame, encoded, req, tid, protocol, taken>>, executed \subseteq executed'
  PROVE  TakenInv'
  BY SameLine DEF TakenInv, Tcp

\* Sending keeps the invariant.
LEMMA SendState ==
  ASSUME IInv, Send, UNCHANGED protocol
  PROVE  IInv'
<1> USE ExchangeAssumption DEF Send, IInv, StateInv, historyVars, Busy
<1>1. LineInv' /\ Len(wire') <= WireCap
  BY SendLine
<1>2. TypeOK'
  <2>1. attempt' \in 0 .. Attempts
    BY DEF TypeOK, CommandInv
  <2> QED BY <1>1, <2>1 DEF TypeOK
<1>3. CommandInv' /\ ProgressInv' /\ HeardInv'
  BY DEF CommandInv, ProgressInv, HeardInv, Tcp
<1>4. TakenInv'
  BY SameTaken
<1> QED BY <1>1, <1>2, <1>3, <1>4

\* A frame that fails, is tried again or is cut off tells nothing new of it.
LEMMA FailState ==
  ASSUME IInv, SendFailed \/ SendBroken \/ ReceiveBroken \/ FrameTimeout \/ Cancelled, UNCHANGED protocol
  PROVE  IInv'
<1> USE ExchangeAssumption DEF IInv, StateInv, historyVars, lineVars, Busy
<1>1. /\ UNCHANGED <<req, frame, encoded, tid, applied, broken, wire, inbox, first, executed,
                     taken, heard>>
      /\ pc \in Busy /\ outcome = "none" /\ counted = 0
  BY DEF SendFailed, SendBroken, ReceiveBroken, FrameTimeout, Cancelled, CancelledSending,
         CancelledWaiting, CommandInv
<1>2. /\ attempt' \in 0 .. Attempts /\ (pc' = "send" => attempt' < Attempts)
  BY DEF SendFailed, SendBroken, ReceiveBroken, FrameTimeout, Cancelled, CommandInv, Again, TypeOK
<1>3. /\ buf' \in BOOLEAN /\ pc' \in {"send", "idle", "down", "stopped"}
      /\ (pc' = "send" => counted' = counted /\ outcome' = outcome)
      /\ (pc' # "send" => counted' \in 0 .. 1 /\ outcome' \in {"failed", "cut"})
  <2> USE <1>1 DEF Fail, Again, TypeOK
  <2>1. CASE SendFailed
    BY <2>1 DEF SendFailed
  <2>2. CASE FrameTimeout
    <3>1. CASE attempt < Attempts
      BY <2>2, <3>1 DEF FrameTimeout
    <3>2. CASE ~(attempt < Attempts)
      <4>1. pc' = "idle" /\ counted' = counted + 1 /\ outcome' = "failed" /\ buf' = FALSE
        BY <2>2, <3>2 DEF FrameTimeout
      <4>2. counted' \in 0 .. 1 /\ pc' # "send"
        BY <1>1, <4>1
      <4> QED BY <4>1, <4>2
    <3> QED BY <3>1, <3>2
  <2>3. CASE SendBroken
    BY <2>3 DEF SendBroken
  <2>4. CASE ReceiveBroken
    BY <2>4 DEF ReceiveBroken
  <2>5. CASE Cancelled
    BY <2>5 DEF Cancelled, CancelledSending, CancelledWaiting
  <2> QED BY <2>1, <2>2, <2>3, <2>4, <2>5
<1>4. TypeOK'
  BY <1>1, <1>2, <1>3 DEF TypeOK, Verdict
<1>5. CommandInv' /\ ProgressInv' /\ HeardInv'
  BY <1>1, <1>2, <1>3 DEF CommandInv, ProgressInv, HeardInv, Tcp
<1>6. LineInv'
  BY <1>1, WorkerLine DEF LineInv
<1>7. TakenInv'
  BY <1>1, SameTaken
<1> QED BY <1>4, <1>5, <1>6, <1>7

\* Receiving keeps the invariant.
LEMMA ReceiveState ==
  ASSUME IInv, Receive, UNCHANGED protocol
  PROVE  IInv'
<1> USE ExchangeAssumption DEF IInv, StateInv, Busy
<1> DEFINE h == Head(inbox)
<1>1. h \in SentAnswers
  BY HeadAnswer DEF Receive
<1>2. LineInv'
  BY ReceiveLine
<1>3. /\ pc = "await" /\ UNCHANGED <<req, frame, encoded, tid, attempt, broken, wire, first, executed>>
      /\ outcome = "none" /\ counted = 0 /\ taken = NoAnswer /\ first # 0 /\ applied < Frames[req]
      /\ first + applied = frame
      /\ heard' = (heard \/ (h.frame = frame /\ h.kind = "ok" /\ ~buf))
  BY DEF Receive, CommandInv, ProgressInv
<1>4. PICK v \in Verdicts :
        /\ buf' = (v = "short")
        /\ taken' = IF v = "ok" THEN h ELSE taken
        /\ CASE v = "ok" -> Succeed
             [] v = "short" -> UNCHANGED <<pc, applied, outcome, counted>>
             [] v = "permanent" -> pc' = "idle" /\ Fail(1) /\ UNCHANGED applied
             [] OTHER -> Again(attempt) /\ UNCHANGED applied
  BY DEF Receive
<1>5. CASE v = "ok"
  <2>1. Succeed /\ taken' = h /\ ~buf /\ "ok" \in Decode(h) /\ buf' = FALSE
    BY <1>4, <1>5 DEF Verdicts
  <2>2. /\ h.kind = "ok" /\ Unit[h.req] = Unit[req] /\ (Tcp => h.tid = tid)
        /\ h.frame \in 1 .. MaxFrames
    BY <1>1, <2>1, DecodeOk DEF SentAnswers
  <2>3. /\ applied' = applied + 1 /\ counted' \in 1 .. 2 /\ pc' \in {"idle", "stopped"}
        /\ outcome' = "ok" => applied' = Frames[req] /\ pc' = "idle"
        /\ outcome' = "next" => applied' # Frames[req] /\ pc' = "idle"
        /\ outcome' \in {"ok", "next", "cut"}
    BY <1>3, <2>1 DEF Succeed
  <2>4. TypeOK'
    <3>1. taken'.frame \in 1 .. MaxFrames /\ applied' \in Nat /\ counted' \in 0 .. 2 /\ heard' \in BOOLEAN
      BY <1>3, <2>1, <2>2, <2>3 DEF TypeOK
    <3> QED BY <1>3, <2>1, <2>3, <3>1 DEF TypeOK, Verdict
  <2>5. CommandInv' /\ ProgressInv'
    BY <1>3, <2>3 DEF CommandInv, ProgressInv, TypeOK
  <2>6. TakenInv'
    <3>1. SentAnswers \subseteq SentAnswers'
      BY <1>3, SameLine
    <3> QED BY <1>1, <1>3, <2>1, <2>2, <3>1 DEF TakenInv, Tcp
  <2>7. HeardInv'
    BY <1>3, <2>1, <2>2, <2>3 DEF HeardInv, Tcp
  <2> QED BY <1>2, <2>4, <2>5, <2>6, <2>7
<1>6. CASE v # "ok"
  <2>1. /\ taken' = NoAnswer /\ applied' = applied /\ buf' \in BOOLEAN
        /\ pc' \in {"await", "idle", "send"}
        /\ (pc' \in Busy => counted' = counted /\ outcome' = outcome)
        /\ (pc' \notin Busy => counted' = counted + 1 /\ outcome' = "failed")
        /\ (pc' = "send" => attempt < Attempts)
    BY <1>3, <1>4, <1>6 DEF Again, Fail
  <2>2. TypeOK'
    BY <1>3, <2>1 DEF TypeOK, Verdict
  <2>3. CommandInv' /\ ProgressInv' /\ TakenInv'
    BY <1>3, <2>1 DEF CommandInv, ProgressInv, TakenInv, TypeOK
  <2>4. HeardInv'
    <3>1. SUFFICES ASSUME heard', Tcp \/ ~IsSingle(req) PROVE FALSE
      BY <1>3 DEF HeardInv, Tcp
    <3>2. h.frame = frame /\ h.kind = "ok" /\ ~buf
      BY <1>3, <3>1 DEF HeardInv
    <3>3. Decode(h) = {"ok"}
      BY <1>1, <3>1, <3>2, DecodeGood DEF SentAnswers, LineInv
    <3> QED BY <1>4, <1>6, <3>2, <3>3 DEF Verdicts
  <2> QED BY <1>2, <2>2, <2>3, <2>4
<1> QED BY <1>5, <1>6

-----------------------------------------------------------------------------
\* The line.

\* What happens on the line keeps the invariant.
LEMMA LineState ==
  ASSUME IInv, NEW i \in DOMAIN wire, Answer(i) \/ Lose(i), UNCHANGED protocol
  PROVE  IInv'
<1> USE DEF IInv, StateInv
<1>1. LineInv' /\ Len(wire') <= WireCap /\ executed' \subseteq 1 .. MaxFrames
  BY AnswerLine, LoseLine
<1>2. UNCHANGED <<workerVars, broken, first, taken, heard>> /\ executed \subseteq executed'
  BY AnswerLine, LoseLine DEF Answer, Lose
<1>3. TypeOK'
  BY <1>1, <1>2 DEF TypeOK, workerVars
<1>4. CommandInv' /\ ProgressInv' /\ HeardInv'
  BY <1>2 DEF CommandInv, ProgressInv, HeardInv, workerVars, Tcp
<1>5. TakenInv'
  BY <1>2, SameTaken DEF workerVars
<1> QED BY <1>1, <1>3, <1>4, <1>5

\* Losing the connection keeps the invariant.
LEMMA BreakState ==
  ASSUME IInv, Break \/ Reconnect, UNCHANGED protocol
  PROVE  IInv'
<1> USE ExchangeAssumption DEF IInv, StateInv, Busy
<1>1. /\ UNCHANGED <<req, frame, encoded, tid, attempt, buf, applied, outcome, counted, historyVars>>
      /\ broken' \in BOOLEAN
      /\ inbox' \in {inbox, << >>} /\ wire' \in {wire, << >>}
      /\ pc' = pc \/ (pc = "down" /\ pc' = "idle")
  BY DEF Break, Reconnect, workerVars
<1>2. wire' \in Seq(SentRequests) /\ inbox' \in Seq(SentAnswers) /\ Len(wire') <= WireCap
  <2>1. << >> \in Seq(SentRequests) /\ << >> \in Seq(SentAnswers) /\ Len(<< >>) <= WireCap
    OBVIOUS
  <2>2. wire \in Seq(SentRequests) /\ inbox \in Seq(SentAnswers) /\ Len(wire) <= WireCap
    BY DEF LineInv, TypeOK
  <2>3. wire' = wire \/ wire' = << >>
    BY <1>1
  <2>4. inbox' = inbox \/ inbox' = << >>
    BY <1>1
  <2> QED BY <2>1, <2>2, <2>3, <2>4
<1>3. LineInv'
  BY <1>1, <1>2, WorkerLine DEF historyVars
<1>4. TypeOK'
  BY <1>1, <1>2 DEF TypeOK, historyVars
<1>5. CommandInv' /\ ProgressInv' /\ HeardInv'
  BY <1>1 DEF CommandInv, ProgressInv, HeardInv, historyVars, Tcp
<1>6. TakenInv'
  BY <1>1, SameTaken DEF historyVars
<1> QED BY <1>3, <1>4, <1>5, <1>6

\* Every step keeps the invariant.
LEMMA StepInv == IInv /\ [Next]_vars => IInv'
<1> SUFFICES ASSUME IInv, [Next]_vars PROVE IInv'
  OBVIOUS
<1>1. CASE UNCHANGED vars
  <2>1. UNCHANGED <<protocol, workerVars, lineVars, historyVars>>
    BY <1>1 DEF vars
  <2>2. LineInv'
    BY <2>1, WorkerLine DEF IInv, StateInv, LineInv, workerVars, lineVars, historyVars
  <2>3. TakenInv'
    BY <2>1, SameTaken DEF IInv, StateInv, workerVars, historyVars
  <2> QED
    BY <2>1, <2>2, <2>3 DEF IInv, StateInv, TypeOK, CommandInv, ProgressInv, HeardInv, Tcp,
                            workerVars, lineVars, historyVars
<1>2. CASE WorkerStep
  BY <1>2, SendState, FailState, NextFrameState, ReceiveState DEF WorkerStep
<1>3. CASE Outside
  BY <1>3, StartState, FailState, BreakState, LineState DEF Outside
<1> QED BY <1>1, <1>2, <1>3 DEF Next

\* Every reachable state satisfies the invariant.
LEMMA Invariance == Spec => []IInv
  BY StateInit, StepInv, PTL DEF Spec

-----------------------------------------------------------------------------
\* What follows from the invariant.

\* The worker's state and its histories have their types.
THEOREM TypeCorrect == Spec => []TypeOK
<1>1. IInv => TypeOK
  BY DEF IInv, StateInv
<1> QED BY Invariance, <1>1, PTL

\* Two numbers that agree modulo the range of the transaction id are equal or at
\* least that far apart.
LEMMA TidApart ==
  ASSUME NEW a \in Nat, NEW b \in Nat, a <= b, a % TidModulus = b % TidModulus
  PROVE  a = b \/ a + TidModulus <= b
  BY DEF TidModulus

\* The answer taken on TCP is the frame's own, or one of the same slave that is a
\* multiple of the range of the transaction id older.
LEMMA TakenApart ==
  ASSUME IInv, Tcp, taken # NoAnswer
  PROVE  \/ taken.frame = frame
         \/ Unit[taken.req] = Unit[req] /\ taken.nth + TidModulus <= encoded[Unit[req]]
<1>1. Unit[req] \in Units /\ encoded[Unit[req]] \in Nat
  BY ExchangeAssumption DEF IInv, StateInv, TypeOK, Units
<1>2. /\ taken.nth \in Nat /\ taken.nth <= encoded[Unit[req]] /\ Unit[taken.req] = Unit[req]
      /\ taken.nth = encoded[Unit[req]] => taken.frame = frame
      /\ taken.tid = taken.nth % TidModulus /\ taken.tid = tid
      /\ tid = encoded[Unit[req]] % TidModulus
  BY DEF IInv, StateInv, TakenInv, SentAnswers, LineInv
<1>3. taken.nth = encoded[Unit[req]] \/ taken.nth + TidModulus <= encoded[Unit[req]]
  BY <1>1, <1>2, TidApart
<1> QED BY <1>2, <1>3

\* Whatever the number of devices and frames, an answer that Modbus TCP takes for
\* a foreign frame comes from the device asked, and at least 65536 frames of that
\* device late: answers of other devices with the same transaction id are told
\* apart by the slave address (tcp.go, tcpExtractPDU; modbus.go, NextTID).
THEOREM OwnOrAncient ==
  Spec => [](Tcp /\ taken # NoAnswer =>
               \/ taken.frame = frame
               \/ Unit[taken.req] = Unit[req] /\ taken.nth + TidModulus <= encoded[Unit[req]])
<1>1. IInv => (Tcp /\ taken # NoAnswer =>
               \/ taken.frame = frame
               \/ Unit[taken.req] = Unit[req] /\ taken.nth + TidModulus <= encoded[Unit[req]])
  BY TakenApart
<1> QED BY Invariance, <1>1, PTL

\* While no transaction id has wrapped around there is no such answer.
LEMMA TakenOwn ==
  ASSUME IInv, Tcp, taken # NoAnswer, encoded[Unit[req]] < TidModulus
  PROVE  taken.frame = frame
<1>1. Unit[req] \in Units /\ encoded[Unit[req]] \in Nat
  BY ExchangeAssumption DEF IInv, StateInv, TypeOK, Units
<1>2. taken.nth \in Nat
  BY DEF IInv, StateInv, TakenInv, SentAnswers
<1>3. ~(taken.nth + TidModulus <= encoded[Unit[req]])
  BY <1>1, <1>2 DEF TidModulus
<1> QED BY <1>3, TakenApart

\* The counters are bounded by the number of frames.
LEMMA EncodedBound ==
  ASSUME IInv, MaxFrames < TidModulus
  PROVE  encoded[Unit[req]] < TidModulus
<1>1. Unit[req] \in Units /\ encoded[Unit[req]] \in 0 .. MaxFrames
  BY DEF IInv, StateInv, TypeOK, Units
<1> QED BY <1>1, ExchangeAssumption DEF TidModulus

\* Until a transaction id wraps around, the answer that ends a frame well is its
\* own, however many devices share the link and however late, often or out of
\* order they answer (worker.go, pollOne and writeFrame; tcp.go).
THEOREM AnswerIsOwn ==
  ASSUME MaxFrames < TidModulus
  PROVE  Spec => []OwnAnswer
<1>1. IInv => OwnAnswer
  BY TakenOwn, EncodedBound DEF OwnAnswer
<1> QED BY Invariance, <1>1, PTL

\* A good answer that is the next thing decoded ends its frame well, an answer
\* to an earlier attempt as well as one to the last (pdu.go, the decoders).
THEOREM GoodAccepted == Spec => []GoodAnswerAccepted
<1>1. IInv => GoodAnswerAccepted
  BY DEF IInv, StateInv, HeardInv, GoodAnswerAccepted
<1> QED BY Invariance, <1>1, PTL

-----------------------------------------------------------------------------
\* What a receipt says.

\* What was applied was carried out.
AppliedInv == Tcp => first .. first + applied - 1 \subseteq executed

\* A frame that is confirmed was applied by the device.
LEMMA AppliedReceive ==
  ASSUME MaxFrames < TidModulus, IInv, AppliedInv, Receive, UNCHANGED protocol
  PROVE  AppliedInv'
<1> SUFFICES ASSUME Tcp PROVE first' .. first' + applied' - 1 \subseteq executed'
  BY DEF AppliedInv, Tcp
<1> USE ExchangeAssumption DEF IInv, StateInv
<1> DEFINE h == Head(inbox)
<1>1. h \in SentAnswers
  BY HeadAnswer DEF Receive
<1>2. UNCHANGED <<first, executed>> /\ first + applied = frame /\ pc = "await"
      /\ frame \in 0 .. MaxFrames /\ first \in Nat /\ applied \in Nat
  BY DEF Receive, ProgressInv, Busy, TypeOK
<1>3. CASE applied' = applied
  BY <1>2, <1>3 DEF AppliedInv
<1>4. CASE applied' # applied
  <2>1. "ok" \in Decode(h) /\ applied' = applied + 1
    BY <1>4 DEF Receive, Succeed, Verdicts
  <2>2. h.kind = "ok" /\ h.frame \in 1 .. MaxFrames /\ h.frame \in executed
    BY <1>1, <2>1, DecodeOk DEF SentAnswers
  <2>3. h.frame = frame
    <3>1. Unit[req] \in Units /\ encoded[Unit[req]] \in Nat /\ encoded[Unit[req]] < TidModulus
      BY EncodedBound DEF TypeOK, Units
    <3>2. /\ h.nth \in Nat /\ h.nth <= encoded[Unit[req]]
          /\ h.nth = encoded[Unit[req]] => h.frame = frame
          /\ h.nth % TidModulus = encoded[Unit[req]] % TidModulus
      BY <1>1, <2>1, DecodeOk DEF SentAnswers, LineInv
    <3> QED BY <3>1, <3>2, TidApart DEF TidModulus
  <2>4. first + applied' - 1 = frame
    BY <1>2, <2>1
  <2>5. ASSUME NEW f \in first .. frame PROVE f \in executed
    <3>1. CASE f = frame
      BY <2>2, <2>3, <3>1
    <3>2. CASE f # frame
      BY <1>2, <2>5, <3>2 DEF AppliedInv
    <3> QED BY <3>1, <3>2
  <2> QED BY <1>2, <2>4, <2>5
<1> QED BY <1>3, <1>4

\* Every step keeps what was confirmed applied.
LEMMA AppliedStep ==
  ASSUME MaxFrames < TidModulus, IInv, AppliedInv, [Next]_vars
  PROVE  AppliedInv'
<1> USE DEF historyVars, lineVars, workerVars, Tcp
<1>1. CASE UNCHANGED vars
  BY <1>1 DEF vars, AppliedInv
<1>2. ASSUME UNCHANGED <<protocol, first, applied>>, executed \subseteq executed'
      PROVE  AppliedInv'
  BY <1>2 DEF AppliedInv
<1>3. CASE WorkerStep
  <2>1. CASE Receive
    BY <1>3, <2>1, AppliedReceive DEF WorkerStep
  <2>2. CASE ~Receive
    BY <1>2, <1>3, <2>2
    DEF WorkerStep, Send, SendFailed, SendBroken, ReceiveBroken, NextFrame, FrameTimeout
  <2> QED BY <2>1, <2>2
<1>4. CASE Outside
  <2>1. ASSUME NEW r \in Requests, Start(r) PROVE AppliedInv'
    <3>1. applied' = 0 /\ first' = frame + 1 /\ frame \in Nat
      BY <2>1 DEF Start, IInv, StateInv, TypeOK
    <3> QED BY <3>1 DEF AppliedInv
  <2>2. CASE Cancelled \/ Reconnect \/ Break
    BY <1>2, <1>4, <2>2 DEF Outside, Cancelled, Reconnect, Break
  <2>3. ASSUME NEW i \in DOMAIN wire, Answer(i) \/ Lose(i) PROVE AppliedInv'
    <3>1. executed \subseteq executed'
      BY <2>3, <1>4, AnswerLine, LoseLine DEF IInv, StateInv, Outside
    <3> QED BY <1>2, <1>4, <2>3, <3>1 DEF Outside, Answer, Lose
  <2> QED BY <1>4, <2>1, <2>2, <2>3 DEF Outside
<1> QED BY <1>1, <1>3, <1>4 DEF Next

\* Success means that the device has carried out every frame of the command, and
\* what is reported as applied before a failure was carried out (worker.go,
\* execWrite; Modbus TCP, any number of devices, until a transaction id wraps
\* around).
THEOREM ReceiptTrue ==
  ASSUME MaxFrames < TidModulus
  PROVE  Spec => []ReceiptTruthful
<1>1. Init => AppliedInv
  BY DEF Init, AppliedInv
<1>2. IInv /\ AppliedInv /\ [Next]_vars => AppliedInv'
  BY AppliedStep
<1>3. IInv /\ AppliedInv => ReceiptTruthful
  <2> SUFFICES ASSUME IInv, AppliedInv, Tcp
               PROVE  /\ outcome = "ok" => first .. frame \subseteq executed
                      /\ first # 0 => applied <= Cardinality(executed \cap first .. frame)
    BY DEF ReceiptTruthful
  <2> USE ExchangeAssumption DEF IInv, StateInv
  <2>1. frame \in Nat /\ first \in Nat /\ applied \in Nat /\ first + applied <= frame + 1
        /\ first .. first + applied - 1 \subseteq executed
    BY DEF TypeOK, ProgressInv, AppliedInv
  <2>2. outcome = "ok" => first .. frame \subseteq executed
    <3>1. outcome = "ok" => first + applied - 1 = frame
      BY <2>1 DEF ProgressInv
    <3> QED BY <2>1, <3>1
  <2>3. applied <= Cardinality(executed \cap first .. frame)
    <3> DEFINE part == first .. first + applied - 1
               all  == executed \cap first .. frame
    <3>1. Cardinality(part) = applied
      BY <2>1, FS_Interval
    <3>2. IsFiniteSet(all)
      <4>1. IsFiniteSet(first .. frame)
        BY <2>1, FS_Interval
      <4>2. all \in SUBSET (first .. frame)
        OBVIOUS
      <4> QED BY <4>1, <4>2, FS_Subset
    <3>3. part \subseteq all
      BY <2>1
    <3>4. Cardinality(part) <= Cardinality(all)
      BY <3>2, <3>3, FS_Subset
    <3> QED BY <3>1, <3>4
  <2> QED BY <2>2, <2>3
<1> QED BY Invariance, <1>1, <1>2, <1>3, PTL DEF Spec

-----------------------------------------------------------------------------
\* Module DeviceAccess.

AllValid == \A i \in DOMAIN props : Valid(props[i])

\* A property that a plan must read.
Readable(i) == i \in DOMAIN props /\ CanRead(props[i]) /\ props[i].readFC > 0

\* Naturals below a bound have a greatest one.
LEMMA MaxBounded ==
  ASSUME NEW n \in Nat, NEW S, S \subseteq 0 .. n, S # {}
  PROVE  Max(S) \in S /\ \A x \in S : x <= Max(S)
<1> DEFINE T == {n - x : x \in S}
<1>1. T \subseteq Nat /\ T # {}
  <2>1. \A x \in S : n - x \in Nat
    OBVIOUS
  <2> QED BY <2>1, Zenon
<1>2. PICK m \in T : \A k \in T : ~(<<k, m>> \in OpToRel(<, Nat))
  BY <1>1, NatLessThanWellFounded, WFMin
<1>3. PICK y \in S : m = n - y
  BY <1>2
<1>4. \A x \in S : x <= y
  <2> SUFFICES ASSUME NEW x \in S PROVE x <= y
    OBVIOUS
  <2>1. n - x \in T /\ n - x \in Nat /\ m \in Nat
    BY <1>1
  <2>2. ~(n - x < m)
    BY <1>2, <2>1 DEF OpToRel
  <2> QED BY <1>3, <2>1, <2>2
<1> QED BY <1>3, <1>4 DEF Max

\* The smaller of two numbers.
LEMMA MinPair ==
  ASSUME NEW a \in Int, NEW b \in Int
  PROVE  Min({a, b}) = IF a <= b THEN a ELSE b
BY DEF Min

\* The greater of two numbers.
LEMMA MaxPair ==
  ASSUME NEW a \in Int, NEW b \in Int
  PROVE  Max({a, b}) = IF a >= b THEN a ELSE b
BY DEF Max

\* What the validation says of a property that has a read function code.
LEMMA CodeValid ==
  ASSUME props \in Seq(PropMeta), AllValid, NEW i \in DOMAIN props, props[i].readFC > 0
  PROVE  /\ props[i] \in PropMeta
         /\ props[i].readFC \in 1 .. 4
         /\ props[i].base \in 0 .. MaxAddress
         /\ props[i].offset \in Nat
         /\ props[i].count \in Nat \ {0}
         /\ props[i].count <= IF IsBitFC(props[i].readFC) THEN MaxReadBits ELSE MaxReadRegisters
         /\ IsBitSpace(props[i]) = IsBitFC(props[i].readFC)
         /\ UnitSpan(props[i]) = props[i].count
         /\ BitSpan(props[i]) = props[i].count
         /\ End(i) = props[i].offset + props[i].count
         /\ props[i].base + End(i) <= MaxAddress + 1
         /\ props[i].startBit \in Nat
         /\ props[i].endBit \in Nat
         /\ props[i].startBit <= props[i].endBit
         /\ ~IsBitFC(props[i].readFC) => props[i].endBit < 16 * props[i].count
<1> USE LimitsAssumption
<1>1. props[i] \in PropMeta /\ Valid(props[i]) /\ props[i].readFC > 0
  BY DEF AllValid
<1>2. ~IsVirtual(props[i])
  <2>1. props[i].readFC # 0
    BY <1>1
  <2> QED BY <2>1, Zenon DEF IsVirtual
<1>3. IsBitSpace(props[i]) = IsBitFC(props[i].readFC)
  BY <1>1 DEF IsBitSpace
<1> DEFINE p == props[i]
<1>4. p \in PropMeta /\ p.readFC > 0
  BY <1>1
<1>5. /\ p.readFC \in {0, 1, 2, 3, 4}
      /\ p.count \in 1 .. (IF IsBitSpace(p) THEN MaxReadBits ELSE MaxReadRegisters)
      /\ p.base \in 0 .. MaxAddress
      /\ p.offset >= 0
      /\ p.base + p.offset + p.count - 1 <= MaxAddress
      /\ p.startBit >= 0
      /\ p.endBit \in p.startBit .. (IF IsBitSpace(p) THEN p.count ELSE 16 * p.count) - 1
  BY <1>1, <1>2 DEF Valid
<1>6. p.count \in Int /\ p.offset \in Int /\ p.base \in Int /\ p.startBit \in Int /\ p.endBit \in Int
  BY <1>4 DEF PropMeta
<1>7. BitSpan(p) = p.count /\ UnitSpan(p) = p.count
  BY <1>5, <1>6, SMTT(60) DEF BitSpan, UnitSpan
<1>8. End(i) = p.offset + p.count
  BY <1>7 DEF End
<1> HIDE DEF p
<1>9. p.readFC \in 1 .. 4
  BY <1>5, <1>4
<1>10. p.count \in Nat \ {0} /\ p.count <= IF IsBitFC(p.readFC) THEN MaxReadBits ELSE MaxReadRegisters
  BY <1>5, <1>6, <1>3, SMTT(60) DEF p
<1>11. p.offset \in Nat /\ p.base + End(i) <= MaxAddress + 1
  <2>1. PICK b \in Int, o \in Int, c \in Int : b = p.base /\ o = p.offset /\ c = p.count
    BY <1>6
  <2>2. o >= 0 /\ b + o + c - 1 <= MaxAddress /\ End(i) = o + c
    BY <1>5, <1>8, <2>1
  <2>3. o \in Nat /\ b + (o + c) <= MaxAddress + 1
    BY <2>2
  <2> QED BY <2>1, <2>2, <2>3
<1>12. /\ p.startBit \in Nat /\ p.endBit \in Nat /\ p.startBit <= p.endBit
       /\ ~IsBitSpace(p) => p.endBit < 16 * p.count
  BY <1>5, <1>6, <1>10, SMTT(60)
<1> QED BY <1>1, <1>3, <1>5, <1>7, <1>8, <1>9, <1>10, <1>11, <1>12 DEF p

\* What the validation says of a property that is read.
LEMMA ReadableValid ==
  ASSUME props \in Seq(PropMeta), AllValid, NEW i, Readable(i)
  PROVE  /\ props[i] \in PropMeta
         /\ props[i].readFC \in 1 .. 4
         /\ props[i].base \in 0 .. MaxAddress
         /\ props[i].offset \in Nat
         /\ props[i].count \in Nat \ {0}
         /\ props[i].count <= IF IsBitFC(props[i].readFC) THEN MaxReadBits ELSE MaxReadRegisters
         /\ IsBitSpace(props[i]) = IsBitFC(props[i].readFC)
         /\ UnitSpan(props[i]) = props[i].count
         /\ BitSpan(props[i]) = props[i].count
         /\ End(i) = props[i].offset + props[i].count
         /\ props[i].base + End(i) <= MaxAddress + 1
         /\ props[i].startBit \in Nat
         /\ props[i].endBit \in Nat
         /\ props[i].startBit <= props[i].endBit
         /\ ~IsBitFC(props[i].readFC) => props[i].endBit < 16 * props[i].count
BY CodeValid DEF Readable

\* The members of a bucket are properties that must be read.
LEMMA MemberReadable ==
  ASSUME NEW fc, NEW base, fc > 0, NEW i \in Members(fc, base)
  PROVE  Readable(i) /\ props[i].readFC = fc /\ props[i].base = base
BY DEF Members, Readable

\* A request asks for at least one unit and at most what the protocol allows.
LEMMA LimitBounds ==
  ASSUME NEW fc
  PROVE  /\ Limit(fc) \in Nat \ {0}
         /\ Limit(fc) <= IF IsBitFC(fc) THEN MaxReadBits ELSE MaxReadRegisters
<1> DEFINE most == IF IsBitFC(fc) THEN MaxReadBits ELSE MaxReadRegisters
<1>1. most \in Nat \ {0}
  BY LimitsAssumption
<1>2. MaxRegs \in Nat
  BY DeviceAssumption
<1>3. MaxRegs # 0 => Min({MaxRegs, most}) = IF MaxRegs <= most THEN MaxRegs ELSE most
  BY <1>1, <1>2, MinPair
<1>4. Limit(fc) = IF MaxRegs = 0 THEN most ELSE Min({MaxRegs, most})
  BY DEF Limit
<1> HIDE DEF most
<1>5. Limit(fc) \in Nat \ {0} /\ Limit(fc) <= most
  BY <1>1, <1>2, <1>3, <1>4
<1> QED BY <1>5 DEF most

\* The reach of a bucket is that of its farthest member, within the addresses.
LEMMA ReachBounds ==
  ASSUME props \in Seq(PropMeta), AllValid, NEW fc, NEW base, fc > 0,
         Members(fc, base) # {}
  PROVE  /\ Reach(fc, base) \in Nat
         /\ \A i \in Members(fc, base) : End(i) <= Reach(fc, base)
         /\ base \in 0 .. MaxAddress
         /\ base + Reach(fc, base) <= MaxAddress + 1
<1> DEFINE S == {0} \cup {End(i) : i \in Members(fc, base)}
<1>1. ASSUME NEW i \in Members(fc, base)
      PROVE  /\ End(i) \in Nat
             /\ base \in 0 .. MaxAddress
             /\ base + End(i) <= MaxAddress + 1
  BY MemberReadable, ReadableValid, SMTT(60)
<1>2. PICK b \in Members(fc, base) : TRUE
  OBVIOUS
<1>3. base \in 0 .. MaxAddress /\ MaxAddress \in Nat
  BY <1>1, <1>2, LimitsAssumption
<1>4. \A x \in S : x \in 0 .. MaxAddress + 1 - base
  <2> SUFFICES ASSUME NEW x \in S PROVE x \in 0 .. MaxAddress + 1 - base
    OBVIOUS
  <2>1. CASE x = 0
    BY <2>1, <1>3
  <2>2. ASSUME NEW i \in Members(fc, base), x = End(i) PROVE x \in 0 .. MaxAddress + 1 - base
    BY <2>2, <1>1, <1>3
  <2> QED BY <2>1, <2>2
<1>5. S \subseteq 0 .. MaxAddress + 1 - base /\ S # {} /\ MaxAddress + 1 - base \in Nat
  <2>1. S \subseteq 0 .. MaxAddress + 1 - base
    BY <1>4, Zenon
  <2>2. 0 \in S
    OBVIOUS
  <2>3. MaxAddress + 1 - base \in Nat
    BY <1>3
  <2> QED BY <2>1, <2>2, <2>3, Zenon
<1>6. Max(S) \in S /\ \A x \in S : x <= Max(S)
  BY <1>5, MaxBounded
<1>7. Reach(fc, base) = Max(S)
  BY DEF Reach
<1> HIDE DEF S
<1>8. Reach(fc, base) \in 0 .. MaxAddress + 1 - base
  BY <1>4, <1>6, <1>7
<1>9. \A i \in Members(fc, base) : End(i) \in S
  BY DEF S
<1> QED BY <1>3, <1>6, <1>7, <1>8, <1>9

\* A segment ends within the limit and within the reach of its bucket.
LEMMA SegmentBounds ==
  ASSUME props \in Seq(PropMeta), AllValid, NEW fc, NEW base, fc > 0,
         NEW n \in Starts(fc, base)
  PROVE  /\ n \in Nat
         /\ n % Limit(fc) = 0
         /\ SegmentEnd(fc, base, n) \in Nat
         /\ SegmentEnd(fc, base, n) <= n + Limit(fc)
         /\ SegmentEnd(fc, base, n) <= Reach(fc, base)
         /\ Held(fc, base, n) # {}
         /\ base \in 0 .. MaxAddress
         /\ base + SegmentEnd(fc, base, n) <= MaxAddress + 1
<1>1. n \in 0 .. Reach(fc, base) - 1 /\ n % Limit(fc) = 0 /\ Held(fc, base, n) # {}
  BY DEF Starts
<1>2. Members(fc, base) # {}
  BY <1>1 DEF Held
<1>3. /\ Reach(fc, base) \in Nat
      /\ base \in 0 .. MaxAddress
      /\ base + Reach(fc, base) <= MaxAddress + 1
  BY <1>2, ReachBounds
<1>4. Limit(fc) \in Nat \ {0}
  BY LimitBounds
<1>5. n \in Nat /\ n + Limit(fc) \in Int
  BY <1>1, <1>3, <1>4
<1>6. SegmentEnd(fc, base, n) =
        IF n + Limit(fc) <= Reach(fc, base) THEN n + Limit(fc) ELSE Reach(fc, base)
  BY <1>3, <1>5, MinPair DEF SegmentEnd
<1>7. MaxAddress \in Nat
  BY LimitsAssumption
<1> HIDE DEF Limit, Reach, SegmentEnd
<1> QED BY <1>1, <1>3, <1>4, <1>5, <1>6, <1>7

\* What a segment holds lies between its ends.
LEMMA HeldBounds ==
  ASSUME props \in Seq(PropMeta), AllValid, NEW fc, NEW base, fc > 0,
         NEW n \in Starts(fc, base), NEW i \in Held(fc, base, n)
  PROVE  /\ i \in Members(fc, base)
         /\ n <= props[i].offset
         /\ props[i].offset + props[i].count <= SegmentEnd(fc, base, n)
<1>1. i \in Members(fc, base) /\ n <= props[i].offset /\ End(i) <= SegmentEnd(fc, base, n)
  BY DEF Held
<1>2. End(i) = props[i].offset + props[i].count
  BY <1>1, MemberReadable, ReadableValid
<1> QED BY <1>1, <1>2

\* Two multiples of one number are that number apart.
LEMMA MultiplesApart ==
  ASSUME NEW d \in Nat \ {0}, NEW a \in Nat, NEW b \in Nat, a % d = 0, b % d = 0, a < b
  PROVE  a + d <= b
<1>1. /\ a = d * (a \div d) + (a % d) /\ a \div d \in Nat
      /\ b = d * (b \div d) + (b % d) /\ b \div d \in Nat
  OBVIOUS
<1> DEFINE p == a \div d
           q == b \div d
<1>2. p \in Nat /\ q \in Nat /\ a = d * p /\ b = d * q
  BY <1>1
<1> HIDE DEF p, q
<1>3. p < q
  <2>1. ASSUME q <= p PROVE FALSE
    <3>1. d * q <= d * p
      BY <1>2, <2>1
    <3> QED BY <1>2, <3>1
  <2> QED BY <1>2, <2>1
<1>4. d * (p + 1) <= d * q
  BY <1>2, <1>3
<1>5. d * (p + 1) = d * p + d
  BY <1>2
<1> QED BY <1>2, <1>4, <1>5

\* A property lies in one segment at most.
LEMMA HeldOnce ==
  ASSUME props \in Seq(PropMeta), AllValid, NEW fc, NEW base, fc > 0,
         NEW m \in Starts(fc, base), NEW n \in Starts(fc, base),
         NEW i \in Held(fc, base, m) \cap Held(fc, base, n)
  PROVE  m = n
<1>1. ASSUME NEW a \in Starts(fc, base), NEW b \in Starts(fc, base), a < b,
             i \in Held(fc, base, a), i \in Held(fc, base, b)
      PROVE  FALSE
  <2>1. a + Limit(fc) <= b
    <3>1. a \in Nat /\ a % Limit(fc) = 0
      BY SegmentBounds
    <3>2. b \in Nat /\ b % Limit(fc) = 0
      BY SegmentBounds
    <3>3. Limit(fc) \in Nat \ {0}
      BY LimitBounds
    <3> HIDE DEF Limit
    <3> QED BY <1>1, <3>1, <3>2, <3>3, MultiplesApart
  <2>2. props[i].offset + props[i].count <= SegmentEnd(fc, base, a) /\ b <= props[i].offset
    BY <1>1, HeldBounds
  <2>3. SegmentEnd(fc, base, a) <= a + Limit(fc) /\ SegmentEnd(fc, base, a) \in Nat /\ a \in Nat /\ b \in Nat
    BY SegmentBounds
  <2>4. props[i].count \in Nat \ {0} /\ props[i].offset \in Nat
    BY <1>1, HeldBounds, MemberReadable, ReadableValid
  <2>5. Limit(fc) \in Nat
    BY LimitBounds
  <2> HIDE DEF Limit, SegmentEnd
  <2> QED BY <2>1, <2>2, <2>3, <2>4, <2>5, SMTT(60)
<1>2. m \in Nat /\ n \in Nat
  BY SegmentBounds
<1> QED BY <1>1, <1>2

\* The request of a segment, and that of a property of its own.
SegmentOf(fc, base, n) ==
  Request(fc, base + n, SegmentEnd(fc, base, n) - n, {Member(i, n) : i \in Held(fc, base, n)})
SingleOf(fc, base, i) ==
  Request(fc, base + props[i].offset, UnitSpan(props[i]), {Member(i, props[i].offset)})

InSegment(fc, base, i) == \E n \in Starts(fc, base) : i \in Held(fc, base, n)

\* Does request r read property i?
Reads(r, i) == \E m \in r.members : m.prop = i

\* A request is that of a segment or of a single property of a bucket.
LEMMA RequestForms ==
  ASSUME NEW r
  PROVE  r \in ReadRequests <=>
           \E b \in Buckets :
             \/ \E n \in Starts(b[1], b[2]) : r = SegmentOf(b[1], b[2], n)
             \/ \E i \in Members(b[1], b[2]) :
                  ~InSegment(b[1], b[2], i) /\ r = SingleOf(b[1], b[2], i)
<1>1. \A fc, base : r \in Segments(fc, base) <=> \E n \in Starts(fc, base) : r = SegmentOf(fc, base, n)
  BY Zenon DEF Segments, SegmentOf
<1>2. \A fc, base : r \in Singles(fc, base) <=>
        \E i \in Members(fc, base) : ~InSegment(fc, base, i) /\ r = SingleOf(fc, base, i)
  BY Zenon DEF Singles, SingleOf, InSegment
<1>3. r \in ReadRequests <=> \E b \in Buckets : r \in Segments(b[1], b[2]) \/ r \in Singles(b[1], b[2])
  BY Zenon DEF ReadRequests
<1> QED BY <1>1, <1>2, <1>3, Zenon

\* The request of a segment reads what the segment holds.
LEMMA SegmentReads ==
  ASSUME NEW fc, NEW base, NEW n, NEW i
  PROVE  Reads(SegmentOf(fc, base, n), i) <=> i \in Held(fc, base, n)
<1>1. SegmentOf(fc, base, n).members = {Member(j, n) : j \in Held(fc, base, n)}
  BY DEF SegmentOf, Request
<1>2. \A j : Member(j, n).prop = j
  BY DEF Member
<1> QED BY <1>1, <1>2, Zenon DEF Reads

\* The request of a single property reads that one.
LEMMA SingleReads ==
  ASSUME NEW fc, NEW base, NEW j, NEW i
  PROVE  Reads(SingleOf(fc, base, j), i) <=> i = j
<1>1. SingleOf(fc, base, j).members = {Member(j, props[j].offset)}
  BY DEF SingleOf, Request
<1>2. Member(j, props[j].offset).prop = j
  BY DEF Member
<1> QED BY <1>1, <1>2, Zenon DEF Reads

\* A bucket has a function code.
LEMMA BucketCode ==
  ASSUME NEW b \in Buckets
  PROVE  b[1] > 0
BY DEF Buckets

\* Every readable property is read by exactly one request.
LEMMA ReadOnce ==
  ASSUME props \in Seq(PropMeta), AllValid, NEW i, Readable(i)
  PROVE  \E r \in ReadRequests : Reads(r, i) /\ \A q \in ReadRequests : Reads(q, i) => q = r
<1> DEFINE fc == props[i].readFC
           base == props[i].base
<1>1. <<fc, base>> \in Buckets /\ i \in Members(fc, base) /\ fc > 0
  BY DEF Readable, Buckets, Members
<1>2. ASSUME NEW q \in ReadRequests, Reads(q, i)
      PROVE  \/ \E n \in Starts(fc, base) : i \in Held(fc, base, n) /\ q = SegmentOf(fc, base, n)
             \/ ~InSegment(fc, base, i) /\ q = SingleOf(fc, base, i)
  <2>1. PICK b \in Buckets :
             \/ \E n \in Starts(b[1], b[2]) : q = SegmentOf(b[1], b[2], n)
             \/ \E j \in Members(b[1], b[2]) :
                  ~InSegment(b[1], b[2], j) /\ q = SingleOf(b[1], b[2], j)
    BY RequestForms
  <2>2. b[1] > 0
    BY BucketCode
  <2>3. CASE \E n \in Starts(b[1], b[2]) : q = SegmentOf(b[1], b[2], n)
    <3>1. PICK n \in Starts(b[1], b[2]) : q = SegmentOf(b[1], b[2], n)
      BY <2>3
    <3>2. i \in Held(b[1], b[2], n)
      BY <1>2, <3>1, SegmentReads, SingleReads
    <3>3. i \in Members(b[1], b[2])
      BY <3>2 DEF Held
    <3>4. b[1] = fc /\ b[2] = base
      BY <3>3 DEF Members
    <3> QED BY <3>1, <3>2, <3>4
  <2>4. CASE \E j \in Members(b[1], b[2]) :
               ~InSegment(b[1], b[2], j) /\ q = SingleOf(b[1], b[2], j)
    <3>1. PICK j \in Members(b[1], b[2]) :
               ~InSegment(b[1], b[2], j) /\ q = SingleOf(b[1], b[2], j)
      BY <2>4
    <3>2. i = j
      BY <1>2, <3>1, SegmentReads, SingleReads
    <3>3. b[1] = fc /\ b[2] = base
      BY <3>1, <3>2 DEF Members
    <3> QED BY <3>1, <3>2, <3>3
  <2> QED BY <2>1, <2>3, <2>4
<1> HIDE DEF fc, base
<1>3. CASE InSegment(fc, base, i)
  <2>1. PICK n \in Starts(fc, base) : i \in Held(fc, base, n)
    BY <1>3 DEF InSegment
  <2>2. SegmentOf(fc, base, n) \in ReadRequests
    <3>1. <<fc, base>>[1] = fc /\ <<fc, base>>[2] = base
      OBVIOUS
    <3> QED BY <1>1, <3>1, RequestForms
  <2>3. Reads(SegmentOf(fc, base, n), i)
    BY <2>1, SegmentReads, SingleReads
  <2>4. ASSUME NEW q \in ReadRequests, Reads(q, i) PROVE q = SegmentOf(fc, base, n)
    <3>1. PICK k \in Starts(fc, base) : i \in Held(fc, base, k) /\ q = SegmentOf(fc, base, k)
      BY <1>2, <1>3, <2>4
    <3>2. k = n
      BY <1>1, <2>1, <3>1, HeldOnce
    <3> QED BY <3>1, <3>2
  <2> QED BY <2>2, <2>3, <2>4
<1>4. CASE ~InSegment(fc, base, i)
  <2>1. SingleOf(fc, base, i) \in ReadRequests
    <3>1. <<fc, base>>[1] = fc /\ <<fc, base>>[2] = base
      OBVIOUS
    <3> QED BY <1>1, <1>4, <3>1, RequestForms
  <2>2. Reads(SingleOf(fc, base, i), i)
    BY SegmentReads, SingleReads
  <2>3. ASSUME NEW q \in ReadRequests, Reads(q, i) PROVE q = SingleOf(fc, base, i)
    BY <1>2, <1>4, <2>3 DEF InSegment
  <2> QED BY <2>1, <2>2, <2>3
<1> QED BY <1>3, <1>4

\* A request reads only readable properties, and at least one.
LEMMA ReadsReadable ==
  ASSUME NEW r \in ReadRequests
  PROVE  /\ \A i : Reads(r, i) => Readable(i)
         /\ \E i : Reads(r, i)
<1>1. PICK b \in Buckets :
             \/ \E n \in Starts(b[1], b[2]) : r = SegmentOf(b[1], b[2], n)
             \/ \E j \in Members(b[1], b[2]) :
                  ~InSegment(b[1], b[2], j) /\ r = SingleOf(b[1], b[2], j)
  BY RequestForms
<1>2. b[1] > 0
  BY BucketCode
<1>3. CASE \E n \in Starts(b[1], b[2]) : r = SegmentOf(b[1], b[2], n)
  <2>1. PICK n \in Starts(b[1], b[2]) : r = SegmentOf(b[1], b[2], n)
    BY <1>3
  <2>2. Held(b[1], b[2], n) # {} /\ Held(b[1], b[2], n) \subseteq Members(b[1], b[2])
    BY DEF Starts, Held
  <2>3. \A i : Reads(r, i) <=> i \in Held(b[1], b[2], n)
    BY <2>1, SegmentReads
  <2> QED BY <1>2, <2>2, <2>3, MemberReadable
<1>4. CASE \E j \in Members(b[1], b[2]) :
             ~InSegment(b[1], b[2], j) /\ r = SingleOf(b[1], b[2], j)
  <2>1. PICK j \in Members(b[1], b[2]) : r = SingleOf(b[1], b[2], j)
    BY <1>4
  <2>2. \A i : Reads(r, i) <=> i = j
    BY <2>1, SingleReads
  <2> QED BY <1>2, <2>1, <2>2, MemberReadable
<1> QED BY <1>1, <1>3, <1>4

\* There are finitely many requests: each has a property of its own.
LEMMA RequestsFinite ==
  ASSUME props \in Seq(PropMeta), AllValid
  PROVE  IsFiniteSet(ReadRequests)
<1> DEFINE f == [r \in ReadRequests |-> CHOOSE i : Reads(r, i)]
<1>1. \A r \in ReadRequests : Reads(r, f[r])
  BY ReadsReadable
<1>2. \A r \in ReadRequests : f[r] \in DOMAIN props
  BY <1>1, ReadsReadable DEF Readable
<1>3. \A q, r \in ReadRequests : f[q] = f[r] => q = r
  <2> SUFFICES ASSUME NEW q \in ReadRequests, NEW r \in ReadRequests, f[q] = f[r]
               PROVE  q = r
    OBVIOUS
  <2>1. Reads(q, f[r]) /\ Reads(r, f[r])
    BY <1>1
  <2>2. Readable(f[r])
    BY <2>1, ReadsReadable
  <2> HIDE DEF f
  <2> QED BY <2>1, <2>2, ReadOnce
<1>4. f \in Injection(ReadRequests, DOMAIN props)
  BY <1>2, <1>3 DEF Injection, IsInjective
<1>5. IsFiniteSet(DOMAIN props)
  <2>1. DOMAIN props = 1 .. Len(props) /\ Len(props) \in Nat
    OBVIOUS
  <2> QED BY <2>1, FS_Interval
<1> HIDE DEF f
<1> QED BY <1>4, <1>5, FS_Injection

\* A plan lists every request exactly once, and nothing else.
LEMMA PlanLists ==
  ASSUME props \in Seq(PropMeta), AllValid, NEW list \in Plans
  PROVE  /\ list \in Seq(ReadRequests)
         /\ \A j, k \in DOMAIN list : list[j] = list[k] => j = k
         /\ \A r \in ReadRequests : \E k \in DOMAIN list : list[k] = r
<1> DEFINE n == Cardinality(ReadRequests)
<1>1. n \in Nat /\ IsFiniteSet(ReadRequests)
  BY RequestsFinite, FS_CardinalityType
<1>2. list \in [1 .. n -> ReadRequests] /\ \A j, k \in 1 .. n : j # k => list[j] # list[k]
  BY DEF Plans, SetToSeqs
<1>3. list \in Injection(1 .. n, ReadRequests)
  BY <1>2 DEF Injection, IsInjective
<1>4. IsFiniteSet(1 .. n) /\ Cardinality(1 .. n) = n
  BY <1>1, FS_Interval
<1>5. list \in Surjection(1 .. n, ReadRequests)
  BY <1>1, <1>3, <1>4, FS_Injection
<1>6. \A r \in ReadRequests : \E k \in 1 .. n : list[k] = r
  BY <1>5 DEF Surjection
<1> HIDE DEF n
<1> QED BY <1>1, <1>2, <1>6

\* The answer to a request of bits holds the bytes of a member of it.
LEMMA BitsFit ==
  ASSUME NEW at \in Nat, NEW count \in Nat \ {0}, NEW quantity \in Nat, at + count <= quantity
  PROVE  /\ at \div 8 \in Nat
         /\ CeilDiv8((at % 8) + count) \in Nat \ {0}
         /\ (at \div 8) + CeilDiv8((at % 8) + count) <= CeilDiv8(quantity)
BY DEF CeilDiv8

\* The place of a member of a request in its answer.
LEMMA MemberPlace ==
  ASSUME props \in Seq(PropMeta), AllValid, NEW i, Readable(i), NEW from \in Nat,
         from <= props[i].offset, NEW quantity \in Nat,
         props[i].offset - from + props[i].count <= quantity,
         NEW fc, fc = props[i].readFC
  PROVE  /\ Member(i, from).prop = i
         /\ Member(i, from).at \in Nat
         /\ Member(i, from).len \in Nat \ {0}
         /\ Member(i, from).at + Member(i, from).len
              <= IF IsBitFC(fc) THEN CeilDiv8(quantity) ELSE 2 * quantity
<1> DEFINE at == props[i].offset - from
           c == props[i].count
<1>1. /\ props[i].offset \in Nat /\ c \in Nat \ {0} /\ BitSpan(props[i]) = c
      /\ IsBitSpace(props[i]) = IsBitFC(fc)
  BY ReadableValid
<1>2. at \in Nat /\ at + c <= quantity
  BY <1>1
<1>3. /\ Member(i, from).prop = i
      /\ Member(i, from).at = ByteOffset(props[i], at)
      /\ Member(i, from).len = ByteLen(props[i], at)
  BY DEF Member
<1>4. CASE IsBitFC(fc)
  <2>1. ByteOffset(props[i], at) = at \div 8 /\ ByteLen(props[i], at) = CeilDiv8((at % 8) + c)
    BY <1>1, <1>4 DEF ByteOffset, ByteLen
  <2> HIDE DEF at, c
  <2> QED BY <1>1, <1>2, <1>3, <1>4, <2>1, BitsFit
<1>5. CASE ~IsBitFC(fc)
  <2>1. ByteOffset(props[i], at) = at * 2 /\ ByteLen(props[i], at) = c * 2
    BY <1>1, <1>5 DEF ByteOffset, ByteLen
  <2> HIDE DEF at, c
  <2> QED BY <1>1, <1>2, <1>3, <1>5, <2>1
<1> QED BY <1>4, <1>5

\* What RequestsLegal says of one request, and the type of its members.
LegalRequest(g) ==
  /\ LegalRead(g.fc, g.start, g.quantity)
  /\ g.quantity > Limit(g.fc) => \A m \in g.members : UnitSpan(props[m.prop]) = g.quantity
  /\ \A m \in g.members : m.at + m.len <= AnswerBytes(g)

\* How a request reads property i: with its function code, in its place.
Places(g, i, m) ==
  /\ m = Member(i, g.start - props[i].base)
  /\ g.fc = props[i].readFC
  /\ g.start \in Nat /\ g.quantity \in Nat
  /\ g.start <= props[i].base + props[i].offset
  /\ props[i].base + props[i].offset + props[i].count <= g.start + g.quantity
  /\ m.at \in Nat
  /\ m.len \in Nat \ {0}

\* The request of a segment is legal and places its members.
LEMMA SegmentLegal ==
  ASSUME props \in Seq(PropMeta), AllValid, NEW fc, NEW base, fc > 0, NEW n \in Starts(fc, base)
  PROVE  /\ LegalRequest(SegmentOf(fc, base, n))
         /\ \A m \in SegmentOf(fc, base, n).members :
              Readable(m.prop) /\ Places(SegmentOf(fc, base, n), m.prop, m)
<1> DEFINE r == SegmentOf(fc, base, n)
           end == SegmentEnd(fc, base, n)
<1>1. r.fc = fc /\ r.start = base + n /\ r.quantity = end - n
  BY DEF SegmentOf, Request
<1>2. r.members = {Member(i, n) : i \in Held(fc, base, n)}
  BY DEF SegmentOf, Request
<1>3. /\ n \in Nat /\ end \in Nat /\ end <= n + Limit(fc) /\ base \in Nat
      /\ base + end <= MaxAddress + 1 /\ Held(fc, base, n) # {}
  BY SegmentBounds
<1>4. /\ Limit(fc) \in Nat \ {0}
      /\ Limit(fc) <= IF IsBitFC(fc) THEN MaxReadBits ELSE MaxReadRegisters
  BY LimitBounds
<1>5. ASSUME NEW i \in Held(fc, base, n)
      PROVE  /\ Readable(i) /\ props[i].readFC = fc /\ props[i].base = base
             /\ n <= props[i].offset
             /\ props[i].offset + props[i].count <= end
             /\ props[i].offset \in Nat /\ props[i].count \in Nat \ {0}
  BY HeldBounds, MemberReadable, ReadableValid
<1> HIDE DEF end, r
<1>6. PICK h \in Held(fc, base, n) : TRUE
  BY <1>3
<1>7. end - n \in Nat \ {0} /\ end - n <= Limit(fc)
  <2>1. n <= props[h].offset /\ props[h].offset + props[h].count <= end
        /\ props[h].offset \in Nat /\ props[h].count \in Nat \ {0}
    BY <1>5
  <2> HIDE DEF Limit
  <2> QED BY <1>3, <1>4, <2>1, SMTT(60)
<1>8. LegalRead(r.fc, r.start, r.quantity)
  BY <1>1, <1>3, <1>4, <1>7, LimitsAssumption DEF LegalRead
<1>9. ASSUME NEW i \in Held(fc, base, n)
      PROVE  /\ Places(r, i, Member(i, n)) /\ Member(i, n).prop = i
             /\ Member(i, n).at + Member(i, n).len <= AnswerBytes(r)
  <2>1. /\ Member(i, n).prop = i
        /\ Member(i, n).at \in Nat
        /\ Member(i, n).len \in Nat \ {0}
        /\ Member(i, n).at + Member(i, n).len
             <= IF IsBitFC(fc) THEN CeilDiv8(end - n) ELSE 2 * (end - n)
    <3>1. props[i].offset - n + props[i].count <= end - n
      BY <1>3, <1>5
    <3> QED BY <1>3, <1>5, <1>7, <3>1, MemberPlace
  <2>2. r.start - props[i].base = n
    BY <1>1, <1>3, <1>5
  <2>3. /\ r.fc = props[i].readFC /\ r.start \in Nat /\ r.quantity \in Nat
        /\ r.start <= props[i].base + props[i].offset
        /\ props[i].base + props[i].offset + props[i].count <= r.start + r.quantity
    BY <1>1, <1>3, <1>5, <1>7, SMTT(60)
  <2> QED BY <1>1, <2>1, <2>2, <2>3 DEF Places, AnswerBytes
<1>10. ~(r.quantity > Limit(r.fc))
  BY <1>1, <1>4, <1>7
<1>11. LegalRequest(r)
  BY <1>2, <1>8, <1>9, <1>10, Zenon DEF LegalRequest
<1>12. \A m \in r.members : Readable(m.prop) /\ Places(r, m.prop, m)
  <2> SUFFICES ASSUME NEW i \in Held(fc, base, n), NEW m, m = Member(i, n)
               PROVE  Readable(m.prop) /\ Places(r, m.prop, m)
    BY <1>2
  <2> QED BY <1>5, <1>9
<1> QED BY <1>11, <1>12 DEF r

\* The request of a single property is legal and places it.
LEMMA SingleLegal ==
  ASSUME props \in Seq(PropMeta), AllValid, NEW fc, NEW base, fc > 0, NEW i \in Members(fc, base)
  PROVE  /\ LegalRequest(SingleOf(fc, base, i))
         /\ \A m \in SingleOf(fc, base, i).members :
              Readable(m.prop) /\ Places(SingleOf(fc, base, i), m.prop, m)
<1> DEFINE r == SingleOf(fc, base, i)
           n == props[i].offset
<1>1. Readable(i) /\ props[i].readFC = fc /\ props[i].base = base
  BY MemberReadable
<1>2. /\ n \in Nat /\ props[i].count \in Nat \ {0} /\ base \in 0 .. MaxAddress
      /\ props[i].count <= IF IsBitFC(fc) THEN MaxReadBits ELSE MaxReadRegisters
      /\ UnitSpan(props[i]) = props[i].count
      /\ base + n + props[i].count <= MaxAddress + 1
  <2>1. base + End(i) <= MaxAddress + 1 /\ End(i) = n + props[i].count /\ base \in 0 .. MaxAddress
    BY <1>1, ReadableValid
  <2>2. n \in Nat /\ props[i].count \in Nat \ {0}
    BY <1>1, ReadableValid
  <2>3. base + n + props[i].count <= MaxAddress + 1
    BY <2>1, <2>2
  <2> QED BY <1>1, <2>1, <2>2, <2>3, ReadableValid
<1>3. /\ r.fc = fc /\ r.start = base + n /\ r.quantity = props[i].count
      /\ r.members = {Member(i, n)}
  BY <1>2 DEF SingleOf, Request
<1> HIDE DEF r
<1>4. LegalRead(r.fc, r.start, r.quantity)
  <2>1. MaxAddress \in Nat
    BY LimitsAssumption
  <2> HIDE DEF n
  <2> QED BY <1>2, <1>3, <2>1 DEF LegalRead
<1>5. /\ Member(i, n).prop = i
      /\ Member(i, n).at \in Nat
      /\ Member(i, n).len \in Nat \ {0}
      /\ Member(i, n).at + Member(i, n).len
           <= IF IsBitFC(fc) THEN CeilDiv8(props[i].count) ELSE 2 * props[i].count
  <2>1. n - n + props[i].count <= props[i].count /\ n <= n /\ props[i].count \in Nat
    BY <1>2
  <2>2. fc = props[i].readFC
    BY <1>1
  <2> QED BY <1>1, <1>2, <2>1, <2>2, MemberPlace
<1>6. r.start - props[i].base = n
  BY <1>1, <1>2, <1>3
<1>7. Places(r, i, Member(i, n))
  <2>1. r.start \in Nat /\ r.quantity \in Nat /\ r.start = base + n
    BY <1>2, <1>3
  <2>2. /\ r.start <= props[i].base + props[i].offset
        /\ props[i].base + props[i].offset + props[i].count <= r.start + r.quantity
    BY <1>1, <1>2, <1>3
  <2>3. r.fc = props[i].readFC
    BY <1>1, <1>3
  <2> QED BY <1>5, <1>6, <2>1, <2>2, <2>3, Zenon DEF Places
<1>8. Member(i, n).at + Member(i, n).len <= AnswerBytes(r)
  BY <1>3, <1>5 DEF AnswerBytes
<1>9. UnitSpan(props[Member(i, n).prop]) = r.quantity
  BY <1>2, <1>3, <1>5
<1> HIDE DEF n
<1>10. LegalRequest(r)
  BY <1>3, <1>4, <1>8, <1>9, Zenon DEF LegalRequest
<1> QED BY <1>1, <1>3, <1>5, <1>7, <1>10 DEF r

\* Every request is legal and places its members.
LEMMA RequestLegal ==
  ASSUME props \in Seq(PropMeta), AllValid, NEW r \in ReadRequests
  PROVE  LegalRequest(r) /\ \A m \in r.members : Readable(m.prop) /\ Places(r, m.prop, m)
<1>1. PICK b \in Buckets :
             \/ \E n \in Starts(b[1], b[2]) : r = SegmentOf(b[1], b[2], n)
             \/ \E j \in Members(b[1], b[2]) :
                  ~InSegment(b[1], b[2], j) /\ r = SingleOf(b[1], b[2], j)
  BY RequestForms
<1>2. b[1] > 0
  BY BucketCode
<1> QED BY <1>1, <1>2, SegmentLegal, SingleLegal

-----------------------------------------------------------------------------
\* A configured device has a plan of its valid model, and no other has one.
PlanInv ==
  IF phase \in {"new", "rejected"} THEN groups = << >>
  ELSE AllValid /\ groups \in Plans

\* The plans are those of the model: they change only with it.
LEMMA PlansSame ==
  ASSUME props' = props
  PROVE  Plans' = Plans /\ AllValid' = AllValid
<1>1. Buckets' = Buckets /\ AllValid' = AllValid
  BY DEF Buckets, AllValid
<1>2. \A fc, base : Members(fc, base)' = Members(fc, base)
  BY DEF Members
<1>3. \A i : End(i)' = End(i)
  BY DEF End
<1>4. \A fc, base : Reach(fc, base)' = Reach(fc, base)
  BY <1>2, <1>3 DEF Reach
<1>5. \A fc, base, n : SegmentEnd(fc, base, n)' = SegmentEnd(fc, base, n)
  BY <1>4 DEF SegmentEnd
<1>6. \A fc, base, n : Held(fc, base, n)' = Held(fc, base, n)
  BY <1>2, <1>3, <1>5 DEF Held
<1>7. \A fc, base : Starts(fc, base)' = Starts(fc, base)
  BY <1>4, <1>6 DEF Starts
<1>8. \A i, n : Member(i, n)' = Member(i, n)
  BY DEF Member
<1>9. \A fc, base : Segments(fc, base)' = Segments(fc, base)
  <2>1. \A fc, base, n : SegmentOf(fc, base, n)' = SegmentOf(fc, base, n)
    BY <1>5, <1>6, <1>8 DEF SegmentOf
  <2>2. \A fc, base : Segments(fc, base) = {SegmentOf(fc, base, n) : n \in Starts(fc, base)}
    BY DEF Segments, SegmentOf
  <2>3. \A fc, base : Segments(fc, base)' = {SegmentOf(fc, base, n)' : n \in Starts(fc, base)'}
    BY DEF Segments, SegmentOf
  <2> QED BY <1>7, <2>1, <2>2, <2>3
<1>10. \A fc, base : Singles(fc, base)' = Singles(fc, base)
  <2> SUFFICES ASSUME NEW fc, NEW base PROVE Singles(fc, base)' = Singles(fc, base)
    OBVIOUS
  <2> DEFINE rest == Members(fc, base) \ UNION {Held(fc, base, n) : n \in Starts(fc, base)}
  <2>1. rest' = rest
    BY <1>2, <1>6, <1>7
  <2>2. \A i : SingleOf(fc, base, i)' = SingleOf(fc, base, i)
    BY <1>8 DEF SingleOf
  <2>3. /\ Singles(fc, base) = {SingleOf(fc, base, i) : i \in rest}
        /\ Singles(fc, base)' = {SingleOf(fc, base, i)' : i \in rest'}
    BY DEF Singles, SingleOf
  <2> HIDE DEF rest
  <2> QED BY <2>1, <2>2, <2>3
<1>11. ReadRequests' = ReadRequests
  BY <1>1, <1>9, <1>10 DEF ReadRequests
<1> QED BY <1>1, <1>11 DEF Plans

\* A plan reads every readable property in exactly one of its requests.
LEMMA PlanReadsOnce ==
  ASSUME props \in Seq(PropMeta), AllValid, groups \in Plans, NEW i \in DOMAIN props
  PROVE  LET uses == {k \in DOMAIN groups : \E m \in groups[k].members : m.prop = i}
         IN Cardinality(uses) = IF CanRead(props[i]) /\ props[i].readFC > 0 THEN 1 ELSE 0
<1> DEFINE uses == {k \in DOMAIN groups : \E m \in groups[k].members : m.prop = i}
<1>1. uses = {k \in DOMAIN groups : Reads(groups[k], i)}
  BY DEF Reads
<1>2. \A k \in DOMAIN groups : groups[k] \in ReadRequests
  BY PlanLists
<1> HIDE DEF uses
<1>3. CASE Readable(i)
  <2>1. PICK r \in ReadRequests : Reads(r, i) /\ \A q \in ReadRequests : Reads(q, i) => q = r
    BY <1>3, ReadOnce
  <2>2. PICK k \in DOMAIN groups : groups[k] = r
    BY PlanLists
  <2>3. \A j \in DOMAIN groups : Reads(groups[j], i) => j = k
    BY <1>2, <2>1, <2>2, PlanLists
  <2>4. uses = {k}
    BY <1>1, <2>1, <2>2, <2>3
  <2>5. Cardinality(uses) = 1
    BY <2>4, FS_Singleton
  <2> QED BY <1>3, <2>5 DEF Readable, uses
<1>4. CASE ~Readable(i)
  <2>1. uses = {}
    BY <1>1, <1>2, <1>4, ReadsReadable
  <2>2. Cardinality(uses) = 0
    BY <2>1, FS_EmptySet
  <2> QED BY <1>4, <2>2 DEF Readable, uses
<1> QED BY <1>3, <1>4

\* What holds of a device's plan.
DevicePlanInv == DeviceTypeOK /\ PlanInv

\* What a plan's requests read are properties of the model.
LEMMA PlanTyped ==
  ASSUME props \in Seq(PropMeta), AllValid, groups \in Plans
  PROVE  /\ groups \in Seq(ReadRequests)
         /\ \A k \in DOMAIN groups : \A m \in groups[k].members :
              m.prop \in DOMAIN props /\ m.at \in Nat /\ m.len \in Nat \ {0}
<1>1. groups \in Seq(ReadRequests)
  BY PlanLists
<1> QED BY <1>1, RequestLegal DEF Readable, Places

\* Every legal plan has its requests in range, and reads a property once.
LEMMA PlanInvSound ==
  ASSUME DevicePlanInv
  PROVE  PlanSound
<1>1. props \in Seq(PropMeta)
  BY DEF DevicePlanInv, DeviceTypeOK
<1>2. CASE phase \in {"new", "rejected"}
  <2>1. groups = << >>
    BY <1>2 DEF DevicePlanInv, PlanInv
  <2> QED BY <1>2, <2>1 DEF PlanSound, GroupedOnce, RequestsLegal
<1>3. CASE phase \notin {"new", "rejected"}
  <2>1. AllValid /\ groups \in Plans
    BY <1>3 DEF DevicePlanInv, PlanInv
  <2>2. GroupedOnce
    BY <1>1, <2>1, PlanReadsOnce DEF GroupedOnce
  <2>3. \A k \in DOMAIN groups : LegalRequest(groups[k])
    BY <1>1, <2>1, PlanTyped, RequestLegal
  <2>4. RequestsLegal
    BY <2>3 DEF RequestsLegal, LegalRequest
  <2> QED BY <2>2, <2>4 DEF PlanSound
<1> QED BY <1>2, <1>3

\* A device begins without a plan.
LEMMA DeviceInitInv == DeviceInit => DevicePlanInv
<1> SUFFICES ASSUME DeviceInit PROVE DevicePlanInv
  OBVIOUS
<1>1. props \in Seq(PropMeta) /\ groups = << >>
  BY DeviceAssumption DEF DeviceInit
<1>2. phase = "new" /\ restarted = FALSE /\ gi = 0 /\ target = 0 /\ frames = << >>
  BY DEF DeviceInit
<1>3. fresh = {} /\ wrote = {} /\ DOMAIN cache = DOMAIN props
  BY DEF DeviceInit
<1>4. Len(groups) = 0 /\ DOMAIN groups = {}
  BY <1>1
<1>5. fresh \subseteq DOMAIN props /\ wrote \subseteq DOMAIN props /\ gi \in 0 .. Len(groups)
  BY <1>2, <1>3, <1>4
<1>6. DeviceTypeOK
  BY <1>1, <1>2, <1>3, <1>4, <1>5, Zenon DEF DeviceTypeOK
<1> QED BY <1>1, <1>2, <1>6 DEF DevicePlanInv, PlanInv

\* A plan may be taken up: what follows for the types of groups.
LEMMA PlanTaken ==
  ASSUME props \in Seq(PropMeta), AllValid, groups' \in Plans, props' = props
  PROVE  /\ AllValid' /\ groups' \in Plans'
         /\ Len(groups') \in Nat
         /\ \A k \in DOMAIN groups' : \A m \in groups'[k].members :
              m.prop \in DOMAIN props' /\ m.at \in Nat /\ m.len \in Nat \ {0}
<1>1. AllValid' /\ groups' \in Plans'
  BY PlansSame
<1>2. groups' \in Seq(ReadRequests)
  BY PlanLists
<1>3. \A k \in DOMAIN groups' : groups'[k] \in ReadRequests
  BY <1>2
<1>4. \A r \in ReadRequests : \A m \in r.members :
        m.prop \in DOMAIN props /\ m.at \in Nat /\ m.len \in Nat \ {0}
  BY RequestLegal DEF Readable, Places
<1> QED BY <1>1, <1>2, <1>3, <1>4

\* The plan of a configured device is kept while its groups are.
LEMMA PlanKept ==
  ASSUME DevicePlanInv, UNCHANGED <<props, groups>>,
         phase \in {"new", "rejected"} <=> phase' \in {"new", "rejected"}
  PROVE  PlanInv'
BY PlansSame DEF DevicePlanInv, PlanInv

\* Every action keeps the types and the plan.
LEMMA DeviceStepInv == DevicePlanInv /\ [DeviceNext]_deviceVars => DevicePlanInv'
<1> SUFFICES ASSUME DevicePlanInv, [DeviceNext]_deviceVars PROVE DevicePlanInv'
  OBVIOUS
<1> USE DEF DevicePlanInv
<1>1. DeviceTypeOK /\ PlanInv /\ props \in Seq(PropMeta)
  BY DEF DeviceTypeOK
<1>2. Len(groups) \in Nat
  BY <1>1, PlanTyped DEF PlanInv
<1>3. CASE Configure
  <2>1. /\ phase = "new" /\ UNCHANGED <<props, restarted, runVars>>
        /\ gi = 0 \/ gi \in 0 .. Len(groups)
    BY <1>1, <1>3 DEF Configure, DeviceTypeOK
  <2>2. groups = << >> /\ gi = 0
    BY <1>1, <2>1 DEF PlanInv, DeviceTypeOK
  <2>3. CASE AllValid
    <3>1. phase' = "idle" /\ groups' \in Plans
      BY <1>3, <2>3 DEF Configure, AllValid
    <3>2. AllValid' /\ groups' \in Plans' /\ Len(groups') \in Nat
          /\ \A k \in DOMAIN groups' : \A m \in groups'[k].members :
               m.prop \in DOMAIN props' /\ m.at \in Nat /\ m.len \in Nat \ {0}
      BY <1>1, <2>1, <2>3, <3>1, PlanTaken
    <3>3. PlanInv'
      BY <3>1, <3>2 DEF PlanInv
    <3>4. DeviceTypeOK'
      BY <1>1, <2>1, <2>2, <3>1, <3>2 DEF DeviceTypeOK, runVars
    <3> QED BY <3>3, <3>4
  <2>4. CASE ~AllValid
    <3>1. phase' = "rejected" /\ groups' = groups
      BY <1>3, <2>4 DEF Configure, AllValid
    <3> QED BY <1>1, <2>1, <2>2, <3>1 DEF PlanInv, DeviceTypeOK, runVars
  <2> QED BY <2>3, <2>4
<1>4. CASE Reload
  <2>1. phase = "idle" /\ UNCHANGED <<phase, gi, frames, target, mem, wrote>> /\ props' = props
    BY <1>4 DEF Reload, planVars
  <2>2. AllValid /\ groups \in Plans
    BY <1>1, <2>1 DEF PlanInv
  <2>3. PICK plan \in Plans :
          \/ UNCHANGED <<groups, restarted, cache, fresh>>
          \/ /\ groups' = plan /\ restarted' = TRUE
             /\ cache' = [i \in DOMAIN props |-> Refused] /\ fresh' = {}
    BY <1>4 DEF Reload, planVars
  <2>4. groups' \in Plans /\ fresh' \subseteq DOMAIN props' /\ restarted' \in BOOLEAN
        /\ DOMAIN cache' = DOMAIN props'
    BY <1>1, <2>1, <2>2, <2>3 DEF DeviceTypeOK
  <2>5. AllValid' /\ groups' \in Plans' /\ Len(groups') \in Nat
        /\ \A k \in DOMAIN groups' : \A m \in groups'[k].members :
             m.prop \in DOMAIN props' /\ m.at \in Nat /\ m.len \in Nat \ {0}
    BY <1>1, <2>1, <2>2, <2>4, PlanTaken
  <2>6. Len(groups') = Len(groups)
    <3>1. groups \in [1 .. Cardinality(ReadRequests) -> ReadRequests]
      BY <2>2 DEF Plans, SetToSeqs
    <3>2. groups' \in [1 .. Cardinality(ReadRequests) -> ReadRequests]
      BY <2>4 DEF Plans, SetToSeqs
    <3>3. Cardinality(ReadRequests) \in Nat
      BY <1>1, <2>2, RequestsFinite, FS_CardinalityType
    <3> HIDE DEF ReadRequests
    <3> QED BY <3>1, <3>2, <3>3
  <2>7. PlanInv'
    BY <2>1, <2>5 DEF PlanInv
  <2>8. DeviceTypeOK'
    BY <1>1, <2>1, <2>4, <2>5, <2>6 DEF DeviceTypeOK
  <2> QED BY <2>7, <2>8
<1>5. CASE StartRound
  <2>1. PlanInv'
    BY <1>1, <1>5, PlanKept DEF StartRound, planVars
  <2> QED BY <1>1, <1>2, <1>5, <2>1 DEF StartRound, planVars, DeviceTypeOK
<1>6. CASE ReadGroup
  <2>1. PlanInv'
    BY <1>1, <1>6, PlanKept DEF ReadGroup, planVars
  <2>2. gi + 1 \in DOMAIN groups /\ gi' \in 0 .. Len(groups)
    <3>1. gi \in Nat /\ gi < Len(groups) /\ gi' = gi + 1
      BY <1>1, <1>2, <1>6 DEF ReadGroup, DeviceTypeOK
    <3>2. phase = "poll"
      BY <1>6 DEF ReadGroup
    <3>3. AllValid /\ groups \in Plans
      BY <1>1, <3>2 DEF PlanInv
    <3>4. groups \in Seq(ReadRequests)
      BY <1>1, <3>3, PlanTyped
    <3> QED BY <3>1, <3>4
  <2>3. \A m \in groups[gi + 1].members : m.prop \in DOMAIN props
    BY <1>1, <2>2 DEF DeviceTypeOK
  <2>4. DOMAIN cache' = DOMAIN props /\ fresh' \subseteq fresh \cup {m.prop : m \in groups[gi + 1].members}
    BY <1>6 DEF ReadGroup
  <2>5. UNCHANGED <<phase, props, groups, restarted, frames, target, wrote>>
    BY <1>6 DEF ReadGroup, planVars
  <2> QED BY <1>1, <2>1, <2>2, <2>3, <2>4, <2>5 DEF DeviceTypeOK
<1>7. CASE SkipGroup
  <2>1. PlanInv'
    BY <1>1, <1>7, PlanKept DEF SkipGroup, planVars
  <2> QED BY <1>1, <1>2, <1>7, <2>1 DEF SkipGroup, planVars, DeviceTypeOK
<1>8. CASE EndRound
  <2>1. PlanInv'
    BY <1>1, <1>8, PlanKept DEF EndRound, planVars
  <2> QED BY <1>1, <1>8, <2>1 DEF EndRound, planVars, runVars, DeviceTypeOK
<1>9. ASSUME NEW i \in DOMAIN props, StartWrite(i) PROVE DevicePlanInv'
  <2>1. PlanInv'
    BY <1>1, <1>9, PlanKept DEF StartWrite, planVars
  <2> QED BY <1>1, <1>9, <2>1 DEF StartWrite, planVars, DeviceTypeOK
<1>10. CASE WriteFrame
  <2>1. PlanInv'
    BY <1>1, <1>10, PlanKept DEF WriteFrame, planVars
  <2>2. wrote' \subseteq wrote /\ fresh' \subseteq fresh /\ phase' = "write" /\ phase = "write"
        /\ UNCHANGED <<props, groups, restarted, gi, cache, target>>
    BY <1>10 DEF WriteFrame, planVars
  <2> QED BY <1>1, <2>1, <2>2 DEF DeviceTypeOK
<1>11. CASE WriteFailed
  <2>1. PlanInv'
    BY <1>1, <1>11, PlanKept DEF WriteFailed, planVars
  <2> QED BY <1>1, <1>11, <2>1 DEF WriteFailed, planVars, DeviceTypeOK
<1>12. CASE WriteDone
  <2>1. PlanInv'
    BY <1>1, <1>12, PlanKept DEF WriteDone, planVars
  <2>2. /\ phase = "write" /\ phase' = "idle" /\ frames' = << >> /\ wrote' = wrote \cup {target}
        /\ UNCHANGED <<props, groups, restarted, gi, cache, target, fresh>>
    BY <1>12 DEF WriteDone, planVars
  <2> QED BY <1>1, <2>1, <2>2 DEF DeviceTypeOK
<1>13. CASE UNCHANGED deviceVars
  <2>1. PlanInv'
    BY <1>1, <1>13, PlanKept DEF deviceVars, planVars
  <2>2. UNCHANGED <<phase, props, groups, restarted, gi, cache, frames, target, fresh, wrote>>
    BY <1>13 DEF deviceVars, planVars, runVars
  <2>3. DeviceTypeOK'
    BY <1>1, <2>2 DEF DeviceTypeOK
  <2> QED BY <2>1, <2>3
<1> QED BY <1>3, <1>4, <1>5, <1>6, <1>7, <1>8, <1>9, <1>10, <1>11, <1>12, <1>13 DEF DeviceNext

\* A device that has been configured is read by a plan of its model, and the
\* model is valid, whatever is read, written and reloaded.
LEMMA DevicePlanned == DeviceSpec => []DevicePlanInv
BY DeviceInitInv, DeviceStepInv, PTL DEF DeviceSpec

\* A device keeps the types of its state.
THEOREM DeviceTypeCorrect == DeviceSpec => []DeviceTypeOK
<1>1. DevicePlanInv => DeviceTypeOK
  BY DEF DevicePlanInv
<1> QED BY <1>1, DevicePlanned, PTL

\* Whatever the model and its maxRegisterCount, every readable property is read
\* by exactly one request, and no request is refused or too short for a member
\* (BuildGroups).
THEOREM PlansSound == DeviceSpec => []PlanSound
BY DevicePlanned, PlanInvSound, PTL

-----------------------------------------------------------------------------
\* The registers of property i as the device answers them.
OwnBytes(i) == Response(props[i].readFC, props[i].base + props[i].offset, props[i].count)

\* The bits of those registers.
OwnBits(i) == UNION {ToSet(cell) : cell \in ToSet(OwnCells(i))}

\* A written register holds 16 bits.
MemInv ==
  /\ DOMAIN mem = {1, 3}
  /\ DOMAIN mem[1] = Addresses /\ DOMAIN mem[3] = Addresses
  /\ \A a \in Addresses : mem[3][a] = << >> \/ DOMAIN mem[3][a] = 1 .. 16

\* What is fresh is the value of the property's own registers.
FreshInv ==
  \A i \in fresh :
    /\ AllValid /\ Readable(i)
    /\ ~IsBitSpace(props[i]) =>
         /\ cache[i] = MapRegistersAt(OwnBytes(i), props[i], 0)
         /\ cache[i] # Refused

\* A part of a sequence, by its places.
LEMMA SubSeqPart ==
  ASSUME NEW n \in Nat, NEW S, NEW s \in [1 .. n -> S], NEW a \in Nat, NEW l \in Nat, a + l <= n
  PROVE  /\ SubSeq(s, a + 1, a + l) \in [1 .. l -> S]
         /\ \A k \in 1 .. l : SubSeq(s, a + 1, a + l)[k] = s[a + k]
<1>1. s \in Seq(S) /\ Len(s) = n
  OBVIOUS
<1>2. SubSeq(s, a + 1, a + l) = [k \in 1 .. l |-> s[a + k]]
  <2>1. Len(SubSeq(s, a + 1, a + l)) = l /\ SubSeq(s, a + 1, a + l) \in Seq(S)
    BY <1>1, SubSeqProperties
  <2>2. \A k \in 1 .. l : SubSeq(s, a + 1, a + l)[k] = s[a + k]
    BY <1>1, <2>1, SubSeqProperties
  <2> QED BY <2>1, <2>2
<1>3. \A k \in 1 .. l : a + k \in 1 .. n
  OBVIOUS
<1>4. \A k \in 1 .. l : s[a + k] \in S
  BY <1>3
<1> QED BY <1>2, <1>4, Zenon

\* The first elements of a sequence.
LEMMA SubSeqFirst ==
  ASSUME NEW n \in Nat, NEW S, NEW s \in [1 .. n -> S], NEW l \in Nat, l <= n
  PROVE  /\ SubSeq(s, 1, l) \in [1 .. l -> S]
         /\ \A k \in 1 .. l : SubSeq(s, 1, l)[k] = s[k]
<1>1. PICK a \in Nat : a = 0
  OBVIOUS
<1>2. a + l <= n
  BY <1>1
<1>3. SubSeq(s, a + 1, a + l) \in [1 .. l -> S] /\ \A k \in 1 .. l : SubSeq(s, a + 1, a + l)[k] = s[a + k]
  BY <1>2, SubSeqPart
<1>4. a + 1 = 1 /\ a + l = l /\ \A k \in 1 .. l : a + k = k
  BY <1>1
<1> QED BY <1>3, <1>4

\* The whole of a sequence.
LEMMA SubSeqWhole ==
  ASSUME NEW n \in Nat, NEW S, NEW s \in [1 .. n -> S]
  PROVE  SubSeq(s, 1, n) = s
<1>1. SubSeq(s, 1, n) \in [1 .. n -> S] /\ \A k \in 1 .. n : SubSeq(s, 1, n)[k] = s[k]
  BY SubSeqFirst
<1> QED BY <1>1

\* A part of a sequence, kept whole.
Part(s, at, len) == SubSeq(s, at + 1, at + len)

\* The bits of a sequence of bytes.
LEMMA BitsOfType ==
  ASSUME NEW n \in Nat, NEW S, NEW bytes \in [1 .. n -> [1 .. 8 -> S]]
  PROVE  /\ BitsOf(bytes) \in [1 .. 8 * n -> S]
         /\ Len(BitsOf(bytes)) = 8 * n
<1>1. Len(bytes) = n
  OBVIOUS
<1>2. BitsOf(bytes) = [k \in 1 .. 8 * n |-> bytes[n - (k - 1) \div 8][((k - 1) % 8) + 1]]
  BY <1>1 DEF BitsOf
<1>3. \A k \in 1 .. 8 * n : n - (k - 1) \div 8 \in 1 .. n /\ ((k - 1) % 8) + 1 \in 1 .. 8
  OBVIOUS
<1>4. BitsOf(bytes) \in [1 .. 8 * n -> S]
  BY <1>2, <1>3, SMTT(60)
<1> QED BY <1>4

\* A byte order permutes the places of the bytes, or refuses their number.
LEMMA ByteOrderType ==
  ASSUME NEW n \in Nat, NEW order, ByteOrder(n, order) # Refused
  PROVE  ByteOrder(n, order) \in [1 .. n -> 1 .. n]
<1>1. CASE n = 2
  BY <1>1 DEF ByteOrder, Refused
<1>2. CASE n = 4
  BY <1>2 DEF ByteOrder, Refused
<1>3. CASE n = 8
  BY <1>3 DEF ByteOrder, Refused
<1>4. CASE n \notin {2, 4, 8}
  <2>1. ByteOrder(n, order) = [i \in 1 .. n |-> i]
    BY <1>4 DEF ByteOrder
  <2> QED BY <2>1
<1> QED BY <1>1, <1>2, <1>3, <1>4

\* Applied to bytes, a byte order gives as many bytes, or none.
LEMMA ApplyOrderType ==
  ASSUME NEW n \in Nat, NEW S, NEW bytes \in [1 .. n -> S], NEW order,
         ApplyOrder(bytes, order) # Refused
  PROVE  ApplyOrder(bytes, order) \in [1 .. n -> S]
<1>1. Len(bytes) = n
  OBVIOUS
<1>2. ApplyOrder(bytes, order) = [i \in DOMAIN ByteOrder(n, order) |-> bytes[ByteOrder(n, order)[i]]]
  BY <1>1 DEF ApplyOrder
<1>3. ByteOrder(n, order) # Refused
  <2>1. ASSUME ByteOrder(n, order) = Refused PROVE FALSE
    <3>1. DOMAIN ByteOrder(n, order) = {}
      BY <2>1 DEF Refused
    <3>2. ApplyOrder(bytes, order) = << >>
      BY <1>2, <3>1
    <3> QED BY <3>2 DEF Refused
  <2> QED BY <2>1
<1>4. ByteOrder(n, order) \in [1 .. n -> 1 .. n]
  BY <1>3, ByteOrderType
<1> QED BY <1>2, <1>4

\* The bits of an integer: those of its range, below bit 64.
LEMMA InterpretIntType ==
  ASSUME NEW n \in Nat, NEW S, NEW bytes \in [1 .. n -> [1 .. 8 -> S]], NEW p \in PropMeta,
         p.startBit \in Nat, p.endBit \in Nat, p.startBit <= p.endBit,
         p.endBit < 64, p.endBit < 8 * n
  PROVE  InterpretInt(bytes, p) \in [1 .. p.endBit - p.startBit + 1 -> S]
<1> DEFINE all == BitsOf(bytes)
           from == p.startBit
           to == p.endBit
           low(i) == IF i < 64 THEN all[i + 1] ELSE Zero
<1>1. all \in [1 .. 8 * n -> S] /\ Len(all) = 8 * n
  BY BitsOfType
<1>2. Max({p.startBit, 0}) = from
  BY MaxPair
<1>3. Min({Max({p.endBit, p.startBit}), Len(all) - 1}) = to
  <2>1. Max({p.endBit, p.startBit}) = to
    BY MaxPair
  <2>2. Len(all) - 1 \in Int /\ to \in Int /\ to <= Len(all) - 1
    BY <1>1
  <2>3. Min({to, Len(all) - 1}) = to
    BY <2>2, MinPair
  <2> QED BY <2>1, <2>3, Zenon
<1>4. InterpretInt(bytes, p) =
        IF to - from + 1 >= 64 THEN SubSeq(all, 1, 64)
        ELSE [i \in 1 .. to - from + 1 |-> low(from + i - 1)]
  BY <1>2, <1>3 DEF InterpretInt
<1>5. CASE to - from + 1 >= 64
  <2>1. to - from + 1 = 64 /\ 64 <= 8 * n /\ 8 * n \in Nat
    BY <1>5
  <2>2. PICK size \in Nat, head \in Nat : size = 8 * n /\ head = 64
    BY <2>1
  <2>3. all \in [1 .. size -> S] /\ head <= size
    BY <1>1, <2>1, <2>2
  <2>4. InterpretInt(bytes, p) = SubSeq(all, 1, head)
    BY <1>4, <1>5, <2>2
  <2> HIDE DEF all
  <2>5. SubSeq(all, 1, head) \in [1 .. head -> S]
    BY <2>3, SubSeqFirst
  <2> QED BY <2>1, <2>2, <2>4, <2>5
<1>6. CASE ~(to - from + 1 >= 64)
  <2>1. \A i \in 1 .. to - from + 1 : low(from + i - 1) = all[from + i] /\ from + i \in 1 .. 8 * n
    OBVIOUS
  <2>2. \A i \in 1 .. to - from + 1 : low(from + i - 1) \in S
    BY <1>1, <2>1
  <2> HIDE DEF low
  <2> QED BY <1>4, <1>6, <2>2
<1> QED BY <1>5, <1>6

\* A register is 16 bits, whether written or not.
LEMMA RegisterCell ==
  ASSUME MemInv, NEW fc, ~IsBitFC(fc), NEW a \in Addresses
  PROVE  DOMAIN Cell(fc, a) = 1 .. 16
<1>1. fc # 1
  BY DEF IsBitFC
<1>2. CASE fc = 3 /\ mem[3][a] # << >>
  BY <1>1, <1>2 DEF Cell, MemInv
<1>3. CASE ~(fc \in {1, 3} /\ mem[fc][a] # << >>)
  BY <1>3 DEF Cell
<1> QED BY <1>1, <1>2, <1>3

\* The answer to a read of registers: two bytes for each.
LEMMA RegisterResponse ==
  ASSUME NEW fc, ~IsBitFC(fc), NEW start \in Nat, NEW quantity \in Nat
  PROVE  /\ Len(Response(fc, start, quantity)) = 2 * quantity
         /\ \A n \in 1 .. 2 * quantity :
              Response(fc, start, quantity)[n]
                = BytesOf(Cell(fc, start + (n - 1) \div 2))[((n - 1) % 2) + 1]
         /\ \A S : (\A n \in 1 .. 2 * quantity : Response(fc, start, quantity)[n] \in S)
              => Response(fc, start, quantity) \in [1 .. 2 * quantity -> S]
<1> DEFINE raw == Response(fc, start, quantity)
<1>1. raw = [n \in 1 .. 2 * quantity |-> BytesOf(Cell(fc, start + (n - 1) \div 2))[((n - 1) % 2) + 1]]
  BY DEF Response
<1> HIDE DEF raw
<1>2. DOMAIN raw = 1 .. 2 * quantity /\ raw = [n \in 1 .. 2 * quantity |-> raw[n]]
  BY <1>1
<1>3. \A n \in 1 .. 2 * quantity :
        raw[n] = BytesOf(Cell(fc, start + (n - 1) \div 2))[((n - 1) % 2) + 1]
  BY <1>1, Zenon
<1>4. Len(raw) = 2 * quantity
  BY <1>2
<1>5. ASSUME NEW S, \A n \in 1 .. 2 * quantity : raw[n] \in S
      PROVE  raw \in [1 .. 2 * quantity -> S]
  BY <1>2, <1>5
<1> QED BY <1>3, <1>4, <1>5 DEF raw

\* The two bytes of a register are made of its bits.
LEMMA RegisterBytes ==
  ASSUME NEW cell, DOMAIN cell = 1 .. 16, NEW k \in 1 .. 2
  PROVE  /\ \A b \in 1 .. 8 : BytesOf(cell)[k][b] = cell[8 * (2 - k) + b]
         /\ \A S : (\A b \in 1 .. 8 : cell[8 * (2 - k) + b] \in S) => BytesOf(cell)[k] \in [1 .. 8 -> S]
<1>1. Len(cell) \div 8 = 2
  <2>1. Len(cell) = 16
    OBVIOUS
  <2> QED BY <2>1
<1>2. BytesOf(cell) = [j \in 1 .. 2 |-> [b \in 1 .. 8 |-> cell[8 * (2 - j) + b]]]
  BY <1>1 DEF BytesOf
<1>3. BytesOf(cell)[k] = [b \in 1 .. 8 |-> cell[8 * (2 - k) + b]]
  BY <1>2
<1> QED BY <1>3

\* A part of an answer is the answer to a read of that part.
LEMMA ResponsePart ==
  ASSUME NEW fc, ~IsBitFC(fc), NEW start \in Nat, NEW quantity \in Nat,
         NEW d \in Nat, NEW count \in Nat, d + count <= quantity
  PROVE  /\ Len(Response(fc, start, quantity)) = 2 * quantity
         /\ Part(Response(fc, start, quantity), 2 * d, 2 * count)
              = Response(fc, start + d, count)
<1> DEFINE raw == Response(fc, start, quantity)
           own == Response(fc, start + d, count)
           S == {raw[n] : n \in 1 .. 2 * quantity}
           T == {own[n] : n \in 1 .. 2 * count}
<1>1. /\ Len(raw) = 2 * quantity
      /\ \A n \in 1 .. 2 * quantity :
           raw[n] = BytesOf(Cell(fc, start + (n - 1) \div 2))[((n - 1) % 2) + 1]
  BY RegisterResponse
<1>2. \A n \in 1 .. 2 * count :
        own[n] = BytesOf(Cell(fc, start + d + (n - 1) \div 2))[((n - 1) % 2) + 1]
  <2>1. start + d \in Nat
    OBVIOUS
  <2> QED BY <2>1, RegisterResponse
<1>3. raw \in [1 .. 2 * quantity -> S]
  BY RegisterResponse
<1>4. own \in [1 .. 2 * count -> T]
  <2>1. start + d \in Nat
    OBVIOUS
  <2> QED BY <2>1, RegisterResponse
<1> HIDE DEF raw, own, S, T
<1>5. /\ Part(raw, 2 * d, 2 * count) \in [1 .. 2 * count -> S]
      /\ \A k \in 1 .. 2 * count : Part(raw, 2 * d, 2 * count)[k] = raw[2 * d + k]
  <2>1. PICK n \in Nat, a \in Nat, l \in Nat : n = 2 * quantity /\ a = 2 * d /\ l = 2 * count
    OBVIOUS
  <2>2. raw \in [1 .. n -> S] /\ a + l <= n
    BY <1>3, <2>1
  <2>3. /\ SubSeq(raw, a + 1, a + l) \in [1 .. l -> S]
        /\ \A k \in 1 .. l : SubSeq(raw, a + 1, a + l)[k] = raw[a + k]
    BY <2>2, SubSeqPart
  <2> QED BY <2>1, <2>3 DEF Part
<1>6. ASSUME NEW k \in 1 .. 2 * count PROVE raw[2 * d + k] = own[k]
  <2>1. PICK n \in 1 .. 2 * quantity : n = 2 * d + k
    OBVIOUS
  <2>2. start + (n - 1) \div 2 = start + d + (k - 1) \div 2
    BY <2>1
  <2>3. (n - 1) % 2 = (k - 1) % 2
    BY <2>1
  <2>4. raw[n] = BytesOf(Cell(fc, start + (n - 1) \div 2))[((n - 1) % 2) + 1]
    BY <1>1
  <2>5. own[k] = BytesOf(Cell(fc, start + d + (k - 1) \div 2))[((k - 1) % 2) + 1]
    BY <1>2
  <2> QED BY <2>1, <2>2, <2>3, <2>4, <2>5, Zenon
<1>7. Part(raw, 2 * d, 2 * count) = own
  BY <1>4, <1>5, <1>6
<1> QED BY <1>1, <1>7 DEF raw, own

\* A property's bytes in the answer of its group are those of its own registers.
LEMMA ChunkIsOwn ==
  ASSUME props \in Seq(PropMeta), AllValid, NEW g \in ReadRequests, NEW m \in g.members,
         ~IsBitSpace(props[m.prop])
  PROVE  MemberBytes(Response(g.fc, g.start, g.quantity), m) = OwnBytes(m.prop)
<1>1. Readable(m.prop) /\ Places(g, m.prop, m)
  BY RequestLegal
<1>2a. PICK offset \in Nat : offset = props[m.prop].offset
  BY <1>1, ReadableValid
<1>2b. PICK base \in Nat : base = props[m.prop].base
  BY <1>1, ReadableValid
<1>2c. PICK count \in Nat : count = props[m.prop].count
  BY <1>1, ReadableValid
<1>2d. PICK start \in Nat : start = g.start
  BY <1>1 DEF Places
<1>2e. PICK quantity \in Nat : quantity = g.quantity
  BY <1>1 DEF Places
<1>3. g.fc = props[m.prop].readFC /\ ~IsBitFC(g.fc)
  BY <1>1, ReadableValid DEF Places
<1>4. start <= base + offset /\ base + offset + count <= start + quantity
  BY <1>1, <1>2a, <1>2b, <1>2c, <1>2d, <1>2e DEF Places
<1>5. m = Member(m.prop, start - base)
  BY <1>1, <1>2b, <1>2d DEF Places
<1>6. PICK d \in Nat : d = base + offset - start
  BY <1>4
<1>7. d + count <= quantity /\ start + d = base + offset /\ offset - (start - base) = d
  BY <1>4, <1>6
<1>8. m.at = 2 * d /\ m.len = 2 * count
  <2>1. /\ Member(m.prop, start - base).at = ByteOffset(props[m.prop], offset - (start - base))
        /\ Member(m.prop, start - base).len = ByteLen(props[m.prop], offset - (start - base))
    BY <1>2a DEF Member
  <2>2. m.at = ByteOffset(props[m.prop], d) /\ m.len = ByteLen(props[m.prop], d)
    BY <1>5, <1>7, <2>1
  <2>3. m.at = d * 2 /\ m.len = count * 2
    BY <1>2c, <1>3, <1>1, ReadableValid, <2>2 DEF ByteOffset, ByteLen
  <2> QED BY <2>3
<1> DEFINE raw == Response(g.fc, start, quantity)
<1>9. Len(raw) = 2 * quantity /\ Part(raw, 2 * d, 2 * count) = Response(g.fc, start + d, count)
  <2>1. PICK fc : fc = g.fc
    OBVIOUS
  <2>2. ~IsBitFC(fc) /\ d + count <= quantity
    BY <1>3, <1>7, <2>1
  <2>3. /\ Len(Response(fc, start, quantity)) = 2 * quantity
        /\ Part(Response(fc, start, quantity), 2 * d, 2 * count) = Response(fc, start + d, count)
    BY <2>2, ResponsePart
  <2> QED BY <2>1, <2>3
<1> HIDE DEF raw
<1>10. MemberBytes(raw, m) = Part(raw, 2 * d, 2 * count)
  <2>1. m.at + m.len = 2 * d + 2 * count /\ m.at + 1 = 2 * d + 1
    BY <1>8
  <2>2. ~(Len(raw) < 2 * d + 2 * count)
    BY <1>7, <1>9, SMTT(60)
  <2> QED BY <2>1, <2>2, Zenon DEF MemberBytes, Part
<1>11. OwnBytes(m.prop) = Response(g.fc, base + offset, count)
  BY <1>2a, <1>2b, <1>2c, <1>3 DEF OwnBytes
<1> QED BY <1>2d, <1>2e, <1>7, <1>9, <1>10, <1>11 DEF raw

\* The bytes of a property's registers are made of their bits.
LEMMA OwnTyped ==
  ASSUME MemInv, props \in Seq(PropMeta), AllValid, NEW i, Readable(i), ~IsBitSpace(props[i])
  PROVE  OwnBytes(i) \in [1 .. 2 * props[i].count -> [1 .. 8 -> OwnBits(i)]]
<1>1. PICK count \in Nat \ {0} : count = props[i].count
  BY ReadableValid
<1>2. PICK start \in Nat : start = props[i].base + props[i].offset
  BY ReadableValid
<1>3. PICK fc : fc = props[i].readFC /\ ~IsBitFC(fc)
  BY ReadableValid
<1>4. start + count <= MaxAddress + 1 /\ MaxAddress \in Nat
  <2>1. PICK base \in Nat : base = props[i].base
    BY ReadableValid
  <2>2. PICK offset \in Nat : offset = props[i].offset
    BY ReadableValid
  <2>3. base + (offset + count) <= MaxAddress + 1
    BY <1>1, <2>1, <2>2, ReadableValid
  <2>4. start = base + offset
    BY <1>2, <2>1, <2>2
  <2> QED BY <2>3, <2>4, LimitsAssumption
<1>5. OwnCells(i) = [k \in 1 .. count |-> Cell(fc, start + k - 1)]
  BY <1>1, <1>2, <1>3, ReadableValid DEF OwnCells
<1>6. OwnBytes(i) = Response(fc, start, count)
  BY <1>1, <1>2, <1>3 DEF OwnBytes
<1>7. ASSUME NEW n \in 1 .. 2 * count
      PROVE  Response(fc, start, count)[n] \in [1 .. 8 -> OwnBits(i)]
  <2>1. PICK k \in 0 .. count - 1 : k = (n - 1) \div 2
    OBVIOUS
  <2>2. PICK j \in 1 .. 2 : j = ((n - 1) % 2) + 1
    OBVIOUS
  <2>3. PICK cell : cell = Cell(fc, start + k)
    OBVIOUS
  <2>4. start + k \in Addresses
    BY <1>4, <2>1 DEF Addresses
  <2>5. DOMAIN cell = 1 .. 16
    BY <1>3, <2>3, <2>4, RegisterCell
  <2>6. Response(fc, start, count)[n] = BytesOf(cell)[j]
    <3>1. Response(fc, start, count)[n] = BytesOf(Cell(fc, start + (n - 1) \div 2))[((n - 1) % 2) + 1]
      BY <1>3, RegisterResponse
    <3> QED BY <2>1, <2>2, <2>3, <3>1
  <2>8. cell \in ToSet(OwnCells(i))
    <3>1. k + 1 \in 1 .. count /\ start + (k + 1) - 1 = start + k
      BY <2>1
    <3>2. OwnCells(i)[k + 1] = cell /\ k + 1 \in DOMAIN OwnCells(i)
      BY <1>5, <2>3, <3>1
    <3> QED BY <3>2 DEF ToSet
  <2>9. \A b \in 1 .. 8 : 8 * (2 - j) + b \in 1 .. 16
    BY <2>2
  <2>10. \A b \in 1 .. 8 : cell[8 * (2 - j) + b] \in OwnBits(i)
    <3>1. \A x \in 1 .. 16 : cell[x] \in ToSet(cell)
      BY <2>5 DEF ToSet
    <3>2. \A x \in 1 .. 16 : cell[x] \in OwnBits(i)
      BY <2>8, <3>1, Zenon DEF OwnBits
    <3> QED BY <2>9, <3>2
  <2>11. BytesOf(cell)[j] \in [1 .. 8 -> OwnBits(i)]
    BY <2>5, <2>10, RegisterBytes
  <2> QED BY <2>6, <2>11
<1>8. Response(fc, start, count) \in [1 .. 2 * count -> [1 .. 8 -> OwnBits(i)]]
  BY <1>3, <1>7, RegisterResponse
<1> QED BY <1>1, <1>6, <1>8

\* A mapped value is made of bits of the bytes, as many as its range says.
LEMMA MappedBits ==
  ASSUME NEW p \in PropMeta, ~IsBitSpace(p), NEW count \in Nat \ {0}, count = p.count,
         p.startBit \in Nat, p.endBit \in Nat, p.startBit <= p.endBit, p.endBit < 16 * count,
         p.type = "bool" \/ p.endBit < 64,
         NEW S, NEW bytes \in [1 .. 2 * count -> [1 .. 8 -> S]],
         MapRegistersAt(bytes, p, 0) # Refused
  PROVE  /\ ToSet(MapRegistersAt(bytes, p, 0)) \subseteq S
         /\ p.type = "int" => Len(MapRegistersAt(bytes, p, 0)) = p.endBit - p.startBit + 1
<1> DEFINE ordered == ApplyOrder(bytes, p.order)
           val == MapRegistersAt(bytes, p, 0)
<1>1. count * 2 = 2 * count /\ 2 * count \in Nat /\ Len(bytes) = 2 * count
  OBVIOUS
<1>2. SubSeq(bytes, 1, p.count * 2) = bytes
  BY <1>1, SubSeqWhole
<1>3. val = IF p.type = "bool" THEN <<ExtractBit(bytes, p.startBit)>>
            ELSE IF ordered = Refused THEN Refused
            ELSE IF p.type = "float" /\ p.count \in {2, 4} THEN BitsOf(ordered)
            ELSE InterpretInt(ordered, p)
  <2>1. ~(Len(bytes) < p.count * 2)
    BY <1>1
  <2> QED BY <1>2, <2>1, Zenon DEF MapRegistersAt
<1>4. CASE p.type = "bool"
  <2>1. val = <<ExtractBit(bytes, p.startBit)>>
    BY <1>3, <1>4
  <2>2. BitsOf(bytes) \in [1 .. 16 * count -> S] /\ Len(BitsOf(bytes)) = 16 * count
    <3>1. BitsOf(bytes) \in [1 .. 8 * (2 * count) -> S] /\ Len(BitsOf(bytes)) = 8 * (2 * count)
      BY <1>1, BitsOfType
    <3> QED BY <3>1
  <2>3. ExtractBit(bytes, p.startBit) = BitsOf(bytes)[p.startBit + 1] /\ p.startBit + 1 \in 1 .. 16 * count
    <3>1. PICK bit \in Nat : bit = p.startBit
      OBVIOUS
    <3>2. bit < 16 * count /\ bit + 1 \in 1 .. 16 * count
      BY <3>1, SMTT(60)
    <3>3. ExtractBit(bytes, bit) = BitsOf(bytes)[bit + 1]
      BY <2>2, <3>2 DEF ExtractBit
    <3> QED BY <3>1, <3>2, <3>3
  <2>4. ExtractBit(bytes, p.startBit) \in S
    BY <2>2, <2>3
  <2> QED BY <1>4, <2>1, <2>4 DEF ToSet
<1>5. CASE p.type # "bool"
  <2>1. ordered # Refused
    BY <1>3, <1>5
  <2>2. ordered \in [1 .. 2 * count -> [1 .. 8 -> S]]
    BY <1>1, <2>1, ApplyOrderType
  <2> HIDE DEF ordered
  <2>3. CASE p.type = "float" /\ p.count \in {2, 4}
    <3>1. val = BitsOf(ordered)
      BY <1>3, <2>1, <2>3
    <3>2. BitsOf(ordered) \in [1 .. 8 * (2 * count) -> S]
      BY <1>1, <2>2, BitsOfType
    <3> HIDE DEF val
    <3>3. val \in [1 .. 8 * (2 * count) -> S]
      BY <3>1, <3>2
    <3>4. ToSet(val) \subseteq S
      BY <3>3 DEF ToSet
    <3> QED BY <2>3, <3>4 DEF val
  <2>4. CASE ~(p.type = "float" /\ p.count \in {2, 4})
    <3>1. val = InterpretInt(ordered, p)
      BY <1>3, <1>5, <2>1, <2>4
    <3>2. InterpretInt(ordered, p) \in [1 .. p.endBit - p.startBit + 1 -> S]
      <4>1. PICK n \in Nat : n = 2 * count
        BY <1>1
      <4>2. ordered \in [1 .. n -> [1 .. 8 -> S]] /\ p.endBit < 8 * n /\ p.endBit < 64
        BY <1>5, <2>2, <4>1
      <4> QED BY <4>2, InterpretIntType
    <3>3. p.endBit - p.startBit + 1 \in Nat
      OBVIOUS
    <3> HIDE DEF val
    <3>4. val \in [1 .. p.endBit - p.startBit + 1 -> S]
      BY <3>1, <3>2
    <3>5. Len(val) = p.endBit - p.startBit + 1 /\ DOMAIN val = 1 .. p.endBit - p.startBit + 1
      BY <3>3, <3>4
    <3>6. ToSet(val) \subseteq S
      BY <3>4, <3>5 DEF ToSet
    <3> QED BY <3>5, <3>6 DEF val
  <2> QED BY <2>3, <2>4
<1> QED BY <1>4, <1>5

\* What is fresh is made of the property's own bits.
LEMMA FreshOwn ==
  ASSUME DevicePlanInv, MemInv, FreshInv
  PROVE  OwnRegisters
<1> SUFFICES ASSUME NEW i \in fresh, ~IsBitSpace(props[i]),
                    props[i].type = "bool" \/ props[i].endBit < 64
             PROVE  ReadOwn(i)
  BY DEF OwnRegisters
<1>1. props \in Seq(PropMeta)
  BY DEF DevicePlanInv, DeviceTypeOK
<1>2. /\ AllValid /\ Readable(i)
      /\ cache[i] = MapRegistersAt(OwnBytes(i), props[i], 0) /\ cache[i] # Refused
  BY DEF FreshInv
<1>3. OwnBytes(i) \in [1 .. 2 * props[i].count -> [1 .. 8 -> OwnBits(i)]]
  BY <1>1, <1>2, OwnTyped
<1>4. /\ ToSet(cache[i]) \subseteq OwnBits(i)
      /\ props[i].type = "int" => Len(cache[i]) = props[i].endBit - props[i].startBit + 1
  <2>1. PICK p \in PropMeta : p = props[i]
    BY <1>1, <1>2, ReadableValid
  <2>2. PICK count \in Nat \ {0} : count = p.count
    BY <1>1, <1>2, <2>1, ReadableValid
  <2>3. PICK bytes \in [1 .. 2 * count -> [1 .. 8 -> OwnBits(i)]] : bytes = OwnBytes(i)
    BY <1>3, <2>1, <2>2
  <2>4. /\ p.startBit \in Nat /\ p.endBit \in Nat /\ p.startBit <= p.endBit
        /\ p.endBit < 16 * count /\ ~IsBitSpace(p) /\ (p.type = "bool" \/ p.endBit < 64)
    BY <1>1, <1>2, <2>1, <2>2, ReadableValid
  <2>5. MapRegistersAt(bytes, p, 0) # Refused
    BY <1>2, <2>1, <2>3
  <2>6. /\ ToSet(MapRegistersAt(bytes, p, 0)) \subseteq OwnBits(i)
        /\ p.type = "int" => Len(MapRegistersAt(bytes, p, 0)) = p.endBit - p.startBit + 1
    BY <2>2, <2>4, <2>5, MappedBits
  <2> QED BY <1>2, <2>1, <2>3, <2>6
<1> QED BY <1>4 DEF ReadOwn, OwnBits

\* The bytes of a property change only with its registers.
LEMMA OwnSame ==
  ASSUME props' = props, props \in Seq(PropMeta), AllValid, NEW i, Readable(i),
         ~IsBitSpace(props[i]),
         \A a \in Addresses :
           a \in props[i].base + props[i].offset .. props[i].base + End(i) - 1
             => Cell(props[i].readFC, a)' = Cell(props[i].readFC, a)
  PROVE  OwnBytes(i)' = OwnBytes(i)
<1>1. PICK count \in Nat \ {0} : count = props[i].count
  BY ReadableValid
<1>2. PICK base \in Nat : base = props[i].base
  BY ReadableValid
<1>3. PICK offset \in Nat : offset = props[i].offset
  BY ReadableValid
<1>4. PICK fc : fc = props[i].readFC
  OBVIOUS
<1>5. End(i) = offset + count /\ base + (offset + count) <= MaxAddress + 1 /\ ~IsBitFC(fc)
  BY <1>1, <1>2, <1>3, <1>4, ReadableValid
<1>6. \A n \in 1 .. 2 * count :
        Cell(fc, base + offset + (n - 1) \div 2)' = Cell(fc, base + offset + (n - 1) \div 2)
  <2> SUFFICES ASSUME NEW n \in 1 .. 2 * count
               PROVE  Cell(fc, base + offset + (n - 1) \div 2)' = Cell(fc, base + offset + (n - 1) \div 2)
    OBVIOUS
  <2>1. PICK a \in Nat : a = base + offset + (n - 1) \div 2
    OBVIOUS
  <2>2. a \in base + offset .. base + (offset + count) - 1 /\ a \in 0 .. MaxAddress
    BY <1>5, <2>1, LimitsAssumption
  <2>3. Cell(fc, a)' = Cell(fc, a)
    BY <1>2, <1>3, <1>4, <1>5, <2>2 DEF Addresses
  <2> QED BY <2>1, <2>3
<1>7. Response(fc, base + offset, count)
        = [n \in 1 .. 2 * count |-> BytesOf(Cell(fc, base + offset + (n - 1) \div 2))[((n - 1) % 2) + 1]]
  BY <1>5 DEF Response
<1>8. Response(fc, base + offset, count)'
        = [n \in 1 .. 2 * count |-> BytesOf(Cell(fc, base + offset + (n - 1) \div 2)')[((n - 1) % 2) + 1]]
  BY <1>5 DEF Response
<1>9. Response(fc, base + offset, count)' = Response(fc, base + offset, count)
  BY <1>6, <1>7, <1>8
<1>10. OwnBytes(i) = Response(fc, base + offset, count)
  BY <1>1, <1>2, <1>3, <1>4 DEF OwnBytes
<1>11. OwnBytes(i)' = Response(fc, base + offset, count)'
  BY <1>1, <1>2, <1>3, <1>4 DEF OwnBytes
<1> QED BY <1>9, <1>10, <1>11

\* A frame changes the cells it writes, and no others.
LEMMA FrameChanges ==
  ASSUME MemInv, NEW f,
         mem' = [mem EXCEPT ![FrameArea(f)] =
                   [a \in Addresses |-> IF a \in FrameCells(f) THEN FrameCell(f, a) ELSE @[a]]]
  PROVE  /\ MemInv'
         /\ FrameArea(f) \in {1, 3}
         /\ \A a \in Addresses : a \in FrameCells(f) => mem'[FrameArea(f)][a] = FrameCell(f, a)
         /\ \A fc, a : a \in Addresses /\ ~(fc = FrameArea(f) /\ a \in FrameCells(f))
              => Cell(fc, a)' = Cell(fc, a)
<1>1. FrameArea(f) \in {1, 3} /\ (FrameArea(f) = 3 => Width(f) = 16)
  BY DEF FrameArea, Width
<1> DEFINE new == [a \in Addresses |-> IF a \in FrameCells(f) THEN FrameCell(f, a)
                                       ELSE mem[FrameArea(f)][a]]
<1>2. mem' = [fc \in {1, 3} |-> IF fc = FrameArea(f) THEN new ELSE mem[fc]]
  BY DEF MemInv
<1>3. \A a \in Addresses : DOMAIN FrameCell(f, a) = 1 .. Width(f)
  BY DEF FrameCell
<1> HIDE DEF new
<1>4. /\ DOMAIN new = Addresses
      /\ \A a \in Addresses :
           new[a] = IF a \in FrameCells(f) THEN FrameCell(f, a) ELSE mem[FrameArea(f)][a]
  BY DEF new
<1>5. DOMAIN mem' = {1, 3} /\ mem'[FrameArea(f)] = new
      /\ \A fc \in {1, 3} : fc # FrameArea(f) => mem'[fc] = mem[fc]
  BY <1>1, <1>2
<1>6. DOMAIN mem'[1] = Addresses /\ DOMAIN mem'[3] = Addresses
  BY <1>1, <1>4, <1>5 DEF MemInv
<1>7. ASSUME NEW a \in Addresses PROVE mem'[3][a] = << >> \/ DOMAIN mem'[3][a] = 1 .. 16
  <2>1. CASE FrameArea(f) = 3 /\ a \in FrameCells(f)
    BY <1>1, <1>3, <1>4, <1>5, <2>1
  <2>2. CASE ~(FrameArea(f) = 3 /\ a \in FrameCells(f))
    <3>1. mem'[3][a] = mem[3][a]
      BY <1>1, <1>4, <1>5, <2>2
    <3> QED BY <3>1 DEF MemInv
  <2> QED BY <2>1, <2>2
<1>8. MemInv'
  BY <1>5, <1>6, <1>7 DEF MemInv, Addresses
<1>9. ASSUME NEW fc, NEW a \in Addresses, ~(fc = FrameArea(f) /\ a \in FrameCells(f))
      PROVE  Cell(fc, a)' = Cell(fc, a)
  <2>1. fc \in {1, 3} => mem'[fc][a] = mem[fc][a]
    BY <1>1, <1>4, <1>5, <1>9
  <2> QED BY <2>1 DEF Cell
<1> QED BY <1>1, <1>4, <1>5, <1>8, <1>9

\* A property that a frame does not touch keeps its bytes.
LEMMA UntouchedSame ==
  ASSUME MemInv, props' = props, props \in Seq(PropMeta), AllValid, NEW i, Readable(i),
         ~IsBitSpace(props[i]), NEW f, ~Touches(f, i),
         mem' = [mem EXCEPT ![FrameArea(f)] =
                   [a \in Addresses |-> IF a \in FrameCells(f) THEN FrameCell(f, a) ELSE @[a]]]
  PROVE  OwnBytes(i)' = OwnBytes(i)
<1>1. ASSUME NEW a \in Addresses,
             a \in props[i].base + props[i].offset .. props[i].base + End(i) - 1
      PROVE  Cell(props[i].readFC, a)' = Cell(props[i].readFC, a)
  <2>1. ~(props[i].readFC = FrameArea(f) /\ a \in FrameCells(f))
    BY <1>1 DEF Touches
  <2> QED BY <2>1, FrameChanges
<1> QED BY <1>1, OwnSame

\* A property keeps its bytes while the memory does not change.
LEMMA UnchangedSame ==
  ASSUME UNCHANGED <<props, mem>>, NEW i
  PROVE  OwnBytes(i)' = OwnBytes(i)
BY DEF OwnBytes, Response, Cell

-----------------------------------------------------------------------------
\* What holds of a device, its plan and what was read from it.
DeviceInv == DevicePlanInv /\ MemInv /\ FreshInv

\* Nothing has been read or written when a device begins.
LEMMA DeviceInitFresh == DeviceInit => MemInv /\ FreshInv
<1> SUFFICES ASSUME DeviceInit PROVE MemInv /\ FreshInv
  OBVIOUS
<1>1. mem = [fc \in {1, 3} |-> [a \in Addresses |-> << >>]] /\ fresh = {}
  BY DEF DeviceInit
<1>2. FreshInv
  BY <1>1 DEF FreshInv
<1>3. DOMAIN mem = {1, 3} /\ mem[1] = [a \in Addresses |-> << >>] /\ mem[3] = [a \in Addresses |-> << >>]
  BY <1>1
<1>4. MemInv
  BY <1>3, Zenon DEF MemInv
<1> QED BY <1>2, <1>4

\* Steps that leave what was read, the memory and the model.
LEMMA QuietFresh ==
  ASSUME MemInv, FreshInv, UNCHANGED <<props, mem, cache>>, fresh' \subseteq fresh
  PROVE  MemInv' /\ FreshInv'
<1>1. MemInv'
  BY DEF MemInv, Addresses
<1>2. \A i \in fresh' : /\ i \in fresh /\ Readable(i)' = Readable(i) /\ AllValid' = AllValid
                        /\ OwnBytes(i)' = OwnBytes(i)
  BY UnchangedSame, PlansSame DEF Readable
<1> QED BY <1>1, <1>2 DEF FreshInv

\* A group is read: each property gets the value of its own registers.
LEMMA ReadGroupFresh ==
  ASSUME DevicePlanInv, MemInv, FreshInv, ReadGroup
  PROVE  MemInv' /\ FreshInv'
<1>1. UNCHANGED <<props, mem>> /\ phase = "poll" /\ gi < Len(groups)
  BY DEF ReadGroup, planVars
<1>2. MemInv'
  BY <1>1 DEF MemInv, Addresses
<1>3. AllValid /\ groups \in Plans /\ props \in Seq(PropMeta) /\ gi \in 0 .. Len(groups)
  BY <1>1 DEF DevicePlanInv, DeviceTypeOK, PlanInv
<1>4. groups \in Seq(ReadRequests)
  BY <1>3, PlanTyped
<1>5. PICK g \in ReadRequests : g = groups[gi + 1]
  BY <1>1, <1>3, <1>4
<1> DEFINE chunk(m) == MemberBytes(Response(g.fc, g.start, g.quantity), m)
           val(m) == IF chunk(m) = Refused THEN Refused
                     ELSE MapRegistersAt(chunk(m), props[m.prop], BitInChunk(m))
           read == {m \in g.members : val(m) # Refused}
<1>6. /\ cache' = [i \in DOMAIN props |->
                     IF \E m \in read : m.prop = i
                     THEN val(CHOOSE m \in read : m.prop = i) ELSE cache[i]]
      /\ fresh' = fresh \cup {m.prop : m \in read}
  BY <1>5, Zenon DEF ReadGroup
<1>7. ASSUME NEW m \in read, ~IsBitSpace(props[m.prop])
      PROVE  val(m) = MapRegistersAt(OwnBytes(m.prop), props[m.prop], 0) /\ val(m) # Refused
  <2>1. m \in g.members /\ val(m) # Refused
    BY <1>7
  <2>2. chunk(m) = OwnBytes(m.prop)
    BY <1>3, <1>7, <2>1, ChunkIsOwn
  <2>3. chunk(m) # Refused
    BY <2>1
  <2> HIDE DEF chunk
  <2> QED BY <2>1, <2>2, <2>3 DEF BitInChunk
<1>8. \A m \in read : Readable(m.prop)
  BY <1>3, RequestLegal
<1> HIDE DEF chunk, val, read
<1>9. ASSUME NEW i \in fresh'
      PROVE  /\ AllValid' /\ Readable(i)'
             /\ ~IsBitSpace(props'[i]) =>
                  /\ cache'[i] = MapRegistersAt(OwnBytes(i)', props'[i], 0)
                  /\ cache'[i] # Refused
  <2>1. AllValid' /\ OwnBytes(i)' = OwnBytes(i)
    BY <1>1, <1>3, PlansSame, UnchangedSame
  <2>2. CASE \E m \in read : m.prop = i
    <3>1. PICK m \in read : m.prop = i /\ m = CHOOSE x \in read : x.prop = i
      BY <2>2
    <3>2. Readable(i) /\ Readable(i)'
      BY <1>1, <1>8, <3>1 DEF Readable
    <3>3. cache'[i] = val(m)
      BY <1>6, <2>2, <3>1, <3>2, Zenon DEF Readable
    <3> QED BY <1>1, <1>7, <2>1, <3>1, <3>2, <3>3
  <2>3. CASE ~ \E m \in read : m.prop = i
    <3>1. i \in fresh
      BY <1>6, <2>3
    <3>2. Readable(i) /\ Readable(i)'
      BY <1>1, <3>1 DEF FreshInv, Readable
    <3>3. cache'[i] = cache[i]
      BY <1>6, <2>3, <3>2, Zenon DEF Readable
    <3> QED BY <1>1, <2>1, <3>1, <3>2, <3>3 DEF FreshInv
  <2> QED BY <2>2, <2>3
<1>10. FreshInv'
  BY <1>9 DEF FreshInv
<1> QED BY <1>2, <1>10

\* A frame is written: what it touches is fresh no more.
LEMMA WriteFrameFresh ==
  ASSUME DevicePlanInv, MemInv, FreshInv, WriteFrame
  PROVE  MemInv' /\ FreshInv'
<1>1. props \in Seq(PropMeta) /\ UNCHANGED <<props, cache>>
  BY DEF DevicePlanInv, DeviceTypeOK, WriteFrame, planVars
<1>2. PICK f : /\ f = Head(frames)
               /\ mem' = [mem EXCEPT ![FrameArea(f)] =
                    [a \in Addresses |-> IF a \in FrameCells(f) THEN FrameCell(f, a) ELSE @[a]]]
               /\ fresh' = {i \in fresh : ~Touches(f, i)}
  BY DEF WriteFrame
<1>3. MemInv'
  BY <1>2, FrameChanges
<1>4. ASSUME NEW i \in fresh'
      PROVE  /\ AllValid' /\ Readable(i)'
             /\ ~IsBitSpace(props'[i]) =>
                  /\ cache'[i] = MapRegistersAt(OwnBytes(i)', props'[i], 0)
                  /\ cache'[i] # Refused
  <2>1. i \in fresh /\ ~Touches(f, i)
    BY <1>2
  <2>2. AllValid /\ Readable(i)
    BY <2>1 DEF FreshInv
  <2>3. AllValid' /\ Readable(i)'
    BY <1>1, <2>2, PlansSame DEF Readable
  <2>4. ASSUME ~IsBitSpace(props[i]) PROVE OwnBytes(i)' = OwnBytes(i)
    BY <1>1, <1>2, <2>1, <2>2, <2>4, UntouchedSame
  <2> QED BY <1>1, <2>1, <2>3, <2>4 DEF FreshInv
<1>5. FreshInv'
  BY <1>4 DEF FreshInv
<1> QED BY <1>3, <1>5

\* Every action keeps what is fresh true of the device.
LEMMA DeviceStepFresh == DeviceInv /\ [DeviceNext]_deviceVars => MemInv' /\ FreshInv'
<1> SUFFICES ASSUME DevicePlanInv, MemInv, FreshInv, [DeviceNext]_deviceVars
             PROVE  MemInv' /\ FreshInv'
  BY DEF DeviceInv
<1>1. CASE ReadGroup
  BY <1>1, ReadGroupFresh
<1>2. CASE WriteFrame
  BY <1>2, WriteFrameFresh
<1>3. CASE Reload
  <2>1. UNCHANGED <<props, mem>> /\ (fresh' = {} \/ (fresh' = fresh /\ cache' = cache))
    BY <1>3 DEF Reload, planVars
  <2>2. CASE fresh' = {}
    <3>1. FreshInv'
      BY <2>2 DEF FreshInv
    <3>2. MemInv'
      BY <2>1 DEF MemInv, Addresses
    <3> QED BY <3>1, <3>2
  <2>3. CASE fresh' = fresh /\ cache' = cache
    BY <2>1, <2>3, QuietFresh
  <2> QED BY <2>1, <2>2, <2>3
<1>4. CASE \/ Configure \/ StartRound \/ SkipGroup \/ EndRound \/ WriteFailed \/ WriteDone
           \/ UNCHANGED deviceVars \/ \E i \in DOMAIN props : StartWrite(i)
  <2>1. UNCHANGED <<props, mem, cache, fresh>>
    BY <1>4 DEF Configure, StartRound, SkipGroup, EndRound, WriteFailed, WriteDone, StartWrite,
                deviceVars, planVars, runVars
  <2> QED BY <2>1, QuietFresh
<1> QED BY <1>1, <1>2, <1>3, <1>4 DEF DeviceNext

\* What was read stays the value of the property's own registers until one of
\* them is written.
THEOREM DeviceCorrect == DeviceSpec => []DeviceInv
<1>1. DeviceInit => DeviceInv
  BY DeviceInitInv, DeviceInitFresh DEF DeviceInv
<1>2. DeviceInv /\ [DeviceNext]_deviceVars => DeviceInv'
  BY DeviceStepInv, DeviceStepFresh DEF DeviceInv
<1> QED BY <1>1, <1>2, PTL DEF DeviceSpec

\* For every model, limit, type, byte order and bit range up to bit 63: a value
\* read with a group is made of the property's own registers, and an integer of
\* as many bits as its range says (applyMembers, MapRegistersAt).
THEOREM OwnBitsRead == DeviceSpec => []OwnRegisters
<1>1. DeviceInv => OwnRegisters
  BY FreshOwn DEF DeviceInv
<1> QED BY <1>1, DeviceCorrect, PTL

-----------------------------------------------------------------------------
\* A byte order undoes itself.
LEMMA ByteOrderInvolution ==
  ASSUME NEW n \in Nat, NEW order, ByteOrder(n, order) # Refused, NEW i \in 1 .. n
  PROVE  ByteOrder(n, order)[ByteOrder(n, order)[i]] = i
<1>1. CASE n = 2
  BY <1>1 DEF ByteOrder, Refused
<1>2. CASE n = 4
  BY <1>2 DEF ByteOrder, Refused
<1>3. CASE n = 8
  BY <1>3 DEF ByteOrder, Refused
<1>4. CASE n \notin {2, 4, 8}
  <2>1. ByteOrder(n, order) = [k \in 1 .. n |-> k]
    BY <1>4 DEF ByteOrder
  <2> QED BY <2>1
<1> QED BY <1>1, <1>2, <1>3, <1>4

\* What is ordered twice is as it was: reading undoes what writing did.
LEMMA ApplyTwice ==
  ASSUME NEW n \in Nat, NEW S, NEW bytes \in [1 .. n -> S], NEW order,
         ApplyOrder(bytes, order) # Refused
  PROVE  ApplyOrder(ApplyOrder(bytes, order), order) = bytes
<1> DEFINE perm == ByteOrder(n, order)
           once == ApplyOrder(bytes, order)
<1>1. once \in [1 .. n -> S] /\ Len(bytes) = n
  BY ApplyOrderType
<1>2. once = [i \in DOMAIN perm |-> bytes[perm[i]]]
  BY <1>1 DEF ApplyOrder
<1>3. perm # Refused
  <2>1. ASSUME perm = Refused PROVE FALSE
    <3>1. DOMAIN perm = {}
      BY <2>1 DEF Refused
    <3>2. once = << >>
      BY <1>2, <3>1
    <3> QED BY <3>2 DEF Refused
  <2> QED BY <2>1
<1>4. perm \in [1 .. n -> 1 .. n] /\ \A i \in 1 .. n : perm[perm[i]] = i
  BY <1>3, ByteOrderType, ByteOrderInvolution
<1> HIDE DEF perm
<1>5. \A i \in 1 .. n : once[i] = bytes[perm[i]]
  BY <1>2, <1>4
<1>6. Len(once) = n
  <2> HIDE DEF once
  <2> QED BY <1>1
<1>7. ApplyOrder(once, order) = [i \in DOMAIN perm |-> once[perm[i]]]
  BY <1>6 DEF ApplyOrder, perm
<1>8. \A i \in 1 .. n : once[perm[i]] = bytes[i]
  BY <1>4, <1>5
<1> HIDE DEF once
<1>9. ApplyOrder(once, order) = bytes
  BY <1>4, <1>7, <1>8
<1> QED BY <1>9 DEF once

\* The bits of a written number, sign-extended beyond 64.
ValueBits == {ValueBit(k) : k \in 0 .. 63}
ExtendedBit(n) == ValueBit(IF n <= 64 THEN n - 1 ELSE 63)
ValueBytes(count) == BytesOf([n \in 1 .. 16 * count |-> ExtendedBit(n)])

\* Big-endian bytes have the bits they were made of.
LEMMA ValueBytesType ==
  ASSUME NEW count \in Nat
  PROVE  /\ ValueBytes(count) \in [1 .. 2 * count -> [1 .. 8 -> ValueBits]]
         /\ BitsOf(ValueBytes(count)) \in [1 .. 16 * count -> ValueBits]
         /\ \A n \in 1 .. 16 * count : BitsOf(ValueBytes(count))[n] = ExtendedBit(n)
<1> DEFINE bits == [n \in 1 .. 16 * count |-> ExtendedBit(n)]
           bytes == ValueBytes(count)
<1>1. \A n \in 1 .. 16 * count : ExtendedBit(n) \in ValueBits
  BY DEF ExtendedBit, ValueBits
<1>2. Len(bits) = 16 * count /\ \A n \in 1 .. 16 * count : bits[n] = ExtendedBit(n)
  OBVIOUS
<1> HIDE DEF bits
<1>3. Len(bits) \div 8 = 2 * count
  BY <1>2
<1>4. bytes = [k \in 1 .. 2 * count |-> [b \in 1 .. 8 |-> bits[8 * (2 * count - k) + b]]]
  <2>1. bytes = BytesOf(bits)
    BY Zenon DEF ValueBytes, bits
  <2>2. BytesOf(bits) = [k \in 1 .. 2 * count |-> [b \in 1 .. 8 |-> bits[8 * (2 * count - k) + b]]]
    BY <1>3, Zenon DEF BytesOf
  <2> QED BY <2>1, <2>2, Zenon
<1>5. \A k \in 1 .. 2 * count, b \in 1 .. 8 : 8 * (2 * count - k) + b \in 1 .. 16 * count
  OBVIOUS
<1>6. bytes \in [1 .. 2 * count -> [1 .. 8 -> ValueBits]]
  <2>1. \A k \in 1 .. 2 * count, b \in 1 .. 8 : bits[8 * (2 * count - k) + b] \in ValueBits
    BY <1>1, <1>2, <1>5
  <2> HIDE DEF bytes
  <2> QED BY <1>4, <2>1
<1>7. \A k \in 1 .. 2 * count, b \in 1 .. 8 : bytes[k][b] = bits[8 * (2 * count - k) + b]
  <2> HIDE DEF bytes
  <2> QED BY <1>4
<1> HIDE DEF bytes
<1>8. BitsOf(bytes) \in [1 .. 16 * count -> ValueBits]
  <2>1. PICK n \in Nat : n = 2 * count
    OBVIOUS
  <2>2. BitsOf(bytes) \in [1 .. 8 * n -> ValueBits]
    BY <1>6, <2>1, BitsOfType
  <2> QED BY <2>1, <2>2
<1>9. ASSUME NEW n \in 1 .. 16 * count PROVE BitsOf(bytes)[n] = ExtendedBit(n)
  <2>1. Len(bytes) = 2 * count
    BY <1>6
  <2>2. BitsOf(bytes)[n] = bytes[2 * count - (n - 1) \div 8][((n - 1) % 8) + 1]
    <3>1. n \in 1 .. 8 * Len(bytes)
      BY <2>1
    <3> QED BY <2>1, <3>1 DEF BitsOf
  <2>3. PICK k \in 1 .. 2 * count : k = 2 * count - (n - 1) \div 8
    OBVIOUS
  <2>4. PICK b \in 1 .. 8 : b = ((n - 1) % 8) + 1
    OBVIOUS
  <2>5. 8 * (2 * count - k) + b = n
    BY <2>3, <2>4
  <2> QED BY <1>2, <1>7, <2>2, <2>3, <2>4, <2>5
<1> QED BY <1>6, <1>8, <1>9 DEF bytes

\* What a write encodes: the bytes of the number in the property's byte order.
LEMMA EncodedValue ==
  ASSUME NEW p \in PropMeta, p.type # "bool", NEW count \in Nat \ {0}, count = p.count
  PROVE  /\ EncodeValue(p) = ApplyOrder(ValueBytes(count), p.order)
         /\ EncodeValue(p) # Refused =>
              /\ EncodeValue(p) \in [1 .. 2 * count -> [1 .. 8 -> ValueBits]]
              /\ ApplyOrder(EncodeValue(p), p.order) = ValueBytes(count)
<1>1. ASSUME NEW i \in 1 .. 16 * count
      PROVE  ValueBit(Min({i - 1, 63})) = ExtendedBit(i)
  <2>1. i - 1 \in Int /\ 63 \in Int
    OBVIOUS
  <2>2. Min({i - 1, 63}) = IF i - 1 <= 63 THEN i - 1 ELSE 63
    BY <2>1, MinPair
  <2>3. Min({i - 1, 63}) = IF i <= 64 THEN i - 1 ELSE 63
    BY <2>2
  <2> QED BY <2>3 DEF ExtendedBit
<1>2. [i \in 1 .. 16 * count |-> ValueBit(Min({i - 1, 63}))] = [i \in 1 .. 16 * count |-> ExtendedBit(i)]
  BY <1>1, Zenon
<1>3. EncodeValue(p) = ApplyOrder(BytesOf([i \in 1 .. 16 * count |-> ValueBit(Min({i - 1, 63}))]), p.order)
  BY DEF EncodeValue
<1>4. EncodeValue(p) = ApplyOrder(ValueBytes(count), p.order)
  BY <1>2, <1>3, Zenon DEF ValueBytes
<1>5. PICK n \in Nat : n = 2 * count
  OBVIOUS
<1>6. ValueBytes(count) \in [1 .. n -> [1 .. 8 -> ValueBits]]
  BY <1>5, ValueBytesType
<1>7. ASSUME EncodeValue(p) # Refused
      PROVE  /\ EncodeValue(p) \in [1 .. n -> [1 .. 8 -> ValueBits]]
             /\ ApplyOrder(EncodeValue(p), p.order) = ValueBytes(count)
  <2>1. ApplyOrder(ValueBytes(count), p.order) # Refused
    BY <1>4, <1>7
  <2>2. ApplyOrder(ValueBytes(count), p.order) \in [1 .. n -> [1 .. 8 -> ValueBits]]
    BY <1>6, <2>1, ApplyOrderType
  <2>3. ApplyOrder(ApplyOrder(ValueBytes(count), p.order), p.order) = ValueBytes(count)
    BY <1>6, <2>1, ApplyTwice
  <2> QED BY <1>4, <2>2, <2>3
<1> QED BY <1>4, <1>5, <1>7

\* What is mapped from an encoded value is that value, in its low bits.
LEMMA MappedIsWritten ==
  ASSUME NEW p \in PropMeta, p.type # "bool", ~IsBitSpace(p),
         NEW count \in Nat \ {0}, count = p.count,
         p.startBit = 0, p.endBit \in Nat, p.endBit < 16 * count,
         EncodeValue(p) # Refused, NEW b \in DOMAIN MapRegistersAt(EncodeValue(p), p, 0)
  PROVE  MapRegistersAt(EncodeValue(p), p, 0)[b] = ValueBit(b - 1)
<1> DEFINE bytes == EncodeValue(p)
           ordered == ValueBytes(count)
           all == BitsOf(ordered)
           val == MapRegistersAt(bytes, p, 0)
<1>1. PICK n \in Nat : n = 2 * count
  OBVIOUS
<1>2. bytes \in [1 .. n -> [1 .. 8 -> ValueBits]] /\ ApplyOrder(bytes, p.order) = ordered
  BY <1>1, EncodedValue
<1>3. /\ all \in [1 .. 16 * count -> ValueBits]
      /\ \A k \in 1 .. 16 * count : all[k] = ExtendedBit(k)
      /\ ordered \in [1 .. n -> [1 .. 8 -> ValueBits]]
  BY <1>1, ValueBytesType
<1>4. \A k \in 1 .. 16 * count : k <= 64 => all[k] = ValueBit(k - 1)
  BY <1>3 DEF ExtendedBit
<1> HIDE DEF bytes, ordered, all
<1>5. val = IF p.type = "float" /\ p.count \in {2, 4} THEN all ELSE InterpretInt(ordered, p)
  <2>1. Len(bytes) = n /\ p.count * 2 = n
    BY <1>1, <1>2
  <2>2. SubSeq(bytes, 1, n) = bytes
    BY <1>2, SubSeqWhole
  <2>3. ordered # Refused
    <3>1. DOMAIN ordered = 1 .. n /\ n # 0
      BY <1>1, <1>3
    <3> QED BY <3>1 DEF Refused
  <2>4. ~(Len(bytes) < p.count * 2)
    BY <2>1
  <2> QED BY <1>2, <2>1, <2>2, <2>3, <2>4, Zenon DEF MapRegistersAt, all
<1>6. CASE p.type = "float" /\ p.count \in {2, 4}
  <2>1. val = all
    BY <1>5, <1>6
  <2>2. b \in 1 .. 16 * count
    BY <1>3, <2>1 DEF bytes
  <2>3. b <= 64
    BY <1>6, <2>2
  <2> QED BY <1>4, <2>1, <2>2, <2>3 DEF bytes
<1>7. CASE ~(p.type = "float" /\ p.count \in {2, 4})
  <2>1. PICK to \in Nat : to = p.endBit
    OBVIOUS
  <2>2. Len(all) = 16 * count
    BY <1>3
  <2>3. Max({p.startBit, 0}) = 0
    BY MaxPair
  <2>4. Min({Max({p.endBit, p.startBit}), Len(all) - 1}) = to
    <3>1. Max({to, 0}) = to
      BY MaxPair
    <3>2. Len(all) - 1 \in Int /\ to <= Len(all) - 1
      BY <2>1, <2>2
    <3>3. Min({to, Len(all) - 1}) = to
      BY <3>2, MinPair
    <3> QED BY <2>1, <3>1, <3>3, Zenon
  <2>5. InterpretInt(ordered, p) =
          IF to - 0 + 1 >= 64 THEN SubSeq(all, 1, 64)
          ELSE [i \in 1 .. to - 0 + 1 |-> IF 0 + i - 1 < 64 THEN all[0 + i - 1 + 1] ELSE Zero]
    BY <2>3, <2>4, Zenon DEF InterpretInt, all
  <2>6. val = InterpretInt(ordered, p)
    BY <1>5, <1>7
  <2>7. CASE to - 0 + 1 >= 64
    <3>1. 64 <= 16 * count /\ 16 * count \in Nat
      BY <2>1, <2>7
    <3>2. PICK size \in Nat, head \in Nat : size = 16 * count /\ head = 64
      BY <3>1
    <3>3. val \in [1 .. 64 -> ValueBits] /\ \A k \in 1 .. 64 : val[k] = all[k]
      <4>1. val = SubSeq(all, 1, head)
        BY <2>5, <2>6, <2>7, <3>2
      <4>2. all \in [1 .. size -> ValueBits] /\ head <= size
        BY <1>3, <3>1, <3>2
      <4> HIDE DEF val
      <4>3. val \in [1 .. head -> ValueBits] /\ \A k \in 1 .. head : val[k] = all[k]
        BY <4>1, <4>2, SubSeqFirst
      <4> QED BY <3>2, <4>3
    <3>4. b \in 1 .. 64
      BY <3>3 DEF bytes
    <3>5. b \in 1 .. 16 * count
      BY <3>1, <3>4
    <3> QED BY <1>4, <3>3, <3>4, <3>5 DEF bytes
  <2>8. CASE ~(to - 0 + 1 >= 64)
    <3>1. val = [i \in 1 .. to + 1 |-> all[i]]
      <4>1. \A i \in 1 .. to + 1 : 0 + i - 1 < 64 /\ 0 + i - 1 + 1 = i
        BY <2>8
      <4>2. to - 0 + 1 = to + 1
        OBVIOUS
      <4>3. val = [i \in 1 .. to + 1 |-> IF 0 + i - 1 < 64 THEN all[0 + i - 1 + 1] ELSE Zero]
        BY <2>5, <2>6, <2>8, <4>2, Zenon
      <4> HIDE DEF val
      <4> QED BY <4>1, <4>3
    <3>2. b \in 1 .. to + 1
      BY <3>1 DEF bytes
    <3>3. b \in 1 .. 16 * count /\ b <= 64
      BY <2>1, <2>8, <3>2
    <3>4. val[b] = all[b]
      BY <3>1, <3>2, Zenon
    <3> QED BY <1>4, <3>3, <3>4 DEF bytes
  <2> QED BY <2>7, <2>8
<1> QED BY <1>6, <1>7

\* The two bytes of a register are those of the data.
LEMMA RegisterBits ==
  ASSUME NEW data, NEW k \in Nat
  PROVE  /\ DOMAIN Register(data, k) = 1 .. 16
         /\ Len(Register(data, k)) = 16
         /\ \A j \in 1 .. 2, b \in 1 .. 8 :
              Register(data, k)[8 * (2 - j) + b] = data[2 * (k - 1) + j][b]
<1> DEFINE pair == <<data[2 * k - 1], data[2 * k]>>
           bits == Register(data, k)
<1>1. Len(pair) = 2 /\ pair[1] = data[2 * k - 1] /\ pair[2] = data[2 * k]
  OBVIOUS
<1>2. bits = BitsOf(pair)
  BY DEF Register
<1> HIDE DEF pair, bits
<1>3. bits = [n \in 1 .. 16 |-> pair[2 - (n - 1) \div 8][((n - 1) % 8) + 1]]
  BY <1>1, <1>2 DEF BitsOf
<1>4. DOMAIN bits = 1 .. 16 /\ Len(bits) = 16
  BY <1>3
<1>5. ASSUME NEW j \in 1 .. 2, NEW b \in 1 .. 8
      PROVE  bits[8 * (2 - j) + b] = data[2 * (k - 1) + j][b]
  <2>1. PICK n \in 1 .. 16 : n = 8 * (2 - j) + b
    OBVIOUS
  <2>2. 2 - (n - 1) \div 8 = j /\ ((n - 1) % 8) + 1 = b
    BY <2>1
  <2>3. bits[n] = pair[j][b]
    BY <1>3, <2>2
  <2>4. pair[j] = data[2 * (k - 1) + j]
    <3>1. CASE j = 1
      <4>1. 2 * (k - 1) + 1 = 2 * k - 1
        OBVIOUS
      <4> QED BY <1>1, <3>1, <4>1
    <3>2. CASE j = 2
      <4>1. 2 * (k - 1) + 2 = 2 * k
        OBVIOUS
      <4> QED BY <1>1, <3>2, <4>1
    <3> QED BY <3>1, <3>2
  <2> QED BY <2>1, <2>3, <2>4
<1> QED BY <1>4, <1>5 DEF bits

-----------------------------------------------------------------------------
\* A register that holds register k of the data.
IsRegister(cell, data, k) ==
  DOMAIN cell = 1 .. 16 /\ \A b \in 1 .. 16 : cell[b] = Register(data, k)[b]

First(i) == props[i].base + props[i].offset

\* The properties ReadsBack is about: numbers read from holding registers.
Numeric(i) == props[i].readFC = 3 /\ props[i].type # "bool"

\* A frame that writes registers of property i, with what they encode.
GoodFrame(f, i) ==
  /\ FrameArea(f) = 3
  /\ \A a \in FrameCells(f) :
       /\ a \in First(i) .. First(i) + props[i].count - 1
       /\ IsRegister(FrameCell(f, a), EncodeValue(props[i]), a - First(i) + 1)

Covers(list, i, k) == \E j \in DOMAIN list : First(i) + k - 1 \in FrameCells(list[j])

IsList(s) == Len(s) \in Nat /\ s = [j \in 1 .. Len(s) |-> s[j]]

\* A list without its head.
LEMMA TailList ==
  ASSUME NEW s, IsList(s), s # << >>
  PROVE  /\ IsList(Tail(s))
         /\ Head(s) = s[1] /\ 1 \in DOMAIN s
         /\ \A j \in DOMAIN s : j # 1 => j - 1 \in DOMAIN Tail(s) /\ Tail(s)[j - 1] = s[j]
         /\ \A j \in DOMAIN Tail(s) : j + 1 \in DOMAIN s /\ Tail(s)[j] = s[j + 1]
<1> DEFINE S == {s[j] : j \in 1 .. Len(s)}
<1>1. s \in Seq(S)
  BY DEF IsList
<1> HIDE DEF S
<1>2. /\ Tail(s) \in Seq(S) /\ Head(s) = s[1]
      /\ Len(Tail(s)) = Len(s) - 1 /\ Len(s) \in Nat \ {0}
      /\ \A j \in 1 .. Len(Tail(s)) : Tail(s)[j] = s[j + 1]
  BY <1>1, HeadTailProperties
<1>3. DOMAIN s = 1 .. Len(s) /\ DOMAIN Tail(s) = 1 .. Len(Tail(s))
  BY <1>1, <1>2
<1>4. IsList(Tail(s))
  <2>1. PICK t \in Seq(S) : t = Tail(s)
    BY <1>2
  <2>2. IsList(t)
    BY DEF IsList
  <2> QED BY <2>1, <2>2
<1>5. ASSUME NEW j \in DOMAIN s, j # 1
      PROVE  j - 1 \in DOMAIN Tail(s) /\ Tail(s)[j - 1] = s[j]
  <2>1. j \in Nat /\ j - 1 \in 1 .. Len(Tail(s)) /\ (j - 1) + 1 = j
    BY <1>2, <1>3, <1>5
  <2> QED BY <1>2, <1>3, <2>1
<1>6. \A j \in DOMAIN Tail(s) : j + 1 \in DOMAIN s /\ Tail(s)[j] = s[j + 1]
  BY <1>2, <1>3
<1>7. 1 \in DOMAIN s
  BY <1>2, <1>3
<1> QED BY <1>2, <1>4, <1>5, <1>6, <1>7

\* A frame of function code 06 writes one register.
LEMMA SplitFrame ==
  ASSUME NEW data, NEW j \in Nat \ {0}, NEW addr \in Nat,
         NEW f, f = Frame(6, addr + j - 1, Register(data, j))
  PROVE  /\ FrameArea(f) = 3
         /\ FrameCells(f) = {addr + j - 1}
         /\ IsRegister(FrameCell(f, addr + j - 1), data, j)
<1>1. f.fc = 6 /\ f.addr = addr + j - 1 /\ f.bits = Register(data, j)
  BY DEF Frame
<1>2. DOMAIN Register(data, j) = 1 .. 16 /\ Len(Register(data, j)) = 16
  BY RegisterBits
<1>3. FrameArea(f) = 3 /\ Width(f) = 16
  BY <1>1 DEF FrameArea, Width
<1>4. FrameCells(f) = {addr + j - 1}
  <2>1. PICK at \in Nat : at = addr + j - 1
    OBVIOUS
  <2>2. FrameCells(f) = at .. at + (16 \div 16) - 1
    BY <1>1, <1>2, <1>3, <2>1 DEF FrameCells
  <2>3. at .. at + (16 \div 16) - 1 = {at}
    OBVIOUS
  <2> QED BY <2>1, <2>2, <2>3
<1>5. IsRegister(FrameCell(f, addr + j - 1), data, j)
  <2>1. PICK at \in Nat : at = addr + j - 1
    OBVIOUS
  <2>2. FrameCell(f, at) = [b \in 1 .. 16 |-> Register(data, j)[(at - at) * 16 + b]]
    BY <1>1, <1>3, <2>1 DEF FrameCell
  <2>3. \A b \in 1 .. 16 : (at - at) * 16 + b = b
    OBVIOUS
  <2> QED BY <2>1, <2>2, <2>3 DEF IsRegister
<1> QED BY <1>3, <1>4, <1>5

\* Where a bit is, register by register.
LEMMA InRegister ==
  ASSUME NEW q \in Nat, NEW r \in 0 .. 15
  PROVE  (16 * q + r) \div 16 = q /\ (16 * q + r) % 16 = r
OBVIOUS

\* A frame of function code 16 writes all registers.
LEMMA WholeFrame ==
  ASSUME NEW count \in Nat \ {0}, NEW data, NEW addr \in Nat,
         NEW f, f = Frame(16, addr, [n \in 1 .. 16 * count |->
                            Register(data, (n - 1) \div 16 + 1)[((n - 1) % 16) + 1]])
  PROVE  /\ FrameArea(f) = 3
         /\ FrameCells(f) = addr .. addr + count - 1
         /\ \A k \in 1 .. count : IsRegister(FrameCell(f, addr + k - 1), data, k)
<1> DEFINE bits == [n \in 1 .. 16 * count |-> Register(data, (n - 1) \div 16 + 1)[((n - 1) % 16) + 1]]
<1>1. f.fc = 16 /\ f.addr = addr /\ f.bits = bits
  BY DEF Frame
<1>2. Len(bits) = 16 * count
  OBVIOUS
<1>3. \A n \in 1 .. 16 * count : bits[n] = Register(data, (n - 1) \div 16 + 1)[((n - 1) % 16) + 1]
  OBVIOUS
<1> HIDE DEF bits
<1>4. FrameArea(f) = 3 /\ Width(f) = 16
  BY <1>1 DEF FrameArea, Width
<1>5. FrameCells(f) = addr .. addr + count - 1
  <2>1. Len(f.bits) \div Width(f) = count
    <3>1. (16 * count) \div 16 = count
      OBVIOUS
    <3> QED BY <1>1, <1>2, <1>4, <3>1
  <2> QED BY <1>1, <2>1 DEF FrameCells
<1>6. ASSUME NEW k \in 1 .. count PROVE IsRegister(FrameCell(f, addr + k - 1), data, k)
  <2>1. PICK at \in Nat : at = addr + k - 1
    OBVIOUS
  <2>2. FrameCell(f, at) = [b \in 1 .. 16 |-> bits[(at - addr) * 16 + b]]
    BY <1>1, <1>4 DEF FrameCell
  <2>3. ASSUME NEW b \in 1 .. 16
        PROVE  bits[(at - addr) * 16 + b] = Register(data, k)[b]
    <3>1. PICK n \in 1 .. 16 * count : n = (k - 1) * 16 + b
      OBVIOUS
    <3>2. at - addr = k - 1
      BY <2>1
    <3>3. PICK q \in Nat : q = k - 1
      OBVIOUS
    <3>4. n - 1 = 16 * q + (b - 1)
      BY <3>1, <3>3
    <3>5. (n - 1) \div 16 = q /\ (n - 1) % 16 = b - 1
      <4>1. PICK r \in 0 .. 15 : r = b - 1
        OBVIOUS
      <4>2. n - 1 = 16 * q + r
        BY <3>4, <4>1
      <4> QED BY <4>1, <4>2, InRegister
    <3>6. (n - 1) \div 16 + 1 = k /\ ((n - 1) % 16) + 1 = b
      BY <3>3, <3>5
    <3> QED BY <1>3, <3>1, <3>2, <3>6
  <2> QED BY <2>1, <2>2, <2>3 DEF IsRegister
<1> QED BY <1>4, <1>5, <1>6

\* The frames of a plan carry what the property encodes, register by register.
LEMMA PlanFrames ==
  ASSUME props \in Seq(PropMeta), AllValid, NEW i \in DOMAIN props, CanWrite(props[i]),
         WritePlan(props[i]) # Refused
  PROVE  /\ IsList(WritePlan(props[i]))
         /\ Numeric(i) =>
              /\ EncodeValue(props[i]) # Refused
              /\ \A j \in DOMAIN WritePlan(props[i]) : GoodFrame(WritePlan(props[i])[j], i)
              /\ \A k \in 1 .. props[i].count : Covers(WritePlan(props[i]), i, k)
<1> DEFINE p == props[i]
           plan == WritePlan(p)
           data == EncodeValue(p)
<1>0. ~(p.count < 1 \/ ~WriteFCFits(p) \/ p.base + p.offset \notin 0 .. MaxAddress)
  BY Zenon DEF WritePlan, Refused
<1>1. p \in PropMeta /\ WriteFCFits(p)
  BY <1>0
<1>2. PICK count \in Nat \ {0} : count = p.count
  <2>1. p.count \in Int /\ ~(p.count < 1)
    BY <1>0, <1>1 DEF PropMeta
  <2> QED BY <2>1
<1>3. PICK addr \in Nat : addr = First(i)
  BY <1>0, LimitsAssumption DEF First
<1>4. ~(p.count < 1 \/ ~WriteFCFits(p) \/ addr \notin 0 .. MaxAddress)
  BY <1>0, <1>3 DEF First
<1>5. CASE IsBitSpace(p) \/ p.writeFC \in {5, 15}
  <2>1. plan = CoilFrames(p, addr)
    BY <1>3, <1>4, <1>5, Zenon DEF WritePlan, First
  <2>2. PICK f : plan = <<f>>
    BY <2>1, Zenon DEF CoilFrames
  <2>3. IsList(plan)
    BY <2>2 DEF IsList
  <2>4. ~Numeric(i)
    BY <1>1, <1>4, <1>5 DEF Numeric, IsBitSpace, IsBitFC, WriteFCFits
  <2> QED BY <2>3, <2>4
<1>6. CASE ~(IsBitSpace(p) \/ p.writeFC \in {5, 15})
  <2>1. data # Refused
    BY <1>3, <1>4, <1>6, Zenon DEF WritePlan, First
  <2>2. CASE p.writeFC = 6
    <3>1. plan = SplitFrames(p, data, addr)
      BY <1>3, <1>4, <1>6, <2>1, <2>2, Zenon DEF WritePlan, First
    <3> HIDE DEF data
    <3>2. plan = [j \in 1 .. count |-> Frame(6, addr + j - 1, Register(data, j))]
      BY <1>2, <3>1 DEF SplitFrames
    <3> HIDE DEF plan
    <3>3. DOMAIN plan = 1 .. count /\ IsList(plan)
      BY <3>2 DEF IsList
    <3>4. ASSUME NEW j \in 1 .. count
          PROVE  GoodFrame(plan[j], i) /\ First(i) + j - 1 \in FrameCells(plan[j])
      <4>1. j \in Nat \ {0} /\ plan[j] = Frame(6, addr + j - 1, Register(data, j))
        BY <3>2
      <4>2. /\ FrameArea(plan[j]) = 3
            /\ FrameCells(plan[j]) = {addr + j - 1}
            /\ IsRegister(FrameCell(plan[j], addr + j - 1), data, j)
        BY <4>1, SplitFrame
      <4>3. /\ addr + j - 1 \in addr .. addr + count - 1
            /\ addr + j - 1 - addr + 1 = j
        OBVIOUS
      <4> QED BY <1>2, <1>3, <4>2, <4>3 DEF GoodFrame, data
    <3> QED BY <1>2, <2>1, <3>3, <3>4 DEF Covers, plan, data
  <2>3. CASE p.writeFC # 6
    <3> DEFINE f == Frame(16, addr, [n \in 1 .. 16 * count |->
                            Register(data, (n - 1) \div 16 + 1)[((n - 1) % 16) + 1]])
    <3>1. plan = <<f>>
      BY <1>2, <1>3, <1>4, <1>6, <2>1, <2>3, Zenon DEF WritePlan, First
    <3> HIDE DEF data
    <3>2. /\ FrameArea(f) = 3
          /\ FrameCells(f) = addr .. addr + count - 1
          /\ \A k \in 1 .. count : IsRegister(FrameCell(f, addr + k - 1), data, k)
      BY WholeFrame
    <3> HIDE DEF f, plan
    <3>3. DOMAIN plan = {1} /\ plan[1] = f /\ IsList(plan)
      BY <3>1 DEF IsList
    <3>4. GoodFrame(f, i)
      <4>1. ASSUME NEW a \in FrameCells(f)
            PROVE  /\ a \in First(i) .. First(i) + props[i].count - 1
                   /\ IsRegister(FrameCell(f, a), data, a - First(i) + 1)
        <5>0. a \in addr .. addr + count - 1
          BY <3>2, <4>1
        <5>1. PICK k \in 1 .. count : k = a - addr + 1 /\ a = addr + k - 1
          BY <5>0
        <5> QED BY <1>2, <1>3, <3>2, <5>1
      <4> QED BY <3>2, <4>1 DEF GoodFrame, data
    <3>5. ASSUME NEW k \in 1 .. count PROVE Covers(plan, i, k)
      <4>1. addr + k - 1 \in addr .. addr + count - 1
        OBVIOUS
      <4> QED BY <1>3, <3>2, <3>3, <4>1 DEF Covers
    <3> QED BY <1>2, <2>1, <3>3, <3>4, <3>5 DEF plan, data
  <2> QED BY <2>2, <2>3
<1> QED BY <1>5, <1>6

-----------------------------------------------------------------------------
\* Register k of property i is as a write of it leaves it.
Holds(i, k) == IsRegister(Cell(3, First(i) + k - 1), EncodeValue(props[i]), k)

\* A property whose write is complete is what the device holds.
WroteInv ==
  \A i \in wrote :
    /\ AllValid /\ i \in DOMAIN props
    /\ Numeric(i) => /\ EncodeValue(props[i]) # Refused
                     /\ \A k \in 1 .. props[i].count : Holds(i, k)

\* While a property is written, the device holds what was sent, and the frames
\* that are left are the rest of it.
WriteInv ==
  phase = "write" =>
    /\ AllValid /\ target \in DOMAIN props /\ IsList(frames)
    /\ Numeric(target) =>
         /\ EncodeValue(props[target]) # Refused
         /\ \A j \in DOMAIN frames : GoodFrame(frames[j], target)
         /\ \A k \in 1 .. props[target].count : Holds(target, k) \/ Covers(frames, target, k)

\* A register stays as it is written while its cell does.
LEMMA HoldsSame ==
  ASSUME props' = props, NEW i, NEW k, NEW a, a = First(i) + k - 1, Cell(3, a)' = Cell(3, a)
  PROVE  Holds(i, k)' = Holds(i, k)
<1>1. First(i)' = First(i)
  BY DEF First
<1>2. Holds(i, k) = IsRegister(Cell(3, a), EncodeValue(props[i]), k)
  BY DEF Holds
<1>3. Holds(i, k)' = IsRegister(Cell(3, a)', EncodeValue(props[i]), k)
  BY <1>1 DEF Holds
<1> QED BY <1>2, <1>3

\* Where the registers of a number are.
LEMMA NumericCell ==
  ASSUME props \in Seq(PropMeta), AllValid, NEW i \in DOMAIN props, Numeric(i),
         NEW k \in 1 .. props[i].count
  PROVE  /\ k \in Nat /\ First(i) \in Nat
         /\ First(i) + k - 1 \in Addresses
         /\ First(i) + k - 1 \in props[i].base + props[i].offset .. props[i].base + End(i) - 1
<1>1. props[i].readFC > 0
  BY DEF Numeric
<1>2. PICK count \in Nat \ {0} : count = props[i].count
  BY <1>1, CodeValid
<1>3. PICK base \in Nat : base = props[i].base
  BY <1>1, CodeValid
<1>4. PICK offset \in Nat : offset = props[i].offset
  BY <1>1, CodeValid
<1>5. End(i) = offset + count /\ base + (offset + count) <= MaxAddress + 1
  BY <1>1, <1>2, <1>3, <1>4, CodeValid
<1>6. First(i) = base + offset
  BY <1>3, <1>4 DEF First
<1>7. k \in 1 .. count
  BY <1>2
<1>8. base + offset + k - 1 \in 0 .. MaxAddress
  BY <1>5, <1>7, LimitsAssumption
<1>9. base + offset + k - 1 \in base + offset .. base + (offset + count) - 1
  BY <1>7
<1>10. First(i) + k - 1 \in Addresses
  BY <1>6, <1>8, Zenon DEF Addresses
<1>11. First(i) + k - 1 \in props[i].base + props[i].offset .. props[i].base + End(i) - 1
  BY <1>3, <1>4, <1>5, <1>6, <1>9, Zenon
<1>12. k \in Nat /\ First(i) \in Nat
  BY <1>6, <1>7
<1> QED BY <1>10, <1>11, <1>12, Zenon

\* A step that leaves the memory leaves what was written.
LEMMA QuietWrote ==
  ASSUME UNCHANGED <<props, mem>>
  PROVE  /\ WroteInv /\ wrote' \subseteq wrote => WroteInv'
         /\ \A i, k : Holds(i, k)' = Holds(i, k)
         /\ \A i : Numeric(i)' = Numeric(i) /\ First(i)' = First(i)
<1>1. \A i, k : Holds(i, k)' = Holds(i, k)
  <2>1. \A a : Cell(3, a)' = Cell(3, a)
    BY DEF Cell
  <2> QED BY <2>1, HoldsSame
<1>2. AllValid' = AllValid
  BY PlansSame
<1>3. \A i : Numeric(i)' = Numeric(i) /\ First(i)' = First(i)
  BY DEF Numeric, First
<1>4. WroteInv /\ wrote' \subseteq wrote => WroteInv'
  BY <1>1, <1>2, <1>3 DEF WroteInv
<1> QED BY <1>1, <1>3, <1>4

\* A write is planned: its frames cover the property.
LEMMA StartWriteKeeps ==
  ASSUME DevicePlanInv, WroteInv, NEW i \in DOMAIN props, StartWrite(i)
  PROVE  WroteInv' /\ WriteInv'
<1>1. /\ props \in Seq(PropMeta) /\ AllValid
      /\ UNCHANGED <<props, mem>> /\ wrote' \subseteq wrote
      /\ target' = i /\ frames' = WritePlan(props[i])
      /\ CanWrite(props[i]) /\ WritePlan(props[i]) # Refused
  BY DEF DevicePlanInv, DeviceTypeOK, PlanInv, StartWrite, planVars
<1>2. WroteInv' /\ AllValid'
  BY <1>1, QuietWrote, PlansSame
<1> DEFINE plan == WritePlan(props[i])
<1>3. /\ IsList(plan)
      /\ Numeric(i) =>
           /\ EncodeValue(props[i]) # Refused
           /\ \A j \in DOMAIN plan : GoodFrame(plan[j], i)
           /\ \A k \in 1 .. props[i].count : Covers(plan, i, k)
  BY <1>1, PlanFrames
<1> HIDE DEF plan
<1>4. frames' = plan /\ Numeric(i)' = Numeric(i) /\ First(i)' = First(i)
  BY <1>1, QuietWrote DEF plan
<1>5. ASSUME NEW f PROVE GoodFrame(f, i)' = GoodFrame(f, i)
  BY <1>1, <1>4 DEF GoodFrame
<1>6. ASSUME NEW k PROVE Covers(plan, i, k) => Covers(frames, i, k)'
  BY <1>1, <1>4 DEF Covers
<1> QED BY <1>1, <1>2, <1>3, <1>4, <1>5, <1>6 DEF WriteInv

\* A frame is sent: what it writes is held, and what is left covers the rest.
LEMMA WriteFrameKeeps ==
  ASSUME DevicePlanInv, MemInv, WroteInv, WriteInv, WriteFrame
  PROVE  WroteInv' /\ WriteInv'
<1>1. /\ props \in Seq(PropMeta) /\ UNCHANGED <<props, target, phase>> /\ props' = props
      /\ phase = "write" /\ frames # << >> /\ frames' = Tail(frames)
  BY DEF DevicePlanInv, DeviceTypeOK, WriteFrame, planVars
<1>2. PICK f : /\ f = Head(frames)
               /\ mem' = [mem EXCEPT ![FrameArea(f)] =
                    [a \in Addresses |-> IF a \in FrameCells(f) THEN FrameCell(f, a) ELSE @[a]]]
               /\ wrote' = {i \in wrote : ~Touches(f, i)}
  BY DEF WriteFrame
<1>3. /\ \A a \in Addresses : a \in FrameCells(f) => mem'[FrameArea(f)][a] = FrameCell(f, a)
      /\ \A a \in Addresses : ~(3 = FrameArea(f) /\ a \in FrameCells(f)) => Cell(3, a)' = Cell(3, a)
  BY <1>2, FrameChanges
<1>4. /\ AllValid' = AllValid
      /\ \A i : Numeric(i)' = Numeric(i) /\ First(i)' = First(i)
  BY <1>1, PlansSame DEF Numeric, First
<1>5. ASSUME NEW i \in wrote'
      PROVE  /\ AllValid' /\ i \in DOMAIN props'
             /\ Numeric(i)' => /\ EncodeValue(props'[i]) # Refused
                               /\ \A k \in 1 .. props'[i].count : Holds(i, k)'
  <2>1. i \in wrote /\ ~Touches(f, i) /\ AllValid /\ i \in DOMAIN props
    BY <1>2 DEF WroteInv
  <2>2. ASSUME Numeric(i), NEW k \in 1 .. props[i].count PROVE Holds(i, k)'
    <3>1. PICK a : a = First(i) + k - 1
      OBVIOUS
    <3>2. a \in Addresses /\ a \in props[i].base + props[i].offset .. props[i].base + End(i) - 1
      BY <1>1, <2>1, <2>2, <3>1, NumericCell
    <3>3. ~(3 = FrameArea(f) /\ a \in FrameCells(f))
      BY <2>1, <2>2, <3>2 DEF Touches, Numeric
    <3>4. Holds(i, k)' = Holds(i, k)
      BY <1>1, <1>3, <3>1, <3>2, <3>3, HoldsSame
    <3> QED BY <2>1, <2>2, <3>4 DEF WroteInv
  <2> QED BY <1>1, <1>4, <2>1, <2>2 DEF WroteInv
<1>6. WroteInv'
  BY <1>5 DEF WroteInv
<1>7. AllValid /\ target \in DOMAIN props /\ IsList(frames)
  BY <1>1 DEF WriteInv
<1>8. /\ IsList(Tail(frames))
      /\ f = frames[1] /\ 1 \in DOMAIN frames
      /\ \A j \in DOMAIN frames : j # 1 => j - 1 \in DOMAIN Tail(frames) /\ Tail(frames)[j - 1] = frames[j]
      /\ \A j \in DOMAIN Tail(frames) : j + 1 \in DOMAIN frames /\ Tail(frames)[j] = frames[j + 1]
  BY <1>1, <1>2, <1>7, TailList
<1>9. PICK t : t = target
  OBVIOUS
<1>10. ASSUME Numeric(t)
       PROVE  /\ EncodeValue(props[t]) # Refused
              /\ \A j \in DOMAIN frames' : GoodFrame(frames[j], t)'
              /\ \A k \in 1 .. props[t].count : Holds(t, k)' \/ Covers(frames, t, k)'
  <2>1. /\ EncodeValue(props[t]) # Refused
        /\ \A j \in DOMAIN frames : GoodFrame(frames[j], t)
        /\ \A k \in 1 .. props[t].count : Holds(t, k) \/ Covers(frames, t, k)
    BY <1>1, <1>9, <1>10 DEF WriteInv
  <2>2. ASSUME NEW g PROVE GoodFrame(g, t)' = GoodFrame(g, t)
    BY <1>1, <1>4 DEF GoodFrame
  <2>3. ASSUME NEW j \in DOMAIN frames' PROVE GoodFrame(frames[j], t)'
    <3>1. PICK g : g = frames'[j]
      OBVIOUS
    <3>2. GoodFrame(g, t)
      BY <1>1, <1>8, <2>1, <2>3, <3>1
    <3>3. GoodFrame(g, t)'
      BY <2>2, <3>2
    <3> QED BY <3>1, <3>3 DEF GoodFrame
  <2>4. ASSUME NEW k \in 1 .. props[t].count PROVE Holds(t, k)' \/ Covers(frames, t, k)'
    <3>1. PICK a : a = First(t) + k - 1
      OBVIOUS
    <3>2. a \in Addresses /\ k \in Nat /\ First(t) \in Nat
      BY <1>1, <1>7, <1>9, <1>10, <3>1, NumericCell
    <3>3. CASE a \in FrameCells(f)
      <4>1. GoodFrame(f, t)
        BY <1>8, <2>1
      <4>2. FrameArea(f) = 3 /\ IsRegister(FrameCell(f, a), EncodeValue(props[t]), a - First(t) + 1)
        BY <3>3, <4>1 DEF GoodFrame
      <4>3. a - First(t) + 1 = k
        BY <3>1, <3>2
      <4>4. mem'[3][a] = FrameCell(f, a) /\ IsRegister(FrameCell(f, a), EncodeValue(props[t]), k)
        BY <1>3, <3>2, <3>3, <4>2, <4>3
      <4>5. mem'[3][a] # << >>
        <5>1. DOMAIN mem'[3][a] # {}
          BY <4>4 DEF IsRegister
        <5> QED BY <5>1
      <4>6. Cell(3, a)' = FrameCell(f, a)
        BY <4>4, <4>5 DEF Cell
      <4>7. Holds(t, k)'
        BY <1>1, <1>4, <3>1, <4>4, <4>6 DEF Holds
      <4> QED BY <4>7
    <3>4. CASE a \notin FrameCells(f)
      <4>1. Holds(t, k)' = Holds(t, k)
        BY <1>1, <1>3, <3>1, <3>2, <3>4, HoldsSame
      <4>2. ASSUME Covers(frames, t, k) PROVE Covers(frames, t, k)'
        <5>1. PICK j \in DOMAIN frames : a \in FrameCells(frames[j])
          BY <3>1, <4>2 DEF Covers
        <5>2. j # 1
          BY <1>8, <3>4, <5>1
        <5>3. PICK h : h = j - 1
          OBVIOUS
        <5>4. h \in DOMAIN frames' /\ frames'[h] = frames[j]
          BY <1>1, <1>8, <5>2, <5>3
        <5>5. PICK g : g = frames[j] /\ g = frames'[h]
          BY <5>4
        <5>6. a \in FrameCells(g)
          BY <5>1, <5>5
        <5> QED BY <1>4, <3>1, <5>4, <5>5, <5>6 DEF Covers, FrameCells, Width
      <4> QED BY <2>1, <4>1, <4>2
    <3> QED BY <3>3, <3>4
  <2> QED BY <2>1, <2>3, <2>4
<1>11. WriteInv'
  <2>1. AllValid' /\ target' \in DOMAIN props' /\ IsList(frames)'
    BY <1>1, <1>4, <1>7, <1>8 DEF IsList
  <2>2. ASSUME Numeric(target)'
        PROVE  /\ EncodeValue(props[target])' # Refused
               /\ \A j \in DOMAIN frames' : GoodFrame(frames[j], target)'
               /\ \A k \in 1 .. props'[target'].count : Holds(target, k)' \/ Covers(frames, target, k)'
    <3>1. target' = t /\ Numeric(t)
      BY <1>1, <1>4, <1>9, <2>2 DEF Numeric
    <3>2. \A k : Holds(target, k)' = Holds(t, k)' /\ Covers(frames, target, k)' = Covers(frames, t, k)'
      BY <3>1 DEF Holds, Covers, First
    <3>3. \A j : GoodFrame(frames[j], target)' = GoodFrame(frames[j], t)'
      BY <3>1 DEF GoodFrame, First
    <3> QED BY <1>1, <1>10, <3>1, <3>2, <3>3
  <2> QED BY <2>1, <2>2 DEF WriteInv
<1> QED BY <1>6, <1>11

\* The last frame is confirmed: the device holds the whole value.
LEMMA WriteDoneKeeps ==
  ASSUME WroteInv, WriteInv, WriteDone
  PROVE  WroteInv' /\ WriteInv'
<1>1. /\ UNCHANGED <<props, mem, target, frames>> /\ props' = props
      /\ phase = "write" /\ frames = << >> /\ phase' = "idle" /\ wrote' = wrote \cup {target}
  BY DEF WriteDone, planVars
<1>2. /\ \A i, k : Holds(i, k)' = Holds(i, k)
      /\ \A i : Numeric(i)' = Numeric(i)
      /\ AllValid' = AllValid
  BY <1>1, QuietWrote, PlansSame
<1>3. \A k : ~Covers(frames, target, k)
  BY <1>1 DEF Covers
<1>4. /\ AllValid /\ target \in DOMAIN props
      /\ Numeric(target) => /\ EncodeValue(props[target]) # Refused
                            /\ \A k \in 1 .. props[target].count : Holds(target, k)
  BY <1>1, <1>3 DEF WriteInv
<1>5. WroteInv'
  BY <1>1, <1>2, <1>4 DEF WroteInv
<1>6. WriteInv'
  BY <1>1 DEF WriteInv
<1> QED BY <1>5, <1>6

\* Every action keeps what was written and what is being written.
LEMMA DeviceStepWrote ==
  DeviceInv /\ WroteInv /\ WriteInv /\ [DeviceNext]_deviceVars => WroteInv' /\ WriteInv'
<1> SUFFICES ASSUME DevicePlanInv, MemInv, WroteInv, WriteInv, [DeviceNext]_deviceVars
             PROVE  WroteInv' /\ WriteInv'
  BY DEF DeviceInv
<1>1. CASE \E i \in DOMAIN props : StartWrite(i)
  BY <1>1, StartWriteKeeps
<1>2. CASE WriteFrame
  BY <1>2, WriteFrameKeeps
<1>3. CASE WriteDone
  BY <1>3, WriteDoneKeeps
<1>4. CASE Configure \/ Reload \/ StartRound \/ ReadGroup \/ SkipGroup \/ EndRound \/ WriteFailed
  <2>1. UNCHANGED <<props, mem, wrote>> /\ phase' # "write"
    BY <1>4 DEF Configure, Reload, StartRound, ReadGroup, SkipGroup, EndRound, WriteFailed, planVars,
                runVars
  <2>2. WroteInv'
    BY <2>1, QuietWrote
  <2> QED BY <2>1, <2>2 DEF WriteInv
<1>5. CASE UNCHANGED deviceVars
  <2>1. UNCHANGED <<props, mem, wrote, phase, target, frames>>
    BY <1>5 DEF deviceVars, planVars, runVars
  <2>2. WroteInv'
    BY <2>1, QuietWrote
  <2>3. /\ \A i, k : Holds(i, k)' = Holds(i, k)
        /\ AllValid' = AllValid
    BY <2>1, QuietWrote, PlansSame
  <2>4. WriteInv'
    BY <2>1, <2>3 DEF WriteInv, GoodFrame, Covers, Numeric, First, IsList
  <2> QED BY <2>2, <2>4
<1> QED BY <1>1, <1>2, <1>3, <1>4, <1>5 DEF DeviceNext

\* The bytes of a register that holds register k of the data are its bytes.
LEMMA HeldBytes ==
  ASSUME NEW cell, NEW data, NEW k \in Nat \ {0}, IsRegister(cell, data, k), NEW j \in 1 .. 2,
         NEW n, n = 2 * (k - 1) + j, data[n] \in [1 .. 8 -> ValueBits]
  PROVE  BytesOf(cell)[j] = data[n]
<1> DEFINE byte == BytesOf(cell)[j]
           own == data[n]
<1>1. DOMAIN cell = 1 .. 16 /\ \A b \in 1 .. 16 : cell[b] = Register(data, k)[b]
  BY DEF IsRegister
<1>2. ASSUME NEW b \in 1 .. 8 PROVE cell[8 * (2 - j) + b] = own[b]
  <2>1. 8 * (2 - j) + b \in 1 .. 16
    OBVIOUS
  <2>2. Register(data, k)[8 * (2 - j) + b] = data[2 * (k - 1) + j][b]
    BY RegisterBits
  <2> QED BY <1>1, <2>1, <2>2
<1> HIDE DEF own
<1>3. \A b \in 1 .. 8 : own[b] \in ValueBits
  BY DEF own
<1>4. /\ \A b \in 1 .. 8 : byte[b] = cell[8 * (2 - j) + b]
      /\ byte \in [1 .. 8 -> ValueBits]
  <2>1. \A b \in 1 .. 8 : cell[8 * (2 - j) + b] \in ValueBits
    BY <1>2, <1>3
  <2> QED BY <1>1, <2>1, RegisterBytes
<1> HIDE DEF byte
<1>5. \A b \in 1 .. 8 : byte[b] = own[b]
  BY <1>2, <1>4
<1>6. own \in [1 .. 8 -> ValueBits]
  BY DEF own
<1>7. byte = own
  BY <1>4, <1>5, <1>6
<1> QED BY <1>7 DEF byte, own

\* The device answers the bytes that were encoded, once they are all held.
LEMMA AnswerIsEncoded ==
  ASSUME props \in Seq(PropMeta), AllValid, NEW i \in DOMAIN props, Numeric(i),
         EncodeValue(props[i]) # Refused, \A k \in 1 .. props[i].count : Holds(i, k)
  PROVE  OwnBytes(i) = EncodeValue(props[i])
<1>1. props[i].readFC = 3 /\ props[i].readFC > 0 /\ props[i].type # "bool"
  BY DEF Numeric
<1>2. PICK count \in Nat \ {0} : count = props[i].count
  BY <1>1, CodeValid
<1>3. PICK start \in Nat : start = First(i)
  <2>1. props[i].base \in Nat /\ props[i].offset \in Nat
    BY <1>1, CodeValid, LimitsAssumption
  <2> QED BY <2>1 DEF First
<1>4. PICK data : data = EncodeValue(props[i])
  OBVIOUS
<1>5. props[i] \in PropMeta
  OBVIOUS
<1>6. data \in [1 .. 2 * count -> [1 .. 8 -> ValueBits]]
  BY <1>1, <1>2, <1>4, <1>5, EncodedValue
<1>7. OwnBytes(i) = Response(3, start, count) /\ ~IsBitFC(3)
  BY <1>1, <1>2, <1>3 DEF OwnBytes, First, IsBitFC
<1>8. \A k \in 1 .. count : IsRegister(Cell(3, start + k - 1), data, k)
  BY <1>2, <1>3, <1>4 DEF Holds
<1> DEFINE raw == Response(3, start, count)
<1>9. ASSUME NEW n \in 1 .. 2 * count PROVE raw[n] = data[n]
  <2>1. PICK k \in 1 .. count : k = (n - 1) \div 2 + 1
    OBVIOUS
  <2>2. PICK j \in 1 .. 2 : j = ((n - 1) % 2) + 1
    OBVIOUS
  <2>3. 2 * (k - 1) + j = n /\ start + k - 1 = start + (n - 1) \div 2
    BY <2>1, <2>2
  <2>4. PICK cell : cell = Cell(3, start + k - 1)
    OBVIOUS
  <2>5. raw[n] = BytesOf(cell)[j]
    <3>1. raw[n] = BytesOf(Cell(3, start + (n - 1) \div 2))[((n - 1) % 2) + 1]
      <4>1. raw = [x \in 1 .. 2 * count |->
                     BytesOf(Cell(3, start + (x - 1) \div 2))[((x - 1) % 2) + 1]]
        BY <1>7 DEF Response
      <4> HIDE DEF raw
      <4> QED BY <4>1
    <3>2. Cell(3, start + (n - 1) \div 2) = cell
      BY <2>3, <2>4
    <3> QED BY <2>2, <3>1, <3>2, Zenon
  <2>6. IsRegister(cell, data, k) /\ data[n] \in [1 .. 8 -> ValueBits]
    BY <1>6, <1>8, <2>4
  <2>7. BytesOf(cell)[j] = data[n]
    <3>1. k \in Nat \ {0} /\ n = 2 * (k - 1) + j
      BY <2>3
    <3> QED BY <2>6, <3>1, HeldBytes
  <2> QED BY <2>5, <2>7
<1>10. raw \in [1 .. 2 * count -> [1 .. 8 -> ValueBits]]
  <2>1. \A n \in 1 .. 2 * count : raw[n] \in [1 .. 8 -> ValueBits]
    BY <1>6, <1>9
  <2> QED BY <1>7, <2>1, RegisterResponse
<1> HIDE DEF raw
<1>11. raw = data
  BY <1>6, <1>9, <1>10
<1> QED BY <1>4, <1>7, <1>11 DEF raw

\* A number that was written and then read is the one that was written.
LEMMA ReadBack ==
  ASSUME DeviceInv, WroteInv
  PROVE  ReadsBack
<1> SUFFICES ASSUME NEW i \in fresh \cap wrote,
                    props[i].readFC = 3, props[i].type # "bool", props[i].startBit = 0,
                    NEW b \in DOMAIN cache[i]
             PROVE  cache[i][b] = ValueBit(b - 1)
  BY DEF ReadsBack
<1>1. props \in Seq(PropMeta)
  BY DEF DeviceInv, DevicePlanInv, DeviceTypeOK
<1>2. /\ AllValid /\ i \in DOMAIN props /\ Numeric(i)
      /\ EncodeValue(props[i]) # Refused
      /\ \A k \in 1 .. props[i].count : Holds(i, k)
  BY DEF WroteInv, Numeric
<1>3. props[i].readFC > 0 /\ ~IsBitFC(props[i].readFC)
  BY DEF IsBitFC
<1>4. ~IsBitSpace(props[i])
  BY <1>1, <1>2, <1>3, CodeValid
<1>5. cache[i] = MapRegistersAt(EncodeValue(props[i]), props[i], 0)
  <2>1. cache[i] = MapRegistersAt(OwnBytes(i), props[i], 0)
    BY <1>4 DEF DeviceInv, FreshInv
  <2>2. OwnBytes(i) = EncodeValue(props[i])
    BY <1>1, <1>2, AnswerIsEncoded
  <2> QED BY <2>1, <2>2
<1>6. PICK count \in Nat \ {0} : count = props[i].count
  BY <1>1, <1>2, <1>3, CodeValid
<1>7. props[i] \in PropMeta /\ props[i].endBit \in Nat /\ props[i].endBit < 16 * count
  BY <1>1, <1>2, <1>3, <1>6, CodeValid
<1>8. b \in DOMAIN MapRegistersAt(EncodeValue(props[i]), props[i], 0)
  BY <1>5
<1>9. MapRegistersAt(EncodeValue(props[i]), props[i], 0)[b] = ValueBit(b - 1)
  BY <1>2, <1>4, <1>6, <1>7, <1>8, MappedIsWritten
<1> QED BY <1>5, <1>9

\* For every byte order, width and bit range from bit 0, and whatever else the
\* device's properties share its registers with: a number written to holding
\* registers, frame by frame, is what the next poll reads (BuildWritePlan,
\* applyByteOrderForWrite, MapRegistersAt).
THEOREM RoundTrip == DeviceSpec => []ReadsBack
<1> DEFINE Inv == DeviceInv /\ WroteInv /\ WriteInv
<1>1. DeviceInit => Inv
  <2>1. DeviceInit => DeviceInv
    BY DeviceInitInv, DeviceInitFresh DEF DeviceInv
  <2>2. DeviceInit => WroteInv /\ WriteInv
    BY DEF DeviceInit, WroteInv, WriteInv
  <2> QED BY <2>1, <2>2
<1>2. Inv /\ [DeviceNext]_deviceVars => Inv'
  <2>1. DeviceInv /\ [DeviceNext]_deviceVars => DeviceInv'
    BY DeviceStepInv, DeviceStepFresh DEF DeviceInv
  <2> QED BY <2>1, DeviceStepWrote
<1>3. Inv => ReadsBack
  BY ReadBack
<1> QED BY <1>1, <1>2, <1>3, PTL DEF DeviceSpec

=============================================================================

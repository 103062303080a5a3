------------------------------ MODULE LogStream ------------------------------
(***************************************************************************)
(* The log records the web pages show (internal/logx/sink.go): a ring of   *)
(* the last records, and streams that first send the ring and then what is *)
(* pushed.  A stream subscribes before it copies the ring, so that nothing *)
(* is lost between the two; a slow stream loses records, it never slows    *)
(* the loggers down.  Records are numbered in the order of their pushes.   *)
(***************************************************************************)
EXTENDS Naturals, Sequences, SequencesExt

CONSTANTS
  Clients,      \* connections of SyslogStreamHandler
  Sizes,        \* sizes the ring may be given
  ChanCap,      \* capacity of a subscriber's channel
  MaxEntries    \* bound: records pushed

ASSUME StreamAssumption ==
  /\ Sizes \subseteq Nat \ {0} /\ Sizes # {}
  /\ ChanCap \in Nat \ {0}
  /\ MaxEntries \in Nat

VARIABLES
  buf,          \* ringSink.buf
  size,         \* ringSink.size
  pushed,       \* records pushed so far
  calls,        \* calls[c]: calls the handler has made before it streams
  subs,         \* ringSink.subs
  chan,         \* chan[c]: the subscriber's channel
  first,        \* history: oldest record the stream owes its client
  sent,         \* history: records sent to the client
  missed        \* history: records its channel had no room for

vars == <<buf, size, pushed, calls, subs, chan, first, sent, missed>>

Init ==
  /\ buf = << >>
  /\ size \in Sizes
  /\ pushed = 0
  /\ calls = [c \in Clients |-> 0]
  /\ subs = {}
  /\ chan = [c \in Clients |-> << >>]
  /\ first = [c \in Clients |-> 0]
  /\ sent = [c \in Clients |-> {}]
  /\ missed = [c \in Clients |-> {}]

\* Mutant of Order: the ring is copied first.
OrderSwapped == <<"recent", "subscribe">>

\* The calls of a handler before it streams.
Order == <<"subscribe", "recent">>

Calls(c, name) == calls[c] < Len(Order) /\ Order[calls[c] + 1] = name

Streaming(c) == calls[c] = Len(Order)

Newest(s, n) == IF Len(s) <= n THEN s ELSE SubSeq(s, Len(s) - n + 1, Len(s))

-----------------------------------------------------------------------------
\* push: one critical section for the ring and all subscribers.
Push ==
  LET n == pushed + 1
      room(c) == Len(chan[c]) < ChanCap
  IN /\ n <= MaxEntries
     /\ pushed' = n
     /\ buf' = Newest(Append(buf, n), size)
     /\ chan' = [c \in Clients |-> IF c \in subs /\ room(c) THEN Append(chan[c], n) ELSE chan[c]]
     /\ missed' = [c \in Clients |-> IF c \in subs /\ ~room(c) THEN missed[c] \cup {n} ELSE missed[c]]
     /\ UNCHANGED <<size, calls, subs, first, sent>>

Resize(n) ==
  /\ size' = n
  /\ buf' = Newest(buf, n)
  /\ UNCHANGED <<pushed, calls, subs, chan, first, sent, missed>>

Subscribe(c) ==
  /\ Calls(c, "subscribe")
  /\ calls' = [calls EXCEPT ![c] = @ + 1]
  /\ subs' = subs \cup {c}
  /\ chan' = [chan EXCEPT ![c] = << >>]
  /\ missed' = [missed EXCEPT ![c] = {}]
  /\ UNCHANGED <<buf, size, pushed, first, sent>>

\* recent: the ring is copied and sent.
Recent(c) ==
  /\ Calls(c, "recent")
  /\ calls' = [calls EXCEPT ![c] = @ + 1]
  /\ first' = [first EXCEPT ![c] = IF buf = << >> THEN pushed + 1 ELSE Head(buf)]
  /\ sent' = [sent EXCEPT ![c] = ToSet(buf)]
  /\ UNCHANGED <<buf, size, pushed, subs, chan, missed>>

Send(c) ==
  /\ Streaming(c)
  /\ chan[c] # << >>
  /\ sent' = [sent EXCEPT ![c] = @ \cup {Head(chan[c])}]
  /\ chan' = [chan EXCEPT ![c] = Tail(@)]
  /\ UNCHANGED <<buf, size, pushed, calls, subs, first, missed>>

\* The client goes away; what its channel holds is garbage.
Leave(c) ==
  /\ Streaming(c)
  /\ calls' = [calls EXCEPT ![c] = 0]
  /\ subs' = subs \ {c}
  /\ chan' = [chan EXCEPT ![c] = << >>]
  /\ UNCHANGED <<buf, size, pushed, first, sent, missed>>

-----------------------------------------------------------------------------
Next ==
  \/ Push
  \/ \E n \in Sizes : Resize(n)
  \/ \E c \in Clients : Subscribe(c) \/ Recent(c) \/ Send(c) \/ Leave(c)

Spec == Init /\ [][Next]_vars

-----------------------------------------------------------------------------
\* Properties.

TypeOK ==
  /\ size \in Sizes
  /\ buf \in Seq(1 .. MaxEntries) /\ Len(buf) <= size
  /\ pushed \in 0 .. MaxEntries
  /\ calls \in [Clients -> 0 .. Len(Order)]
  /\ subs \subseteq Clients
  /\ \A c \in Clients : chan[c] \in Seq(1 .. MaxEntries) /\ Len(chan[c]) <= ChanCap
  /\ first \in [Clients -> 0 .. MaxEntries + 1]

\* From the oldest record of its snapshot on, a stream has sent, or has in its
\* channel, every record that its channel had room for, whatever is pushed
\* between its subscription and its snapshot (SyslogStreamHandler).
NoGap ==
  \A c \in Clients : Streaming(c) =>
    first[c] .. pushed \subseteq sent[c] \cup ToSet(chan[c]) \cup missed[c]
=============================================================================

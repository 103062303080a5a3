--------------------------- MODULE SettingsProofs ---------------------------
(***************************************************************************)
(* The log and the settings, for any number of clients, loggers, requests  *)
(* and restarts.  Settings runs the log's hot reload, and the reload runs  *)
(* the ring with its streams, so the proof goes through the three layers:  *)
(* the streams (module LogStream), the writers (LogReload), the settings.  *)
(***************************************************************************)
EXTENDS Settings, SequenceTheorems, TLAPS

-----------------------------------------------------------------------------
\* The streams.

\* The ring is the newest records without a gap.
RingInv ==
  /\ Len(buf) <= pushed
  /\ \A i \in DOMAIN buf : buf[i] = pushed - Len(buf) + i

\* A handler that has made its first call is a subscriber.
SubscribedInv == \A c \in Clients : calls[c] # 0 => c \in subs

\* The types TypeOK leaves open.
HistoryType ==
  /\ chan \in [Clients -> Seq(Nat)]
  /\ sent \in [Clients -> SUBSET Nat]
  /\ missed \in [Clients -> SUBSET Nat]

StreamInv == TypeOK /\ HistoryType /\ RingInv /\ SubscribedInv /\ NoGap

\* A handler subscribes before it copies the ring, and then streams.
LEMMA TwoCalls ==
  /\ Len(Order) = 2
  /\ \A c \in Clients : Streaming(c) <=> calls[c] = 2
  BY DEF Order, Streaming

\* The first of them is Subscribe, the second Recent.
LEMMA CallOrder ==
  ASSUME NEW c \in Clients, calls[c] \in 0 .. 2
  PROVE  /\ Calls(c, "subscribe") => calls[c] = 0
         /\ Calls(c, "recent") => calls[c] = 1
  <1>1. Len(Order) = 2 /\ Order[1] = "subscribe" /\ Order[2] = "recent"
    BY DEF Order
  <1>2. CASE calls[c] = 0
    <2>1. Order[calls[c] + 1] = "subscribe"
      BY <1>1, <1>2
    <2> QED
      BY <1>2, <2>1 DEF Calls
  <1>3. CASE calls[c] = 1
    <2>1. Order[calls[c] + 1] = "recent"
      BY <1>1, <1>3
    <2> QED
      BY <1>3, <2>1 DEF Calls
  <1>4. CASE calls[c] = 2
    BY <1>1, <1>4 DEF Calls
  <1> QED
    BY <1>2, <1>3, <1>4

\* Newest keeps the last records, in their order, and no more than n.
LEMMA NewestIsSuffix ==
  ASSUME NEW S, NEW s \in Seq(S), NEW n \in Nat
  PROVE  /\ Newest(s, n) \in Seq(S)
         /\ Len(Newest(s, n)) <= n
         /\ Len(Newest(s, n)) <= Len(s)
         /\ \A i \in 1 .. Len(Newest(s, n)) : Newest(s, n)[i] = s[Len(s) - Len(Newest(s, n)) + i]
  <1>1. CASE Len(s) <= n
    BY <1>1 DEF Newest
  <1>2. CASE ~(Len(s) <= n)
    <2>1. Newest(s, n) = SubSeq(s, Len(s) - n + 1, Len(s))
      BY <1>2 DEF Newest
    <2>2. Len(s) - n + 1 \in 1 .. Len(s) + 1 /\ Len(s) \in Nat
      BY <1>2
    <2>3. Len(Newest(s, n)) = n
      BY <2>1, <2>2
    <2> QED
      BY <1>2, <2>1, <2>2, <2>3
  <1> QED
    BY <1>1, <1>2

\* What is added to a channel is in it, with all that was there.
LEMMA AppendSet ==
  ASSUME NEW s \in Seq(Nat), NEW x \in Nat
  PROVE  /\ Append(s, x) \in Seq(Nat)
         /\ ToSet(s) \cup {x} \subseteq ToSet(Append(s, x))
  <1>1. Append(s, x) \in Seq(Nat) /\ Len(Append(s, x)) = Len(s) + 1
    OBVIOUS
  <1>2. \A i \in 1 .. Len(s) : Append(s, x)[i] = s[i]
    OBVIOUS
  <1>3. Append(s, x)[Len(s) + 1] = x
    OBVIOUS
  <1>4. DOMAIN s = 1 .. Len(s) /\ DOMAIN Append(s, x) = 1 .. Len(s) + 1 /\ Len(s) \in Nat
    BY <1>1
  <1> QED
    BY <1>1, <1>2, <1>3, <1>4 DEF ToSet

\* What leaves a channel is its first record, and nothing else.
LEMMA TailSet ==
  ASSUME NEW s \in Seq(Nat), s # << >>
  PROVE  /\ Head(s) \in Nat
         /\ Tail(s) \in Seq(Nat)
         /\ ToSet(s) \subseteq ToSet(Tail(s)) \cup {Head(s)}
  <1>1. /\ Len(s) \in Nat /\ Len(s) > 0
        /\ Head(s) = s[1] /\ Tail(s) \in Seq(Nat) /\ Len(Tail(s)) = Len(s) - 1
        /\ \A i \in 1 .. Len(s) - 1 : Tail(s)[i] = s[i + 1]
    OBVIOUS
  <1>2. ASSUME NEW k \in 1 .. Len(s), k # 1 PROVE s[k] \in ToSet(Tail(s))
    <2> DEFINE j == k - 1
    <2>1. j \in 1 .. Len(s) - 1 /\ j + 1 = k
      BY <1>1, <1>2
    <2>2. Tail(s)[j] = s[k]
      BY <1>1, <2>1
    <2>3. DOMAIN Tail(s) = 1 .. Len(s) - 1
      BY <1>1
    <2> QED
      BY <2>1, <2>2, <2>3 DEF ToSet
  <1>3. DOMAIN s = 1 .. Len(s)
    OBVIOUS
  <1>4. ASSUME NEW k \in 1 .. Len(s) PROVE s[k] \in ToSet(Tail(s)) \cup {Head(s)}
    BY <1>1, <1>2
  <1> QED
    BY <1>1, <1>3, <1>4 DEF ToSet

\* A channel has the type TypeOK gives it.
LEMMA ChannelType ==
  ASSUME TypeOK, HistoryType, NEW c \in Clients
  PROVE  chan[c] \in Seq(1 .. MaxEntries) /\ chan[c] \in Seq(Nat) /\ Len(chan[c]) <= ChanCap
  BY DEF TypeOK, HistoryType

\* Nothing is owed before the first record.
LEMMA StreamInit == Init => StreamInv
  <1> SUFFICES ASSUME Init PROVE StreamInv
    OBVIOUS
  <1>0. Sizes \subseteq Nat \ {0} /\ ChanCap \in Nat /\ MaxEntries \in Nat
    BY StreamAssumption
  <1>1. << >> \in Seq(1 .. MaxEntries) /\ << >> \in Seq(Nat) /\ Len(<< >>) = 0
    OBVIOUS
  <1>2. TypeOK /\ HistoryType
    BY <1>0, <1>1, TwoCalls DEF Init, TypeOK, HistoryType
  <1>3. RingInv /\ SubscribedInv /\ NoGap
    <2>1. RingInv /\ SubscribedInv
      BY <1>1 DEF Init, RingInv, SubscribedInv
    <2>2. ASSUME NEW c \in Clients PROVE ~Streaming(c)
      BY TwoCalls DEF Init, Streaming
    <2> QED
      BY <2>1, <2>2 DEF NoGap
  <1> QED
    BY <1>2, <1>3 DEF StreamInv

\* A record goes to the ring and to every subscriber, or is counted as missed.
LEMMA PushStream ==
  ASSUME StreamInv, Push
  PROVE  StreamInv'
  <1> DEFINE n == pushed + 1
             room(c) == Len(chan[c]) < ChanCap
             s == Append(buf, n)
  <1>0. /\ TypeOK /\ HistoryType /\ RingInv /\ SubscribedInv /\ NoGap
        /\ size \in Nat /\ pushed \in Nat /\ n \in 1 .. MaxEntries /\ MaxEntries \in Nat
        /\ pushed' = n /\ buf' = Newest(s, size) /\ UNCHANGED <<size, calls, subs, first, sent>>
    BY StreamAssumption DEF Push, StreamInv, TypeOK
  <1>1. /\ chan' = [c \in Clients |-> IF c \in subs /\ room(c) THEN Append(chan[c], n) ELSE chan[c]]
        /\ missed' = [c \in Clients |-> IF c \in subs /\ ~room(c) THEN missed[c] \cup {n} ELSE missed[c]]
    BY DEF Push
  <1>2. /\ s \in Seq(1 .. MaxEntries) /\ Len(s) = Len(buf) + 1 /\ Len(buf) \in Nat
        /\ \A i \in 1 .. Len(s) : s[i] = pushed' - Len(s) + i
    <2>1. buf \in Seq(1 .. MaxEntries) /\ DOMAIN buf = 1 .. Len(buf)
      BY <1>0 DEF TypeOK
    <2>2. s \in Seq(1 .. MaxEntries) /\ Len(s) = Len(buf) + 1 /\ Len(buf) \in Nat
          /\ \A i \in 1 .. Len(s) : s[i] = IF i <= Len(buf) THEN buf[i] ELSE n
      BY <1>0, <2>1
    <2> HIDE DEF s
    <2>3. ASSUME NEW i \in 1 .. Len(s) PROVE s[i] = pushed' - Len(s) + i
      <3>1. CASE i <= Len(buf)
        <4>1. i \in DOMAIN buf /\ s[i] = buf[i] /\ i \in Nat
          BY <2>1, <2>2, <3>1
        <4>2. buf[i] = pushed - Len(buf) + i
          BY <1>0, <4>1 DEF RingInv
        <4>3. pushed' = pushed + 1 /\ pushed \in Nat /\ Len(s) = Len(buf) + 1 /\ Len(buf) \in Nat
          BY <1>0, <2>2
        <4> QED
          BY <4>1, <4>2, <4>3
      <3>2. CASE ~(i <= Len(buf))
        BY <1>0, <2>2, <3>2
      <3> QED
        BY <3>1, <3>2
    <2> QED
      BY <2>2, <2>3
  <1> HIDE DEF s
  <1>3. /\ buf' \in Seq(1 .. MaxEntries) /\ Len(buf') <= size /\ Len(buf') <= Len(s) /\ Len(buf') \in Nat
        /\ \A i \in 1 .. Len(buf') : buf'[i] = s[Len(s) - Len(buf') + i]
    <2>1. /\ Newest(s, size) \in Seq(1 .. MaxEntries) /\ Len(Newest(s, size)) <= size
          /\ Len(Newest(s, size)) <= Len(s)
          /\ \A i \in 1 .. Len(Newest(s, size)) : Newest(s, size)[i] = s[Len(s) - Len(Newest(s, size)) + i]
      <3>1. s \in Seq(1 .. MaxEntries) /\ size \in Nat
        BY <1>0, <1>2
      <3> QED
        BY <3>1, NewestIsSuffix
    <2> QED
      BY <1>0, <2>1
  <1>4. RingInv'
    <2>1. Len(buf') <= pushed'
      BY <1>0, <1>2, <1>3 DEF RingInv
    <2>2. ASSUME NEW i \in 1 .. Len(buf') PROVE buf'[i] = pushed' - Len(buf') + i
      <3>1. Len(s) - Len(buf') + i \in 1 .. Len(s)
        BY <1>2, <1>3
      <3>2. buf'[i] = pushed' - Len(s) + (Len(s) - Len(buf') + i)
        BY <1>2, <1>3, <3>1
      <3> QED
        BY <1>0, <1>2, <1>3, <3>2
    <2>3. DOMAIN buf' = 1 .. Len(buf')
      BY <1>3
    <2> QED
      BY <2>1, <2>2, <2>3 DEF RingInv
  <1>5. ASSUME NEW c \in Clients
        PROVE  /\ chan'[c] \in Seq(1 .. MaxEntries) /\ chan'[c] \in Seq(Nat) /\ Len(chan'[c]) <= ChanCap
               /\ missed'[c] \in SUBSET Nat
               /\ ToSet(chan[c]) \subseteq ToSet(chan'[c]) /\ missed[c] \subseteq missed'[c]
               /\ c \in subs => n \in ToSet(chan'[c]) \cup missed'[c]
    <2>0. /\ chan[c] \in Seq(1 .. MaxEntries) /\ chan[c] \in Seq(Nat) /\ Len(chan[c]) <= ChanCap
          /\ missed[c] \in SUBSET Nat /\ ChanCap \in Nat
      BY <1>0, ChannelType, StreamAssumption DEF HistoryType
    <2>1. CASE c \in subs /\ room(c)
      <3>1. chan'[c] = Append(chan[c], n) /\ missed'[c] = missed[c]
        BY <1>1, <2>1
      <3>2. ToSet(chan[c]) \cup {n} \subseteq ToSet(Append(chan[c], n)) /\ Append(chan[c], n) \in Seq(Nat)
        BY <1>0, <2>0, AppendSet
      <3>3. Append(chan[c], n) \in Seq(1 .. MaxEntries) /\ Len(Append(chan[c], n)) = Len(chan[c]) + 1
        BY <1>0, <2>0
      <3>4. Len(chan[c]) < ChanCap /\ Len(chan[c]) \in Nat
        BY <2>0, <2>1
      <3> QED
        BY <2>0, <3>1, <3>2, <3>3, <3>4
    <2>2. CASE ~(c \in subs /\ room(c))
      <3>1. chan'[c] = chan[c]
        BY <1>1, <2>2
      <3>2. missed'[c] = IF c \in subs THEN missed[c] \cup {n} ELSE missed[c]
        BY <1>1, <2>2
      <3> QED
        BY <1>0, <2>0, <3>1, <3>2
    <2> QED
      BY <2>1, <2>2
  <1>6. HistoryType'
    <2>1. chan' \in [Clients -> Seq(Nat)] /\ missed' \in [Clients -> SUBSET Nat]
      BY <1>1, <1>5
    <2> QED
      BY <1>0, <2>1 DEF HistoryType
  <1>7. TypeOK' /\ SubscribedInv'
    BY <1>0, <1>3, <1>5 DEF TypeOK, SubscribedInv
  <1>8. NoGap'
    <2> SUFFICES ASSUME NEW c \in Clients, Streaming(c)', NEW x \in first'[c] .. pushed'
                 PROVE  x \in sent'[c] \cup ToSet(chan'[c]) \cup missed'[c]
      BY DEF NoGap
    <2>1. Streaming(c) /\ c \in subs
      BY <1>0, TwoCalls DEF Streaming, SubscribedInv
    <2>2. CASE x = n
      BY <1>5, <2>1, <2>2
    <2>3. CASE x # n
      <3>1. first[c] \in Nat
        BY <1>0 DEF TypeOK
      <3>2. x \in first[c] .. pushed
        BY <1>0, <2>3, <3>1
      <3>3. x \in sent[c] \cup ToSet(chan[c]) \cup missed[c]
        BY <1>0, <2>1, <3>2 DEF NoGap
      <3> QED
        BY <1>0, <1>5, <3>3
    <2> QED
      BY <2>2, <2>3
  <1> QED
    BY <1>4, <1>6, <1>7, <1>8 DEF StreamInv

\* Another size only shortens the ring.
LEMMA ResizeStream ==
  ASSUME StreamInv, NEW n \in Sizes, Resize(n)
  PROVE  StreamInv'
  <1>0. /\ TypeOK /\ HistoryType /\ RingInv /\ SubscribedInv /\ NoGap
        /\ n \in Nat /\ size' = n /\ buf' = Newest(buf, n)
        /\ UNCHANGED <<pushed, calls, subs, chan, first, sent, missed>>
    BY StreamAssumption DEF Resize, StreamInv
  <1>1. buf \in Seq(1 .. MaxEntries) /\ pushed \in Nat /\ DOMAIN buf = 1 .. Len(buf) /\ Len(buf) \in Nat
    BY <1>0, StreamAssumption DEF TypeOK
  <1>2. /\ buf' \in Seq(1 .. MaxEntries) /\ Len(buf') <= n /\ Len(buf') <= Len(buf) /\ Len(buf') \in Nat
        /\ \A i \in 1 .. Len(buf') : buf'[i] = buf[Len(buf) - Len(buf') + i]
    <2>1. /\ Newest(buf, n) \in Seq(1 .. MaxEntries) /\ Len(Newest(buf, n)) <= n
          /\ Len(Newest(buf, n)) <= Len(buf)
          /\ \A i \in 1 .. Len(Newest(buf, n)) : Newest(buf, n)[i] = buf[Len(buf) - Len(Newest(buf, n)) + i]
      BY <1>0, <1>1, NewestIsSuffix
    <2> QED
      BY <1>0, <2>1
  <1>3. RingInv'
    <2>1. Len(buf') <= pushed'
      BY <1>0, <1>1, <1>2 DEF RingInv
    <2>2. ASSUME NEW i \in 1 .. Len(buf') PROVE buf'[i] = pushed' - Len(buf') + i
      <3>1. Len(buf) - Len(buf') + i \in 1 .. Len(buf)
        BY <1>1, <1>2
      <3>2. buf'[i] = pushed - Len(buf) + (Len(buf) - Len(buf') + i)
        BY <1>0, <1>1, <1>2, <3>1 DEF RingInv
      <3> QED
        BY <1>0, <1>1, <1>2, <3>2
    <2>3. DOMAIN buf' = 1 .. Len(buf')
      BY <1>2
    <2> QED
      BY <2>1, <2>2, <2>3 DEF RingInv
  <1>4. TypeOK' /\ HistoryType' /\ SubscribedInv' /\ NoGap'
    BY <1>0, <1>2 DEF TypeOK, HistoryType, SubscribedInv, NoGap, Streaming
  <1> QED
    BY <1>3, <1>4 DEF StreamInv

\* The handler of a stream subscribes first, with an empty channel.
LEMMA SubscribeStream ==
  ASSUME StreamInv, NEW c \in Clients, Subscribe(c)
  PROVE  StreamInv'
  <1>0. /\ TypeOK /\ HistoryType /\ RingInv /\ SubscribedInv /\ NoGap
        /\ calls \in [Clients -> 0 .. 2] /\ subs \subseteq Clients
    BY TwoCalls DEF StreamInv, TypeOK
  <1>1. /\ calls[c] = 0 /\ calls' = [calls EXCEPT ![c] = 1]
        /\ subs' = subs \cup {c} /\ chan' = [chan EXCEPT ![c] = << >>]
        /\ missed' = [missed EXCEPT ![c] = {}]
        /\ UNCHANGED <<buf, size, pushed, first, sent>>
    <2>1. calls[c] \in 0 .. 2 /\ Calls(c, "subscribe")
      BY <1>0 DEF Subscribe
    <2>2. calls[c] = 0
      BY <2>1, CallOrder
    <2> QED
      BY <1>0, <2>2 DEF Subscribe
  <1>2. << >> \in Seq(1 .. MaxEntries) /\ << >> \in Seq(Nat) /\ Len(<< >>) <= ChanCap
    BY StreamAssumption
  <1>3. TypeOK' /\ HistoryType'
    <2>1. HistoryType'
      BY <1>0, <1>1, <1>2 DEF HistoryType
    <2>2. \A d \in Clients : chan'[d] \in Seq(1 .. MaxEntries) /\ Len(chan'[d]) <= ChanCap
      BY <1>0, <1>1, <1>2 DEF TypeOK, HistoryType
    <2>3. calls' \in [Clients -> 0 .. Len(Order)] /\ subs' \subseteq Clients
      BY <1>0, <1>1, TwoCalls
    <2> QED
      BY <1>0, <1>1, <2>1, <2>2, <2>3 DEF TypeOK
  <1>4. RingInv' /\ SubscribedInv'
    BY <1>0, <1>1 DEF RingInv, SubscribedInv
  <1>5. NoGap'
    BY <1>0, <1>1, TwoCalls DEF NoGap, HistoryType, Streaming
  <1> QED
    BY <1>3, <1>4, <1>5 DEF StreamInv

\* Then it copies the ring, which has no gap.
LEMMA RecentStream ==
  ASSUME StreamInv, NEW c \in Clients, Recent(c)
  PROVE  StreamInv'
  <1>0. /\ TypeOK /\ HistoryType /\ RingInv /\ SubscribedInv /\ NoGap
        /\ calls \in [Clients -> 0 .. 2] /\ pushed \in 0 .. MaxEntries /\ MaxEntries \in Nat
        /\ buf \in Seq(1 .. MaxEntries) /\ DOMAIN buf = 1 .. Len(buf) /\ Len(buf) \in Nat
        /\ first \in [Clients -> 0 .. MaxEntries + 1]
    BY TwoCalls, StreamAssumption DEF StreamInv, TypeOK
  <1> DEFINE f == IF buf = << >> THEN pushed + 1 ELSE Head(buf)
  <1>1. /\ calls[c] = 1 /\ calls' = [calls EXCEPT ![c] = 2]
        /\ first' = [first EXCEPT ![c] = f] /\ sent' = [sent EXCEPT ![c] = ToSet(buf)]
        /\ UNCHANGED <<buf, size, pushed, subs, chan, missed>>
    <2>1. calls[c] \in 0 .. 2 /\ Calls(c, "recent")
      BY <1>0 DEF Recent
    <2>2. calls[c] = 1
      BY <2>1, CallOrder
    <2> QED
      BY <1>0, <2>2 DEF Recent
  <1>2. f = pushed - Len(buf) + 1
    <2>1. CASE buf = << >>
      BY <1>0, <2>1
    <2>2. CASE buf # << >>
      <3>1. Len(buf) > 0 /\ Head(buf) = buf[1]
        BY <1>0, <2>2
      <3> QED
        BY <1>0, <2>2, <3>1 DEF RingInv
    <2> QED
      BY <2>1, <2>2
  <1>3. f \in 0 .. MaxEntries + 1
    BY <1>0, <1>2 DEF RingInv
  <1>4. ToSet(buf) \in SUBSET Nat
    BY <1>0 DEF ToSet
  <1>5. f .. pushed \subseteq ToSet(buf)
    <2> SUFFICES ASSUME NEW x \in f .. pushed PROVE x \in ToSet(buf)
      OBVIOUS
    <2>1. x - f + 1 \in 1 .. Len(buf)
      BY <1>0, <1>2, <1>3
    <2>2. buf[x - f + 1] = x
      BY <1>0, <1>2, <1>3, <2>1 DEF RingInv
    <2> QED
      BY <1>0, <2>1, <2>2 DEF ToSet
  <1> HIDE DEF f
  <1>6. TypeOK' /\ HistoryType' /\ RingInv' /\ SubscribedInv'
    <2>1. TypeOK' /\ HistoryType'
      BY <1>0, <1>1, <1>3, <1>4, TwoCalls DEF TypeOK, HistoryType
    <2>2. RingInv' /\ SubscribedInv'
      BY <1>0, <1>1 DEF RingInv, SubscribedInv
    <2> QED
      BY <2>1, <2>2
  <1>7. NoGap'
    <2> SUFFICES ASSUME NEW d \in Clients, Streaming(d)'
                 PROVE  first'[d] .. pushed' \subseteq sent'[d] \cup ToSet(chan'[d]) \cup missed'[d]
      BY DEF NoGap
    <2>1. CASE d = c
      BY <1>0, <1>1, <1>5, <2>1 DEF HistoryType
    <2>2. CASE d # c
      BY <1>0, <1>1, <2>2, TwoCalls DEF NoGap, HistoryType, Streaming
    <2> QED
      BY <2>1, <2>2
  <1> QED
    BY <1>6, <1>7 DEF StreamInv

\* What leaves a channel has been sent.
LEMMA SendStream ==
  ASSUME StreamInv, NEW c \in Clients, Send(c)
  PROVE  StreamInv'
  <1>0. /\ TypeOK /\ HistoryType /\ RingInv /\ SubscribedInv /\ NoGap
        /\ chan[c] \in Seq(1 .. MaxEntries) /\ chan[c] \in Seq(Nat) /\ Len(chan[c]) <= ChanCap
        /\ chan[c] # << >> /\ ChanCap \in Nat
    BY ChannelType, StreamAssumption DEF StreamInv, Send
  <1>1. /\ sent' = [sent EXCEPT ![c] = @ \cup {Head(chan[c])}]
        /\ chan' = [chan EXCEPT ![c] = Tail(@)]
        /\ UNCHANGED <<buf, size, pushed, calls, subs, first, missed>>
    BY DEF Send
  <1>2. /\ Head(chan[c]) \in Nat /\ Tail(chan[c]) \in Seq(Nat)
        /\ ToSet(chan[c]) \subseteq ToSet(Tail(chan[c])) \cup {Head(chan[c])}
    BY <1>0, TailSet
  <1>3. Tail(chan[c]) \in Seq(1 .. MaxEntries) /\ Len(Tail(chan[c])) <= ChanCap
    <2>1. Tail(chan[c]) \in Seq(1 .. MaxEntries)
      <3>1. chan[c] \in Seq(1 .. MaxEntries) /\ chan[c] # << >>
        BY <1>0
      <3> QED
        BY <3>1, HeadTailProperties
    <2>2. Len(Tail(chan[c])) = Len(chan[c]) - 1 /\ Len(chan[c]) \in Nat
      BY <1>0
    <2> QED
      BY <1>0, <2>1, <2>2
  <1>4. TypeOK' /\ HistoryType' /\ RingInv' /\ SubscribedInv'
    <2>1. TypeOK' /\ HistoryType'
      BY <1>0, <1>1, <1>2, <1>3 DEF TypeOK, HistoryType
    <2>2. RingInv' /\ SubscribedInv'
      BY <1>0, <1>1 DEF RingInv, SubscribedInv
    <2> QED
      BY <2>1, <2>2
  <1>5. NoGap'
    <2> SUFFICES ASSUME NEW d \in Clients, Streaming(d)'
                 PROVE  first'[d] .. pushed' \subseteq sent'[d] \cup ToSet(chan'[d]) \cup missed'[d]
      BY DEF NoGap
    <2>0. first[d] .. pushed \subseteq sent[d] \cup ToSet(chan[d]) \cup missed[d]
      BY <1>0, <1>1 DEF NoGap, Streaming
    <2>1. CASE d = c
      <3>1. sent'[c] = sent[c] \cup {Head(chan[c])} /\ chan'[c] = Tail(chan[c])
        BY <1>0, <1>1 DEF HistoryType
      <3> QED
        BY <1>1, <1>2, <2>0, <2>1, <3>1
    <2>2. CASE d # c
      BY <1>0, <1>1, <2>0, <2>2 DEF HistoryType
    <2> QED
      BY <2>1, <2>2
  <1> QED
    BY <1>4, <1>5 DEF StreamInv

\* A client that has gone is owed nothing.
LEMMA LeaveStream ==
  ASSUME StreamInv, NEW c \in Clients, Leave(c)
  PROVE  StreamInv'
  <1>0. /\ TypeOK /\ HistoryType /\ RingInv /\ SubscribedInv /\ NoGap
        /\ << >> \in Seq(1 .. MaxEntries) /\ << >> \in Seq(Nat) /\ Len(<< >>) <= ChanCap
    BY StreamAssumption DEF StreamInv
  <1>1. TypeOK' /\ HistoryType' /\ RingInv' /\ SubscribedInv'
    <2>1. TypeOK' /\ HistoryType'
      <3>1. HistoryType'
        BY <1>0 DEF Leave, HistoryType
      <3>2. \A d \in Clients : chan'[d] \in Seq(1 .. MaxEntries) /\ Len(chan'[d]) <= ChanCap
        BY <1>0 DEF Leave, TypeOK, HistoryType
      <3>3. calls' \in [Clients -> 0 .. Len(Order)] /\ subs' \subseteq Clients
        BY <1>0, TwoCalls DEF Leave, TypeOK
      <3> QED
        BY <1>0, <3>1, <3>2, <3>3 DEF Leave, TypeOK
    <2>2. RingInv' /\ SubscribedInv'
      BY <1>0 DEF Leave, TypeOK, RingInv, SubscribedInv
    <2> QED
      BY <2>1, <2>2
  <1>2. NoGap'
    BY <1>0, TwoCalls DEF Leave, TypeOK, HistoryType, NoGap, Streaming
  <1> QED
    BY <1>1, <1>2 DEF StreamInv

\* Every step of the streams keeps them whole.
LEMMA StreamStepInv == StreamInv /\ [Next]_vars => StreamInv'
  <1> SUFFICES ASSUME StreamInv, [Next]_vars PROVE StreamInv'
    OBVIOUS
  <1>1. CASE Next
    BY <1>1, PushStream, ResizeStream, SubscribeStream, RecentStream, SendStream, LeaveStream DEF Next
  <1>2. CASE UNCHANGED vars
    BY <1>2 DEF vars, StreamInv, TypeOK, HistoryType, RingInv, SubscribedInv, NoGap, Streaming
  <1> QED
    BY <1>1, <1>2

-----------------------------------------------------------------------------
\* The writers.

\* What a step of the settings may do to the log.
LogChange ==
  \/ \E by \in Requests \cup {Runtime}, o \in Options : InitBegin(by, o)
  \/ \E by \in Requests \cup {Runtime} : InitStep(by)
  \/ LogStep
  \/ UNCHANGED logVars

\* The calls of Init that hold initMu, and the records loggers have in hand.
InitCalls == [by : Requests \cup {Runtime, NoInit.by}, at : {"none", "swap", "cancel", "close"},
              old : 0 .. MaxInits]
Records == [handler : 0 .. MaxInits, at : {"none", "file", "ring"}]

WriterType ==
  /\ made \in Handlers /\ curr \in 1 .. made
  /\ options \in [Handlers -> Options]
  /\ open \in [Handlers -> BOOLEAN]
  /\ rotation \in [Handlers -> {"off", "waits", "fired"}]
  /\ cancelled \subseteq Handlers
  /\ init \in InitCalls
  /\ record \in [Loggers -> Records]
  /\ late \subseteq Handlers
  /\ cast \in Casts

\* Init replaces the set built before its own.
PhaseInv ==
  /\ init.at = "none" <=> init = NoInit
  /\ init = NoInit => curr = made
  /\ init # NoInit => init.old = made - 1 /\ init.old \in Handlers
  /\ init.at = "swap" => curr = init.old
  /\ init.at \in {"cancel", "close"} => curr = made

\* A set that is not built yet has no file, and none rotates it.
UnbuiltInv == \A h \in Handlers : h > made => ~open[h] /\ rotation[h] = "off"

\* One that Init has closed is rotated no more; its file is open only if a
\* logger that had taken it before the swap has written to it.
ShutInv ==
  /\ late \subseteq Shut
  /\ \A h \in Shut : rotation[h] = "off" /\ (open[h] => h \in late)

\* A logger writes to a set that is built.
RecordInv == \A l \in Loggers : record[l].at = "file" => record[l].handler \in 1 .. made

WriterInv == WriterType /\ PhaseInv /\ UnbuiltInv /\ ShutInv /\ RecordInv

\* The first set is the current one, and closed by nobody.
LEMMA WriterInit ==
  ASSUME NEW o \in Options, ReloadInit(o)
  PROVE  WriterInv
  <1>0. /\ MaxInits \in Nat /\ 1 \in Handlers /\ 1 \in 1 .. MaxInits /\ 0 \in 0 .. MaxInits
        /\ made = 1 /\ curr = 1 /\ init = NoInit /\ late = {} /\ cancelled = {}
        /\ open = [h \in Handlers |-> FALSE]
        /\ rotation = [h \in Handlers |-> IF h = 1 /\ o.file /\ o.daily THEN "waits" ELSE "off"]
        /\ record = [l \in Loggers |-> NoRecord]
        /\ options = [h \in Handlers |-> o] /\ cast \in Casts
    BY ReloadAssumption DEF ReloadInit, Handlers
  <1>1. NoInit \in InitCalls /\ NoRecord \in Records /\ NoRecord.at = "none"
    BY <1>0 DEF NoInit, InitCalls, NoRecord, Records, NoHandler
  <1>2. WriterType
    BY <1>0, <1>1 DEF WriterType
  <1>3. PhaseInv
    BY <1>0 DEF PhaseInv, NoInit
  <1>4. UnbuiltInv /\ RecordInv
    BY <1>0, <1>1 DEF UnbuiltInv, RecordInv, Handlers
  <1>5. ShutInv
    BY <1>0 DEF ShutInv, Shut
  <1> QED
    BY <1>2, <1>3, <1>4, <1>5 DEF WriterInv

\* Init builds a set beside the current one.
LEMMA BeginWriter ==
  ASSUME WriterInv, NEW by \in Requests \cup {Runtime}, NEW o \in Options, InitBegin(by, o)
  PROVE  WriterInv'
  <1>0. /\ WriterType /\ PhaseInv /\ UnbuiltInv /\ ShutInv /\ RecordInv
        /\ MaxInits \in Nat /\ made \in 1 .. MaxInits /\ Handlers = 1 .. MaxInits /\ made < MaxInits
        /\ init = NoInit /\ curr = made
    BY ReloadAssumption DEF WriterInv, WriterType, PhaseInv, InitBegin, Handlers
  <1>1. /\ made' = made + 1 /\ options' = [options EXCEPT ![made + 1] = o]
        /\ rotation' = [rotation EXCEPT ![made + 1] = IF o.file /\ o.daily THEN "waits" ELSE "off"]
        /\ init' = [by |-> by, at |-> "swap", old |-> curr]
        /\ UNCHANGED <<curr, open, cancelled, record, late, cast>>
    BY DEF InitBegin
  <1>2. WriterType'
    BY <1>0, <1>1 DEF WriterType, InitCalls
  <1>3. PhaseInv'
    BY <1>0, <1>1 DEF PhaseInv, NoInit
  <1>4. UnbuiltInv' /\ RecordInv'
    BY <1>0, <1>1 DEF WriterType, UnbuiltInv, RecordInv, Records
  <1>5. Shut' = Shut /\ Shut \subseteq Handlers \ {made + 1}
    BY <1>0, <1>1 DEF Shut, NoInit, NoHandler
  <1>6. ShutInv'
    BY <1>0, <1>1, <1>5 DEF WriterType, ShutInv
  <1> QED
    BY <1>2, <1>3, <1>4, <1>6 DEF WriterInv

\* It swaps the sets, ends the rotation of the old one, waits for it and closes it.
LEMMA InitWriter ==
  ASSUME WriterInv, NEW by \in Requests \cup {Runtime}, InitStep(by)
  PROVE  WriterInv'
  <1>0. /\ WriterType /\ PhaseInv /\ UnbuiltInv /\ ShutInv /\ RecordInv
        /\ MaxInits \in Nat /\ made \in 1 .. MaxInits /\ Handlers = 1 .. MaxInits
        /\ init \in InitCalls
    BY ReloadAssumption DEF WriterInv, WriterType, Handlers
  <1>1. /\ init # NoInit /\ init.at \in {"swap", "cancel", "close"}
        /\ init.old = made - 1 /\ init.old \in Handlers
        /\ init = [by |-> init.by, at |-> init.at, old |-> init.old]
    BY <1>0 DEF InitStep, InitSwap, InitCancel, InitClose, InitAt, PhaseInv, NoInit, InitCalls
  <1>2. UNCHANGED <<made, options, rotation, record, late, cast>>
    BY DEF InitStep, InitSwap, InitCancel, InitClose, handlerVars, writerVars
  <1>3. CASE InitSwap(by)
    <2>1. /\ init.at = "swap" /\ curr = init.old /\ curr' = made /\ UNCHANGED <<open, cancelled>>
          /\ init' = [by |-> init.by, at |-> "cancel", old |-> init.old]
      BY <1>0, <1>1, <1>3 DEF InitSwap, InitAt, InitNext, PhaseInv, writerVars
    <2>2. WriterType' /\ PhaseInv'
      BY <1>0, <1>1, <1>2, <2>1 DEF WriterType, PhaseInv, InitCalls, NoInit
    <2>3. Shut' = Shut
      BY <1>1, <1>2, <2>1 DEF Shut
    <2>4. UnbuiltInv' /\ ShutInv' /\ RecordInv'
      BY <1>0, <1>2, <2>1, <2>3 DEF UnbuiltInv, ShutInv, RecordInv
    <2> QED
      BY <2>2, <2>4 DEF WriterInv
  <1>4. CASE InitCancel(by)
    <2>1. /\ init.at = "cancel" /\ curr = made /\ cancelled' = cancelled \cup {init.old}
          /\ UNCHANGED <<curr, open>>
          /\ init' = [by |-> init.by, at |-> "close", old |-> init.old]
      BY <1>0, <1>1, <1>4 DEF InitCancel, InitAt, InitNext, PhaseInv, handlerVars
    <2>2. WriterType' /\ PhaseInv'
      BY <1>0, <1>1, <1>2, <2>1 DEF WriterType, PhaseInv, InitCalls, NoInit
    <2>3. Shut' = Shut
      BY <1>1, <1>2, <2>1 DEF Shut
    <2>4. UnbuiltInv' /\ ShutInv' /\ RecordInv'
      BY <1>0, <1>2, <2>1, <2>3 DEF UnbuiltInv, ShutInv, RecordInv
    <2> QED
      BY <2>2, <2>4 DEF WriterInv
  <1>5. CASE InitClose(by)
    <2>1. /\ curr = made /\ rotation[init.old] = "off" /\ open' = [open EXCEPT ![init.old] = FALSE]
          /\ init' = NoInit /\ UNCHANGED <<curr, cancelled>>
      BY <1>0, <1>1, <1>5 DEF InitClose, InitAt, PhaseInv, handlerVars
    <2>2. NoInit \in InitCalls /\ NoInit.at = "none" /\ NoInit.old = 0
      BY <1>0 DEF NoInit, InitCalls, NoHandler
    <2>3. WriterType' /\ PhaseInv'
      BY <1>0, <1>2, <2>1, <2>2 DEF WriterType, PhaseInv
    <2>4. Shut' = Shut \cup {init.old}
      BY <1>0, <1>1, <1>2, <2>1, <2>2 DEF Shut
    <2>5. UnbuiltInv' /\ RecordInv'
      BY <1>0, <1>2, <2>1 DEF WriterType, UnbuiltInv, RecordInv
    <2>6. ShutInv'
      <3>1. late' \subseteq Shut'
        BY <1>0, <1>2, <2>4 DEF ShutInv
      <3>2. ASSUME NEW h \in Shut' PROVE rotation'[h] = "off" /\ (open'[h] => h \in late')
        BY <1>0, <1>1, <1>2, <2>1, <2>4 DEF WriterType, ShutInv, Shut
      <3> QED
        BY <3>1, <3>2 DEF ShutInv
    <2> QED
      BY <2>3, <2>5, <2>6 DEF WriterInv
  <1> QED
    BY <1>3, <1>4, <1>5 DEF InitStep

\* The rotation opens the file of a set that Init has not closed.
LEMMA RotationWriter ==
  ASSUME WriterInv, NEW h \in Handlers, RotateFire(h) \/ Rotate(h) \/ RotateEnd(h)
  PROVE  WriterInv'
  <1>0. /\ WriterType /\ PhaseInv /\ UnbuiltInv /\ ShutInv /\ RecordInv
        /\ rotation[h] # "off" /\ h \notin Shut /\ ~(h > made)
    BY DEF WriterInv, RotateFire, Rotate, RotateEnd, UnbuiltInv, ShutInv
  <1>1. /\ UNCHANGED <<made, options, curr, cancelled, init, record, late, cast>>
        /\ open' = open \/ open' = [open EXCEPT ![h] = TRUE]
        /\ \E to \in {"off", "waits", "fired"} : rotation' = [rotation EXCEPT ![h] = to]
    BY DEF RotateFire, Rotate, RotateEnd, handlerVars
  <1>2. Shut' = Shut /\ Shut \subseteq Nat
    BY <1>1 DEF Shut
  <1>3. WriterType'
    BY <1>0, <1>1 DEF WriterType
  <1>4. PhaseInv' /\ RecordInv'
    BY <1>0, <1>1 DEF PhaseInv, RecordInv
  <1>5. \A k \in Handlers : k # h => open'[k] = open[k] /\ rotation'[k] = rotation[k]
    BY <1>0, <1>1 DEF WriterType
  <1>6. Shut \subseteq Handlers
    BY <1>0, ReloadAssumption DEF WriterType, Shut, Handlers
  <1>7. UnbuiltInv' /\ ShutInv'
    BY <1>0, <1>1, <1>2, <1>5, <1>6 DEF UnbuiltInv, ShutInv
  <1> QED
    BY <1>3, <1>4, <1>7 DEF WriterInv

\* A logger that writes to a closed set has reopened its file, and is noted.
LEMMA LoggerWriter ==
  ASSUME WriterInv, NEW l \in Loggers, Take(l) \/ WriteFile(l) \/ WriteRing(l)
  PROVE  WriterInv'
  <1>0. /\ WriterType /\ PhaseInv /\ UnbuiltInv /\ ShutInv /\ RecordInv
        /\ MaxInits \in Nat /\ made \in 1 .. MaxInits /\ Handlers = 1 .. MaxInits
        /\ curr \in 1 .. made /\ curr \in 0 .. MaxInits
        /\ record \in [Loggers -> Records]
    BY ReloadAssumption DEF WriterInv, WriterType, Handlers
  <1>1. /\ UNCHANGED <<made, options, curr, rotation, cancelled, init, cast>>
        /\ PhaseInv' /\ Shut' = Shut
    BY <1>0 DEF Take, WriteFile, WriteRing, handlerVars, writerVars, PhaseInv, Shut
  <1>2. CASE Take(l)
    <2>1. UNCHANGED <<open, late>> /\ record' = [record EXCEPT ![l] = [handler |-> curr, at |-> "file"]]
      BY <1>2 DEF Take, writerVars
    <2>2. [handler |-> curr, at |-> "file"] \in Records
      BY <1>0 DEF Records
    <2>3. WriterType'
      BY <1>0, <1>1, <2>1, <2>2 DEF WriterType
    <2>4. RecordInv'
      BY <1>0, <1>1, <2>1 DEF RecordInv
    <2>5. UnbuiltInv' /\ ShutInv'
      BY <1>0, <1>1, <2>1 DEF UnbuiltInv, ShutInv
    <2> QED
      BY <1>1, <2>3, <2>4, <2>5 DEF WriterInv
  <1>3. CASE WriteFile(l)
    <2> DEFINE h == record[l].handler
    <2>1. /\ record[l].at = "file" /\ h \in 1 .. made /\ h \in Handlers
          /\ record' = [record EXCEPT ![l].at = "ring"]
      BY <1>0, <1>3 DEF WriteFile, RecordInv
    <2>2. \/ UNCHANGED <<open, late>>
          \/ /\ open' = [open EXCEPT ![h] = TRUE]
             /\ late' = IF h \in Shut THEN late \cup {h} ELSE late
      BY <1>3 DEF WriteFile
    <2>3. record' \in [Loggers -> Records] /\ RecordInv'
      <3>1. record[l] \in Records
        BY <1>0
      <3>2. [record[l] EXCEPT !.at = "ring"] \in Records /\ [record[l] EXCEPT !.at = "ring"].at = "ring"
        BY <3>1 DEF Records
      <3>3. record' = [record EXCEPT ![l] = [record[l] EXCEPT !.at = "ring"]]
        BY <1>0, <2>1
      <3> QED
        BY <1>0, <1>1, <3>2, <3>3 DEF RecordInv
    <2> HIDE DEF h
    <2>4. WriterType'
      BY <1>0, <1>1, <2>1, <2>2, <2>3 DEF WriterType
    <2>5. UnbuiltInv'
      <3>1. \A g \in Handlers : g > made => g # h /\ ~open[g] /\ rotation[g] = "off"
        BY <1>0, <2>1 DEF UnbuiltInv
      <3>2. \A g \in Handlers : g # h => open'[g] = open[g]
        BY <1>0, <2>2 DEF WriterType
      <3> QED
        BY <1>1, <3>1, <3>2 DEF UnbuiltInv
    <2>6. ShutInv'
      BY <1>0, <1>1, <2>1, <2>2 DEF WriterType, ShutInv, Shut
    <2> QED
      BY <1>1, <2>3, <2>4, <2>5, <2>6 DEF WriterInv
  <1>4. CASE WriteRing(l)
    <2>1. UNCHANGED <<open, late>> /\ record' = [record EXCEPT ![l] = NoRecord]
      BY <1>4 DEF WriteRing, writerVars
    <2>2. NoRecord \in Records /\ NoRecord.at = "none"
      BY <1>0 DEF Records, NoRecord, NoHandler
    <2>3. WriterType'
      BY <1>0, <1>1, <2>1, <2>2 DEF WriterType
    <2>4. RecordInv'
      BY <1>0, <1>1, <2>1, <2>2 DEF RecordInv
    <2>5. UnbuiltInv' /\ ShutInv'
      BY <1>0, <1>1, <2>1 DEF UnbuiltInv, ShutInv
    <2> QED
      BY <1>1, <2>3, <2>4, <2>5 DEF WriterInv
  <1> QED
    BY <1>2, <1>3, <1>4

\* Every step of the log keeps the writers apart.
LEMMA WriterStepInv ==
  ASSUME WriterInv, LogChange
  PROVE  WriterInv'
  <1>1. CASE StreamStep \/ UNCHANGED logVars
    <2>1. UNCHANGED <<handlerVars, writerVars, init, record, late, cast>>
      BY <1>1 DEF StreamStep, logVars, reloadVars
    <2> QED
      BY <2>1 DEF handlerVars, writerVars, WriterInv, WriterType, PhaseInv, UnbuiltInv, ShutInv, Shut, RecordInv
  <1>2. CASE LogStep /\ ~StreamStep
    BY <1>2, RotationWriter, LoggerWriter DEF LogStep
  <1> QED
    BY <1>1, <1>2, BeginWriter, InitWriter DEF LogChange

\* When no Init is under way, the current set is the last one and all the others are closed.
LEMMA WritersClosed == WriterInv => OldWritersClosed
  <1> SUFFICES ASSUME WriterInv, init = NoInit, NEW h \in Handlers, open[h]
               PROVE  h = curr \/ h \in late
    BY DEF OldWritersClosed
  <1>1. /\ curr = made /\ made \in 1 .. MaxInits /\ MaxInits \in Nat /\ h \in 1 .. MaxInits
        /\ ~(h > made) /\ init.old = 0
    BY ReloadAssumption DEF WriterInv, WriterType, PhaseInv, UnbuiltInv, Handlers, NoInit, NoHandler
  <1>2. h = made \/ h \in Shut
    BY <1>1 DEF Shut
  <1> QED
    BY <1>1, <1>2 DEF WriterInv, ShutInv

\* The ring and its streams take a step of their own, or none.
LEMMA StreamOfLog ==
  ASSUME LogChange
  PROVE  [Next]_vars
  <1>1. CASE \E by \in Requests \cup {Runtime}, o \in Options : InitBegin(by, o)
    <2>1. PICK by \in Requests \cup {Runtime}, o \in Options : InitBegin(by, o)
      BY <1>1
    <2>2. o.size \in Sizes
      BY ReloadAssumption
    <2> QED
      BY <2>1, <2>2 DEF InitBegin, Next
  <1>2. CASE \E by \in Requests \cup {Runtime} : InitStep(by)
    BY <1>2 DEF InitStep, InitSwap, InitCancel, InitClose, ringVars, streamVars, vars
  <1>3. CASE LogStep
    <2>1. CASE StreamStep
      BY <2>1 DEF StreamStep, Next
    <2>2. CASE \E h \in Handlers : RotateFire(h) \/ Rotate(h) \/ RotateEnd(h)
      BY <2>2 DEF RotateFire, Rotate, RotateEnd, ringVars, streamVars, vars
    <2>3. CASE \E l \in Loggers : Take(l) \/ WriteFile(l) \/ WriteRing(l)
      BY <2>3 DEF Take, WriteFile, WriteRing, Next, ringVars, streamVars, vars
    <2> QED
      BY <1>3, <2>1, <2>2, <2>3 DEF LogStep
  <1>4. CASE UNCHANGED logVars
    BY <1>4 DEF logVars, ringVars, streamVars, vars
  <1> QED
    BY <1>1, <1>2, <1>3, <1>4 DEF LogChange

-----------------------------------------------------------------------------
\* The settings.

SettingsType ==
  /\ row \in SettingsRows
  /\ token \in Tokens \cup {NoToken}
  /\ place \in [Requests -> {"free", "open", "store", "apply", "applying", "answer", "done"}]
  /\ page \in [Requests -> SettingsRows \cup {NoRow}]
  /\ before \in [Requests -> SettingsRows \cup {NoRow}]
  /\ runtime \in {"up", "settings", "log", "token", "down"}
  /\ read \in SettingsRows
  /\ used \in Tokens \cup {NoToken}
  /\ restarts \in 0 .. MaxRestarts
  /\ warned \in BOOLEAN
  /\ excused \in BOOLEAN
  /\ overlapped \in BOOLEAN

\* A request holds a page from when it is opened until it is answered.
PageInv ==
  \A r \in Requests : place[r] \in {"open", "store", "apply", "applying"} => page[r] \in SettingsRows

\* A call of Init belongs to the request, or to the start, that waits for it.
OwnerInv ==
  init # NoInit =>
    \/ init.by \in Requests /\ place[init.by] = "applying"
    \/ init.by = Runtime /\ runtime = "token"

\* What overlapped says: at most one request, or a restart, is under way.
AloneInv ==
  ~overlapped =>
    /\ \A r, q \in Requests : Active(r) /\ Active(q) => r = q
    /\ Starting => \A r \in Requests : ~Active(r)

\* The set of handlers built last has the settings that are stored.
LogFollows == options[made] = row.log

\* Until requests overlap, it has, but between storing a page and applying it.
FollowInv ==
  ~overlapped =>
    /\ (\A r \in Requests : place[r] # "apply") => LogFollows
    /\ \A r \in Requests : place[r] = "apply" => page[r] = row
    /\ runtime \in {"log", "token"} => read = row

\* A request is going to answer with a warning, having changed what only a start
\* reads; or a provisioning is, if NATS is used.
WillWarn == \E r \in Requests : place[r] \in {"apply", "applying"} /\ Differs(r)

WillAnswer == \E r \in Requests : place[r] = "answer"

\* The runtime uses what row s says, or somebody is going to say that it does not.
Told(s) ==
  /\ s.nats # read.nats => WillWarn
  /\ read.nats /\ s.gw_id # read.gw_id => WillWarn \/ WillAnswer

TokenTold == runtime = "up" /\ read.nats /\ token # used => WillWarn \/ WillAnswer

\* That is so of what is stored and of all that a request compares with it.
AnnounceInv ==
  ~excused /\ ~warned /\ runtime \in {"log", "token", "up"} =>
    /\ Told(row) /\ TokenTold
    /\ \A r \in Requests : place[r] \in {"store", "apply", "applying"} =>
         before[r] \in SettingsRows /\ Told(before[r])

SettingsInv ==
  /\ StreamInv /\ WriterInv
  /\ SettingsType /\ PageInv /\ OwnerInv /\ AloneInv /\ FollowInv /\ AnnounceInv

\* What is stored, what a page sends and what start has read are settings.
LEMMA RowTypes ==
  /\ \A s \in SettingsRows : s.gw_id \in Names /\ s.nats \in BOOLEAN /\ s.log \in Options
  /\ \A s \in SettingsRows : Changes(s) \subseteq SettingsRows
  /\ \A s \in SettingsRows, n \in Names :
       /\ [s EXCEPT !.gw_id = n] \in SettingsRows
       /\ [s EXCEPT !.gw_id = n].log = s.log /\ [s EXCEPT !.gw_id = n].nats = s.nats
  BY DEF SettingsRows, Changes

\* A row that is not loaded is none.
LEMMA NoRowIsNone == NoRow \notin SettingsRows
  <1>1. \A s \in SettingsRows : "gw_id" \in DOMAIN s
    BY DEF SettingsRows
  <1>2. DOMAIN NoRow = {}
    BY DEF NoRow
  <1> QED
    BY <1>1, <1>2

\* A gateway that has just started uses what is stored.
LEMMA SettingsInitInv == SettingsInit => SettingsInv
  <1> SUFFICES ASSUME SettingsInit PROVE SettingsInv
    OBVIOUS
  <1>0. row.log \in Options
    BY RowTypes DEF SettingsInit
  <1>1. StreamInv
    BY StreamInit DEF SettingsInit, ReloadInit
  <1>2. WriterInv
    BY <1>0, WriterInit DEF SettingsInit
  <1>3. SettingsType
    <2>1. /\ row \in SettingsRows /\ read \in SettingsRows
          /\ token \in Tokens \cup {NoToken} /\ used \in Tokens \cup {NoToken}
          /\ runtime = "up" /\ warned = FALSE /\ excused = FALSE /\ overlapped = FALSE
      BY DEF SettingsInit
    <2>2. /\ place \in [Requests -> {"free", "open", "store", "apply", "applying", "answer", "done"}]
          /\ page \in [Requests -> SettingsRows \cup {NoRow}]
          /\ before \in [Requests -> SettingsRows \cup {NoRow}]
      BY DEF SettingsInit
    <2>3. restarts \in 0 .. MaxRestarts
      BY SettingsAssumption DEF SettingsInit
    <2> QED
      BY <2>1, <2>2, <2>3 DEF SettingsType
  <1>4. PageInv /\ OwnerInv /\ AloneInv
    BY DEF SettingsInit, ReloadInit, PageInv, OwnerInv, AloneInv, Active
  <1>5. LogFollows
    BY ReloadAssumption DEF SettingsInit, ReloadInit, LogFollows, Handlers
  <1>6. FollowInv
    BY <1>5 DEF SettingsInit, FollowInv
  <1>7. AnnounceInv
    BY DEF SettingsInit, AnnounceInv, Told, TokenTold
  <1> QED
    BY <1>1, <1>2, <1>3, <1>4, <1>6, <1>7 DEF SettingsInv

\* What a step of the log leaves alone, and who may own its Init.
LEMMA LogFrame ==
  ASSUME WriterInv, LogStep \/ (\E by \in Requests \cup {Runtime} : InitStep(by))
  PROVE  /\ UNCHANGED <<made, options>>
         /\ init' = NoInit \/ (init # NoInit /\ init'.by = init.by)
  <1>1. CASE LogStep
    <2>1. UNCHANGED <<made, options, init>>
      BY <1>1 DEF LogStep, StreamStep, RotateFire, Rotate, RotateEnd, Take, WriteFile, WriteRing,
         reloadVars, handlerVars
    <2> QED
      BY <2>1
  <1>2. CASE \E by \in Requests \cup {Runtime} : InitStep(by)
    <2>0. PICK by \in Requests \cup {Runtime} : InitStep(by)
      BY <1>2
    <2>1. UNCHANGED <<made, options>> /\ init.at # "none" /\ init # NoInit
      BY <2>0 DEF InitStep, InitSwap, InitCancel, InitClose, InitAt, handlerVars, NoInit
    <2>2. init' = NoInit \/ \E at \in {"cancel", "close"} : init' = [init EXCEPT !.at = at]
      BY <2>0 DEF InitStep, InitSwap, InitCancel, InitClose, InitNext
    <2>3. init \in InitCalls
      BY DEF WriterInv, WriterType
    <2>4. init' = NoInit \/ init'.by = init.by
      BY <2>2, <2>3 DEF InitCalls
    <2> QED
      BY <2>1, <2>4
  <1> QED
    BY <1>1, <1>2

\* A step of a restart.
StartStep == Restart \/ EnsureSettings \/ StartLog \/ LoadProvisioning \/ StartFail

\* Every step is one of a request, of the start or of the log, or none at all.
LEMMA StepCases ==
  ASSUME SettingsInv, [SettingsNext]_allVars
  PROVE  \/ \E r \in Requests : RequestStep(r)
         \/ StartStep
         \/ UNCHANGED settingsVars /\ UNCHANGED <<made, options>>
              /\ (init' = NoInit \/ (init # NoInit /\ init'.by = init.by))
  <1>1. CASE UNCHANGED allVars
    BY <1>1 DEF allVars, logVars, reloadVars, handlerVars
  <1>2. CASE UNCHANGED settingsVars /\ (LogStep \/ \E by \in Requests \cup {Runtime} : InitStep(by))
    BY <1>2, LogFrame DEF SettingsInv
  <1> QED
    BY <1>1, <1>2 DEF SettingsNext, StartStep

\* A step of the settings does to the log what LogChange says.
LEMMA LogOfSettings ==
  ASSUME SettingsInv, [SettingsNext]_allVars
  PROVE  LogChange
  <1>1. CASE UNCHANGED allVars
    BY <1>1 DEF allVars, LogChange
  <1>2. CASE \E r \in Requests \cap cast : RequestStep(r)
    <2>1. PICK r \in Requests : RequestStep(r)
      BY <1>2
    <2>2. CASE ApplyLog(r)
      <3>1. page[r].log \in Options
        BY <2>2, RowTypes DEF ApplyLog, At, SettingsInv, PageInv
      <3> QED
        BY <2>2, <3>1 DEF ApplyLog, LogChange
    <2>3. CASE ~ApplyLog(r)
      BY <2>1, <2>3 DEF RequestStep, OpenPage, LoadBefore, StoreSettings, SaveRefused, AnswerSaved,
         Provision, AnswerProvisioned, LogChange
    <2> QED
      BY <2>2, <2>3
  <1>3. CASE Restart \/ EnsureSettings \/ StartLog \/ LoadProvisioning \/ StartFail
    <2>1. read.log \in Options
      BY RowTypes DEF SettingsInv, SettingsType
    <2> QED
      BY <1>3, <2>1 DEF Restart, EnsureSettings, StartLog, LoadProvisioning, StartFail, LogChange
  <1>4. CASE (\E by \in Requests \cup {Runtime} : InitStep(by)) \/ LogStep
    BY <1>4 DEF LogChange
  <1> QED
    BY <1>1, <1>2, <1>3, <1>4 DEF SettingsNext

-----------------------------------------------------------------------------
\* Types, pages and who owns a call of Init.

\* What a request reads and stores are settings, and it keeps its page.
LEMMA RequestType ==
  ASSUME SettingsInv, NEW r \in Requests, RequestStep(r)
  PROVE  SettingsType' /\ PageInv' /\ OwnerInv'
  <1>0. SettingsType /\ PageInv /\ OwnerInv
    BY DEF SettingsInv
  <1>1. CASE OpenPage(r)
    BY <1>0, <1>1 DEF OpenPage, At, startVars, historyVars, logVars, reloadVars, SettingsType, PageInv, OwnerInv
  <1>2. CASE LoadBefore(r)
    <2>1. PICK s \in SettingsRows : page' = [page EXCEPT ![r] = s]
      BY <1>0, <1>2, RowTypes DEF LoadBefore, At, PageInv
    <2>2. /\ place[r] = "open" /\ place' = [place EXCEPT ![r] = "store"]
          /\ before' \in [Requests -> SettingsRows \cup {NoRow}]
          /\ excused' \in BOOLEAN /\ overlapped' \in BOOLEAN
          /\ UNCHANGED <<row, token, runtime, read, used, restarts, warned, init>>
      BY <1>0, <1>2 DEF LoadBefore, At, startVars, logVars, reloadVars, SettingsType
    <2> QED
      BY <1>0, <2>1, <2>2 DEF SettingsType, PageInv, OwnerInv
  <1>3. CASE StoreSettings(r)
    <2>1. page[r] \in SettingsRows
      BY <1>0, <1>3 DEF StoreSettings, At, PageInv
    <2> QED
      BY <1>0, <1>3, <2>1 DEF StoreSettings, At, startVars, historyVars, logVars, reloadVars, SettingsType,
         PageInv, OwnerInv
  <1>4. CASE SaveRefused(r)
    BY <1>0, <1>4 DEF SaveRefused, Forget, At, startVars, historyVars, logVars, reloadVars, SettingsType,
       PageInv, OwnerInv
  <1>5. CASE ApplyLog(r)
    BY <1>0, <1>5 DEF ApplyLog, InitBegin, At, startVars, historyVars, SettingsType, PageInv, OwnerInv
  <1>6. CASE AnswerSaved(r)
    <2>1. warned' \in BOOLEAN
      BY <1>0, <1>6 DEF AnswerSaved, SettingsType, Differs
    <2> QED
      BY <1>0, <1>6, <2>1 DEF AnswerSaved, Forget, At, startVars, logVars, reloadVars, SettingsType,
         PageInv, OwnerInv
  <1>7. CASE Provision(r)
    <2>1. PICK n \in Names, t \in Tokens : row' = [row EXCEPT !.gw_id = n] /\ token' = t
      BY <1>7 DEF Provision
    <2>2. row' \in SettingsRows /\ overlapped' \in BOOLEAN
      BY <1>0, <1>7, <2>1, RowTypes DEF Provision, SettingsType
    <2> QED
      BY <1>0, <1>7, <2>1, <2>2 DEF Provision, At, startVars, logVars, reloadVars, SettingsType, PageInv, OwnerInv
  <1>8. CASE AnswerProvisioned(r)
    <2>1. warned' \in BOOLEAN /\ excused' \in BOOLEAN
      BY <1>0, <1>8, RowTypes DEF AnswerProvisioned, SettingsType
    <2> QED
      BY <1>0, <1>8, <2>1 DEF AnswerProvisioned, At, startVars, logVars, reloadVars, SettingsType, PageInv, OwnerInv
  <1> QED
    BY <1>1, <1>2, <1>3, <1>4, <1>5, <1>6, <1>7, <1>8 DEF RequestStep

\* The start reads what is stored, and leaves the requests alone.
LEMMA StartType ==
  ASSUME SettingsInv, StartStep
  PROVE  SettingsType' /\ PageInv' /\ OwnerInv'
  <1>0. /\ SettingsType /\ PageInv /\ OwnerInv
        /\ UNCHANGED <<row, token, place, page, before>>
    BY DEF SettingsInv, StartStep, Restart, EnsureSettings, StartLog, LoadProvisioning, StartFail
  <1>1. CASE Restart
    <2>1. restarts' \in 0 .. MaxRestarts /\ overlapped' \in BOOLEAN
      BY <1>0, <1>1, SettingsAssumption DEF Restart, SettingsType
    <2> QED
      BY <1>0, <1>1, <2>1 DEF Restart, RunAt, logVars, reloadVars, SettingsType, PageInv, OwnerInv, Runtime
  <1>2. CASE EnsureSettings
    BY <1>0, <1>2 DEF EnsureSettings, RunAt, logVars, reloadVars, SettingsType, PageInv, OwnerInv
  <1>3. CASE StartLog
    BY <1>0, <1>3 DEF StartLog, RunAt, InitBegin, historyVars, SettingsType, PageInv, OwnerInv
  <1>4. CASE LoadProvisioning
    <2>1. used' \in Tokens \cup {NoToken} /\ excused' \in BOOLEAN
      BY <1>0, <1>4 DEF LoadProvisioning, SettingsType
    <2> QED
      BY <1>0, <1>4, <2>1 DEF LoadProvisioning, RunAt, logVars, reloadVars, SettingsType, PageInv, OwnerInv
  <1>5. CASE StartFail
    BY <1>0, <1>5 DEF StartFail, RunAt, historyVars, logVars, reloadVars, SettingsType, PageInv, OwnerInv
  <1> QED
    BY <1>1, <1>2, <1>3, <1>4, <1>5 DEF StartStep

-----------------------------------------------------------------------------
\* Requests and a start that are under way alone.

\* A request that is marked as alone is alone.
LEMMA RequestAlone ==
  ASSUME SettingsInv, NEW r \in Requests, RequestStep(r), ~overlapped', ~OpenPage(r)
  PROVE  /\ ~overlapped /\ ~Starting /\ UNCHANGED runtime
         /\ \A q \in Requests \ {r} : ~Active(q) /\ place'[q] = place[q]
  <1>0. SettingsType /\ AloneInv
    BY DEF SettingsInv
  <1>1. /\ ~overlapped /\ UNCHANGED runtime
        /\ \A q \in Requests \ {r} : place'[q] = place[q]
    BY <1>0 DEF RequestStep, LoadBefore, StoreSettings, SaveRefused, ApplyLog, AnswerSaved, Provision,
       AnswerProvisioned, At, SettingsType, startVars, historyVars
  <1>2. CASE Active(r)
    BY <1>0, <1>1, <1>2 DEF AloneInv
  <1>3. CASE ~Active(r)
    <2>1. LoadBefore(r) \/ Provision(r)
      BY <1>3 DEF Active, RequestStep, StoreSettings, SaveRefused, ApplyLog, AnswerSaved, AnswerProvisioned, At
    <2>2. ~Busy
      BY <2>1 DEF LoadBefore, Provision
    <2> QED
      BY <1>1, <2>2 DEF Busy
  <1> QED
    BY <1>2, <1>3

\* Then nobody else becomes active, and the log follows what is stored.
LEMMA RequestFollow ==
  ASSUME SettingsInv, NEW r \in Requests, RequestStep(r)
  PROVE  AloneInv' /\ FollowInv'
  <1>0. SettingsType /\ PageInv /\ AloneInv /\ FollowInv /\ WriterType
    BY DEF SettingsInv, WriterInv
  <1>1. CASE OpenPage(r)
    <2>1. /\ place' = [place EXCEPT ![r] = "open"] /\ place[r] = "free"
          /\ page' = [page EXCEPT ![r] = row]
          /\ UNCHANGED <<row, runtime, read, overlapped, made, options>>
      BY <1>1 DEF OpenPage, At, startVars, historyVars, logVars, reloadVars, handlerVars
    <2> QED
      BY <1>0, <2>1 DEF SettingsType, AloneInv, FollowInv, Active, Starting, LogFollows
  <1>2. CASE ~OpenPage(r)
    <2> SUFFICES ASSUME ~overlapped'
                 PROVE  /\ \A p, q \in Requests : Active(p)' /\ Active(q)' => p = q
                        /\ ~Starting'
                        /\ (\A q \in Requests : place'[q] # "apply") => LogFollows'
                        /\ \A q \in Requests : place'[q] = "apply" => page'[q] = row'
      BY <1>0 DEF AloneInv, FollowInv, Starting
    <2>1. /\ ~overlapped /\ ~Starting /\ UNCHANGED runtime
          /\ \A q \in Requests \ {r} : ~Active(q) /\ place'[q] = place[q]
      BY <1>2, RequestAlone
    <2>2. \A q \in Requests \ {r} : ~Active(q)' /\ place[q] # "apply" /\ place'[q] # "apply"
      BY <2>1 DEF Active
    <2>3. ~Starting'
      BY <2>1 DEF Starting
    <2>4. place[r] # "apply" => LogFollows
      BY <1>0, <2>1, <2>2 DEF FollowInv
    <2>5. /\ place'[r] # "apply" => LogFollows'
          /\ place'[r] = "apply" => page'[r] = row'
      <3>1. CASE LoadBefore(r) \/ SaveRefused(r) \/ AnswerSaved(r) \/ AnswerProvisioned(r)
        <4>1. place[r] # "apply" /\ place'[r] # "apply" /\ UNCHANGED <<row, made, options>>
          BY <1>0, <3>1 DEF LoadBefore, SaveRefused, AnswerSaved, AnswerProvisioned, At, SettingsType,
             logVars, reloadVars, handlerVars
        <4> QED
          BY <2>4, <4>1 DEF LogFollows
      <3>2. CASE StoreSettings(r)
        BY <1>0, <3>2 DEF StoreSettings, At, SettingsType
      <3>3. CASE ApplyLog(r)
        <4>1. /\ place[r] = "apply" /\ place'[r] = "applying" /\ UNCHANGED row
              /\ made < MaxInits /\ made' = made + 1 /\ options' = [options EXCEPT ![made + 1] = page[r].log]
          BY <1>0, <3>3 DEF ApplyLog, InitBegin, At, SettingsType
        <4>2. options'[made'] = page[r].log /\ page[r] = row
          BY <1>0, <2>1, <4>1, ReloadAssumption DEF WriterType, Handlers, FollowInv
        <4> QED
          BY <4>1, <4>2 DEF LogFollows
      <3>4. CASE Provision(r)
        <4>1. /\ place[r] = "free" /\ place'[r] = "answer" /\ row'.log = row.log
              /\ UNCHANGED <<made, options>>
          BY <1>0, <3>4, RowTypes DEF Provision, At, SettingsType, logVars, reloadVars, handlerVars
        <4> QED
          BY <2>4, <4>1 DEF LogFollows
      <3> QED
        BY <1>2, <3>1, <3>2, <3>3, <3>4 DEF RequestStep
    <2> QED
      BY <2>2, <2>3, <2>5
  <1> QED
    BY <1>1, <1>2

\* A start that is under way alone applies the log settings that are stored.
LEMMA StartFollow ==
  ASSUME SettingsInv, StartStep
  PROVE  AloneInv' /\ FollowInv'
  <1>0. /\ SettingsType /\ AloneInv /\ FollowInv /\ WriterType
        /\ UNCHANGED <<row, place, page>>
    BY DEF SettingsInv, WriterInv, StartStep, Restart, EnsureSettings, StartLog, LoadProvisioning, StartFail
  <1> SUFFICES ASSUME ~overlapped' PROVE AloneInv' /\ FollowInv'
    BY DEF AloneInv, FollowInv
  <1>1. ~overlapped /\ \A r \in Requests : ~Active(r)
    <2>1. CASE Restart
      BY <2>1 DEF Restart, Busy
    <2>2. CASE ~Restart
      <3>1. UNCHANGED overlapped /\ runtime \in {"settings", "log", "token"}
        BY <2>2 DEF StartStep, EnsureSettings, StartLog, LoadProvisioning, StartFail, RunAt, historyVars
      <3> QED
        BY <1>0, <3>1 DEF AloneInv, Starting
    <2> QED
      BY <2>1, <2>2
  <1>2. \A r \in Requests : ~Active(r)' /\ place[r] # "apply"
    BY <1>0, <1>1 DEF Active
  <1>3. LogFollows
    BY <1>0, <1>1, <1>2 DEF FollowInv
  <1>4. LogFollows' /\ (runtime' \in {"log", "token"} => read' = row')
    <2>1. CASE Restart \/ LoadProvisioning \/ StartFail
      <3>1. runtime' \notin {"log", "token"} /\ UNCHANGED <<made, options>>
        BY <2>1 DEF Restart, LoadProvisioning, StartFail, RunAt, logVars, reloadVars, handlerVars
      <3> QED
        BY <1>0, <1>3, <3>1 DEF LogFollows
    <2>2. CASE EnsureSettings
      BY <1>0, <1>3, <2>2 DEF EnsureSettings, logVars, reloadVars, handlerVars, LogFollows
    <2>3. CASE StartLog
      <3>1. /\ runtime = "log" /\ UNCHANGED read
            /\ made < MaxInits /\ made' = made + 1 /\ options' = [options EXCEPT ![made + 1] = read.log]
        BY <2>3 DEF StartLog, RunAt, InitBegin
      <3>2. options'[made'] = read.log /\ read = row
        BY <1>0, <1>1, <3>1, ReloadAssumption DEF WriterType, Handlers, FollowInv
      <3> QED
        BY <1>0, <3>1, <3>2 DEF LogFollows
    <2> QED
      BY <2>1, <2>2, <2>3 DEF StartStep
  <1> QED
    BY <1>0, <1>2, <1>4 DEF AloneInv, FollowInv

-----------------------------------------------------------------------------
\* The warnings.

\* A warning that is due stays due while its request does not answer, and once
\* it is given, it is given.
LEMMA DueWarning ==
  ASSUME SettingsInv, NEW r \in Requests, RequestStep(r), ~warned', ~excused'
  PROVE  /\ WillWarn => WillWarn'
         /\ WillAnswer /\ row.nats => WillAnswer'
  <1>0. SettingsType
    BY DEF SettingsInv
  <1>1. ASSUME NEW q \in Requests, place[q] \in {"apply", "applying"}, Differs(q)
        PROVE  place'[q] \in {"apply", "applying"} /\ Differs(q)'
    <2>1. CASE q # r
      BY <1>0, <1>1, <2>1 DEF RequestStep, OpenPage, LoadBefore, StoreSettings, SaveRefused, ApplyLog,
         AnswerSaved, Provision, AnswerProvisioned, Forget, At, SettingsType, Differs
    <2>2. CASE q = r
      <3>1. ApplyLog(r)
        BY <1>1, <2>2 DEF RequestStep, OpenPage, LoadBefore, StoreSettings, SaveRefused,
           AnswerSaved, Provision, AnswerProvisioned, At
      <3> QED
        BY <1>0, <1>1, <2>2, <3>1 DEF ApplyLog, At, SettingsType, Differs
    <2> QED
      BY <2>1, <2>2
  <1>2. ASSUME NEW q \in Requests, place[q] = "answer", row.nats
        PROVE  place'[q] = "answer"
    BY <1>0, <1>2 DEF RequestStep, OpenPage, LoadBefore, StoreSettings, SaveRefused, ApplyLog,
       AnswerSaved, Provision, AnswerProvisioned, At, SettingsType
  <1> QED
    BY <1>1, <1>2 DEF WillWarn, WillAnswer

\* A request leaves the start where it is.
LEMMA RequestFrame ==
  ASSUME SettingsInv, NEW r \in Requests, RequestStep(r)
  PROVE  /\ UNCHANGED <<runtime, read, used>>
         /\ ~warned' /\ ~excused' => ~warned /\ ~excused
         /\ \A q \in Requests \ {r} : place'[q] = place[q] /\ before'[q] = before[q]
  BY DEF SettingsInv, RequestStep, OpenPage, LoadBefore, StoreSettings, SaveRefused, ApplyLog, AnswerSaved,
     Provision, AnswerProvisioned, Forget, At, startVars, historyVars, SettingsType

\* A request tells what it changes, or another tells it that is still to answer.
LEMMA RequestAnnounce ==
  ASSUME SettingsInv, NEW r \in Requests, RequestStep(r)
  PROVE  AnnounceInv'
  <1> SUFFICES ASSUME ~excused', ~warned', runtime' \in {"log", "token", "up"}
               PROVE  /\ Told(row)' /\ TokenTold'
                      /\ \A q \in Requests : place'[q] \in {"store", "apply", "applying"} =>
                           before'[q] \in SettingsRows /\ Told(before[q])'
    BY DEF AnnounceInv
  <1>0. SettingsType /\ PageInv
    BY DEF SettingsInv
  <1>1. /\ UNCHANGED <<runtime, read, used>>
        /\ \A q \in Requests \ {r} : place'[q] = place[q] /\ before'[q] = before[q]
    BY RequestFrame
  <1>2. /\ Told(row) /\ TokenTold
        /\ \A q \in Requests : place[q] \in {"store", "apply", "applying"} =>
             before[q] \in SettingsRows /\ Told(before[q])
    BY <1>1, RequestFrame DEF SettingsInv, AnnounceInv
  <1>3. /\ WillWarn => WillWarn'
        /\ WillAnswer => WillAnswer' \/ (read.nats => WillWarn')
    <2>1. ~row.nats /\ read.nats => WillWarn
      BY <1>0, <1>2, RowTypes DEF Told, SettingsType
    <2> QED
      BY <2>1, DueWarning
  <1>4. ASSUME NEW s, Told(s) PROVE s.nats # read'.nats => WillWarn'
    BY <1>1, <1>3, <1>4 DEF Told
  <1>5. ASSUME NEW s, Told(s) PROVE read'.nats /\ s.gw_id # read'.gw_id => WillWarn' \/ WillAnswer'
    BY <1>1, <1>3, <1>5 DEF Told
  <1>6. \A q \in Requests \ {r} : place'[q] \in {"store", "apply", "applying"} =>
          before'[q] \in SettingsRows /\ Told(before[q])'
    <2> SUFFICES ASSUME NEW q \in Requests \ {r}, place'[q] \in {"store", "apply", "applying"}
                 PROVE  before'[q] \in SettingsRows /\ Told(before[q])'
      OBVIOUS
    <2>1. before[q] \in SettingsRows /\ Told(before[q]) /\ before'[q] = before[q]
      BY <1>1, <1>2
    <2> QED
      BY <2>1, <1>4, <1>5 DEF Told
  <1>7. UNCHANGED token => TokenTold'
    BY <1>1, <1>2, <1>3 DEF TokenTold
  <1>8. UNCHANGED row => Told(row)'
    BY <1>2, <1>4, <1>5 DEF Told
  <1>9. CASE OpenPage(r) \/ SaveRefused(r) \/ AnswerSaved(r) \/ AnswerProvisioned(r)
    <2>1. /\ place'[r] \notin {"store", "apply", "applying"}
          /\ UNCHANGED <<row, token>>
      BY <1>0, <1>9 DEF OpenPage, SaveRefused, AnswerSaved, AnswerProvisioned, At, SettingsType
    <2> QED
      BY <2>1, <1>6, <1>7, <1>8
  <1>10. CASE LoadBefore(r)
    <2>1. /\ before'[r] = row /\ row \in SettingsRows
          /\ UNCHANGED <<row, token>>
      BY <1>0, <1>10 DEF LoadBefore, At, SettingsType
    <2>2. Told(before[r])'
      BY <2>1, <1>8 DEF Told
    <2> QED
      BY <2>1, <2>2, <1>6, <1>7, <1>8
  <1>11. CASE ApplyLog(r)
    <2>1. /\ place[r] = "apply" /\ before'[r] = before[r]
          /\ UNCHANGED <<row, token>>
      BY <1>11 DEF ApplyLog, At
    <2>2. before[r] \in SettingsRows /\ Told(before[r])
      BY <1>2, <2>1
    <2>3. before'[r] \in SettingsRows /\ Told(before[r])'
      BY <2>1, <2>2, <1>4, <1>5 DEF Told
    <2> QED
      BY <2>1, <2>3, <1>6, <1>7, <1>8
  <1>12. CASE StoreSettings(r)
    <2>1. /\ place[r] = "store" /\ place'[r] = "apply" /\ row' = page[r] /\ page[r] \in SettingsRows
          /\ UNCHANGED <<before, page, token>>
      BY <1>0, <1>12 DEF StoreSettings, At, SettingsType, PageInv
    <2>2. before[r] \in SettingsRows /\ Told(before[r])
      BY <1>2, <2>1
    <2>3. before'[r] \in SettingsRows /\ Told(before[r])'
      BY <2>1, <2>2, <1>4, <1>5 DEF Told
    <2>4. CASE Differs(r)'
      <3>1. WillWarn'
        BY <2>1, <2>4 DEF WillWarn
      <3> QED
        BY <2>1, <2>3, <3>1, <1>6, <1>7 DEF Told
    <2>5. CASE ~Differs(r)'
      <3>1. before[r].gw_id = page[r].gw_id /\ before[r].nats = page[r].nats
        BY <2>1, <2>2, <2>5, NoRowIsNone DEF Differs
      <3>2. Told(row)'
        BY <2>1, <2>3, <3>1 DEF Told
      <3> QED
        BY <2>1, <2>3, <3>2, <1>6, <1>7
    <2> QED
      BY <2>4, <2>5
  <1>13. CASE Provision(r)
    <2>1. /\ place'[r] = "answer" /\ row'.nats = row.nats
      BY <1>0, <1>13, RowTypes DEF Provision, At, SettingsType
    <2>2. WillAnswer'
      BY <2>1 DEF WillAnswer
    <2>3. Told(row)' /\ TokenTold'
      BY <1>2, <1>4, <2>1, <2>2 DEF Told, TokenTold
    <2> QED
      BY <2>1, <2>3, <1>6
  <1> QED
    BY <1>9, <1>10, <1>11, <1>12, <1>13 DEF RequestStep

\* A start that nobody disturbs reads what is stored; what changes after that is told.
LEMMA StartAnnounce ==
  ASSUME SettingsInv, StartStep
  PROVE  AnnounceInv'
  <1> SUFFICES ASSUME ~excused', ~warned', runtime' \in {"log", "token", "up"}
               PROVE  AnnounceInv'
    BY DEF AnnounceInv
  <1>0. /\ SettingsType /\ AnnounceInv
        /\ UNCHANGED <<row, token, place, page, before>>
    BY DEF SettingsInv, StartStep, Restart, EnsureSettings, StartLog, LoadProvisioning, StartFail
  <1>1. UNCHANGED <<WillWarn, WillAnswer>>
    BY <1>0 DEF WillWarn, WillAnswer, Differs
  <1>2. CASE EnsureSettings
    <2>1. read' = row /\ runtime' = "log" /\ \A r \in Requests : ~Active(r)
      BY <1>2 DEF EnsureSettings, RunAt
    <2>2. \A r \in Requests : place'[r] \notin {"store", "apply", "applying"}
      BY <1>0, <2>1 DEF Active
    <2> QED
      BY <1>0, <2>1, <2>2 DEF AnnounceInv, Told, TokenTold
  <1>3. CASE StartLog \/ LoadProvisioning
    <2>1. /\ UNCHANGED <<read, warned>> /\ ~excused /\ ~warned /\ runtime \in {"log", "token"}
          /\ runtime' = "up" /\ read'.nats => used' = token
      BY <1>3 DEF StartLog, LoadProvisioning, RunAt, historyVars
    <2>2. /\ Told(row)
          /\ \A r \in Requests : place[r] \in {"store", "apply", "applying"} =>
               before[r] \in SettingsRows /\ Told(before[r])
      BY <1>0, <2>1 DEF AnnounceInv
    <2>3. TokenTold'
      BY <1>0, <2>1 DEF TokenTold
    <2> QED
      BY <1>0, <1>1, <2>1, <2>2, <2>3 DEF AnnounceInv, Told
  <1>4. CASE Restart \/ StartFail
    BY <1>4 DEF Restart, StartFail, RunAt
  <1> QED
    BY <1>2, <1>3, <1>4 DEF StartStep

-----------------------------------------------------------------------------
\* Every step keeps the invariant.
LEMMA SettingsStepInv == SettingsInv /\ [SettingsNext]_allVars => SettingsInv'
  <1> SUFFICES ASSUME SettingsInv, [SettingsNext]_allVars PROVE SettingsInv'
    OBVIOUS
  <1>1. StreamInv' /\ WriterInv'
    BY LogOfSettings, StreamOfLog, StreamStepInv, WriterStepInv DEF SettingsInv
  <1>2. SettingsType' /\ PageInv' /\ OwnerInv' /\ AloneInv' /\ FollowInv' /\ AnnounceInv'
    <2>1. ASSUME UNCHANGED settingsVars, UNCHANGED <<made, options>>,
                 init' = NoInit \/ (init # NoInit /\ init'.by = init.by)
          PROVE  SettingsType' /\ PageInv' /\ OwnerInv' /\ AloneInv' /\ FollowInv' /\ AnnounceInv'
      <3>1. SettingsType' /\ PageInv' /\ OwnerInv'
        BY <2>1 DEF SettingsInv, settingsVars, startVars, historyVars, SettingsType, PageInv, OwnerInv
      <3>2. AloneInv' /\ FollowInv'
        BY <2>1 DEF SettingsInv, settingsVars, startVars, historyVars, AloneInv, Active, Starting, FollowInv,
           LogFollows
      <3>3. AnnounceInv'
        BY <2>1 DEF SettingsInv, settingsVars, startVars, historyVars, AnnounceInv, Told, TokenTold, WillWarn,
           WillAnswer, Differs
      <3> QED
        BY <3>1, <3>2, <3>3
    <2> QED
      BY <2>1, StepCases, RequestType, RequestFollow, RequestAnnounce, StartType, StartFollow, StartAnnounce
  <1> QED
    BY <1>1, <1>2 DEF SettingsInv

\* The invariant holds in every state.
THEOREM SettingsInvariance == SettingsSpec => []SettingsInv
  BY SettingsInitInv, SettingsStepInv, PTL DEF SettingsSpec

\* Every variable of the log and of the settings keeps its type.
THEOREM TypeCorrect == SettingsSpec => []SettingsTypeOK
  <1>1. SettingsInv => SettingsTypeOK
    <2> SUFFICES ASSUME SettingsInv PROVE SettingsTypeOK
      OBVIOUS
    <2>1. TypeOK /\ WriterType /\ late \subseteq Shut /\ SettingsType
      BY DEF SettingsInv, StreamInv, WriterInv, ShutInv
    <2>2. ReloadTypeOK
      BY <2>1 DEF WriterType, InitCalls, Records, ReloadTypeOK
    <2> QED
      BY <2>1, <2>2 DEF SettingsType, SettingsTypeOK
  <1> QED
    BY <1>1, SettingsInvariance, PTL

\* SyslogStreamHandler: a stream that subscribes before it copies the ring loses
\* nothing but what its own channel had no room for, whatever is pushed and
\* however often the log is reloaded under it.
THEOREM StreamsWhole == SettingsSpec => []NoGap
  <1>1. SettingsInv => NoGap
    BY DEF SettingsInv, StreamInv
  <1> QED
    BY <1>1, SettingsInvariance, PTL

\* logx.go:118: when no Init is under way, only the current writer has its file
\* open, but for one that a logger has written to after the swap.
THEOREM ReloadLeaksNoFile == SettingsSpec => []OldWritersClosed
  <1>1. SettingsInv => OldWritersClosed
    BY WritersClosed DEF SettingsInv
  <1> QED
    BY <1>1, SettingsInvariance, PTL

\* settings.go:20 and 38: until requests overlap, the log runs what is stored; and
\* whether they overlap or not, what is saved and only read by a start is answered
\* with a warning, unless a load fails or start reads it while a request is under way.
THEOREM SavedTakesEffect == SettingsSpec => []SettingsTakeEffect
  <1>1. SettingsInv => SettingsTakeEffect
    <2> SUFFICES ASSUME SettingsInv, ~Busy
                 PROVE  /\ ~overlapped => options[curr] = row.log
                        /\ ~excused /\ ~warned => ~Stale
      BY DEF SettingsTakeEffect, LogFollowsSettings, StaleIsAnnounced
    <2>0. ~Starting /\ \A r \in Requests : place[r] \in {"free", "open", "done"}
      BY DEF Busy, Active
    <2>1. ~overlapped => LogFollows
      BY <2>0 DEF SettingsInv, FollowInv
    <2>2. init = NoInit
      BY <2>0 DEF SettingsInv, OwnerInv, Starting
    <2>3. curr = made
      BY <2>2 DEF SettingsInv, WriterInv, PhaseInv
    <2>4. ASSUME ~excused, ~warned, runtime = "up" PROVE ~Stale
      <3>1. ~WillWarn /\ ~WillAnswer
        BY <2>0 DEF WillWarn, WillAnswer
      <3>2. Told(row) /\ TokenTold
        BY <2>4 DEF SettingsInv, AnnounceInv
      <3> QED
        BY <2>4, <3>1, <3>2 DEF Told, TokenTold, Stale
    <2> QED
      BY <2>1, <2>3, <2>4 DEF LogFollows, Stale
  <1> QED
    BY <1>1, SettingsInvariance, PTL
=============================================================================

---------------------------- MODULE DeviceAccess ----------------------------
(***************************************************************************)
(* One device behind a link: its properties are compiled into read groups  *)
(* (buildDevicePlan, BuildGroups), polled group by group into the cache    *)
(* (pollDevice, applyMembers), and written frame by frame (execWrite).     *)
(* The configuration may be reloaded unchanged (planFingerprint).          *)
(*                                                                         *)
(* The device is its memory: what it holds in a coil or register, as bits. *)
(* Whether an exchange succeeds is left open here; module Exchange says    *)
(* how it ends, and module Link what its failure does to the link.         *)
(***************************************************************************)
EXTENDS PropCodec

CONSTANTS
  Models,       \* device models that may be configured: sequences of PropMeta
  MaxRegs       \* maxRegisterCount of the model, 0 if it has none

ASSUME DeviceAssumption ==
  /\ \A m \in Models : m \in Seq(PropMeta)
  /\ MaxRegs \in Nat

VARIABLES
  phase,           \* "new", "rejected", "idle", "poll" or "write"
  props,        \* DevicePlan.Props
  groups,       \* DevicePlan.Groups
  restarted,    \* history: a reload of the same model replaced the worker
  gi,           \* groups of this round already polled
  cache,        \* worker.data, by property; Refused: no value
  frames,       \* frames of the current write not yet sent
  target,       \* property being written
  mem,          \* what has been written to the device, by function code and address
  fresh,        \* history: properties read since the memory last changed
  wrote         \* history: properties whose last write is complete and still there

planVars == <<props, groups, restarted>>
runVars  == <<gi, cache, frames, target, mem, fresh, wrote>>
deviceVars     == <<phase, planVars, runVars>>

Addresses == 0 .. MaxAddress

DeviceInit ==
  /\ phase = "new"
  /\ props \in Models
  /\ groups = << >>
  /\ restarted = FALSE
  /\ gi = 0
  /\ cache = [i \in DOMAIN props |-> Refused]
  /\ frames = << >>
  /\ target = 0
  /\ mem = [fc \in {1, 3} |-> [a \in Addresses |-> << >>]]
  /\ fresh = {}
  /\ wrote = {}

-----------------------------------------------------------------------------
\* BuildGroups.

\* The limit of a request: that of the model, at most that of the protocol.
Limit(fc) ==
  LET most == IF IsBitFC(fc) THEN MaxReadBits ELSE MaxReadRegisters
  IN IF MaxRegs = 0 THEN most ELSE Min({MaxRegs, most})

End(i) == props[i].offset + UnitSpan(props[i])

\* The properties of a bucket: one function code, one base.
Members(fc, base) ==
  {i \in DOMAIN props : CanRead(props[i]) /\ props[i].readFC = fc /\ props[i].base = base}

Buckets ==
  {<<props[i].readFC, props[i].base>> :
     i \in {j \in DOMAIN props : CanRead(props[j]) /\ props[j].readFC > 0}}

\* The place of property i in the answer to a request that starts at from.
Member(i, from) ==
  [prop |-> i, at |-> ByteOffset(props[i], props[i].offset - from),
   len |-> ByteLen(props[i], props[i].offset - from)]

\* maxEnd: how far the members of a bucket reach.
Reach(fc, base) == Max({0} \cup {End(i) : i \in Members(fc, base)})

\* Mutant of SegmentEnd: the last segment is as long as the others.
FullSegment(fc, base, from) == from + Limit(fc)

SegmentEnd(fc, base, from) == Min({from + Limit(fc), Reach(fc, base)})

\* A property goes with a segment that holds it entirely.
Held(fc, base, from) ==
  {i \in Members(fc, base) : from <= props[i].offset /\ End(i) <= SegmentEnd(fc, base, from)}

\* Segments begin every Limit units; those that hold no member are not asked for.
Starts(fc, base) ==
  {n \in 0 .. Reach(fc, base) - 1 : n % Limit(fc) = 0 /\ Held(fc, base, n) # {}}

Request(fc, start, quantity, members) ==
  [fc |-> fc, start |-> start, quantity |-> quantity, members |-> members]

Segments(fc, base) ==
  {Request(fc, base + n, SegmentEnd(fc, base, n) - n, {Member(i, n) : i \in Held(fc, base, n)}) :
     n \in Starts(fc, base)}

\* A request of its own for every member that crosses segments.
Singles(fc, base) ==
  {Request(fc, base + props[i].offset, UnitSpan(props[i]), {Member(i, props[i].offset)}) :
     i \in Members(fc, base) \ UNION {Held(fc, base, n) : n \in Starts(fc, base)}}

ReadRequests == UNION {Segments(b[1], b[2]) \cup Singles(b[1], b[2]) : b \in Buckets}

\* What BuildGroups may return: the buckets are ranged over as a map, in any
\* order, and sort.Slice does not say how it orders what its less leaves equal.
Plans ==
  {list \in SetToSeqs(ReadRequests) :
     \A j, k \in DOMAIN list : j < k =>
       \/ list[j].fc < list[k].fc
       \/ list[j].fc = list[k].fc /\ list[j].start <= list[k].start}

-----------------------------------------------------------------------------
\* Configuration.

\* buildDevicePlan: an invalid property rejects the device.
Configure ==
  /\ phase = "new"
  /\ IF \A i \in DOMAIN props : Valid(props[i])
     THEN phase' = "idle" /\ groups' \in Plans
     ELSE phase' = "rejected" /\ UNCHANGED groups
  /\ UNCHANGED <<props, restarted, runVars>>

\* planFingerprint of the groups.
Fingerprint(list) ==
  [k \in DOMAIN list |-> <<list[k].fc, list[k].start, list[k].quantity>>]

\* A reload that has not changed this model: Engine.Apply keeps the worker when
\* the fingerprint is the same, and starts another one when it is not.
Reload ==
  /\ phase = "idle"
  /\ \E plan \in Plans :
       IF Fingerprint(plan) = Fingerprint(groups)
       THEN UNCHANGED <<planVars, cache, fresh>>
       ELSE /\ groups' = plan
            /\ restarted' = TRUE
            /\ cache' = [i \in DOMAIN props |-> Refused]
            /\ fresh' = {}
            /\ UNCHANGED props
  /\ UNCHANGED <<phase, gi, frames, target, mem, wrote>>

-----------------------------------------------------------------------------
\* The memory of the device.

Area(fc) == CASE fc = 1 -> "coil" [] fc = 2 -> "discrete" [] fc = 3 -> "holding" [] fc = 4 -> "input"

\* The bits of one coil or register.
Cell(fc, a) ==
  LET untouched == IF IsBitFC(fc) THEN << <<Area(fc), a>> >>
                   ELSE [b \in 1 .. 16 |-> <<Area(fc), 16 * a + b - 1>>]
  IN IF fc \in {1, 3} /\ mem[fc][a] # << >> THEN mem[fc][a] ELSE untouched

\* The data bytes of the answer to a read.
Response(fc, start, quantity) ==
  IF IsBitFC(fc)
  THEN [k \in 1 .. CeilDiv8(quantity) |-> [b \in 1 .. 8 |->
          IF 8 * (k - 1) + b <= quantity THEN Cell(fc, start + 8 * (k - 1) + b - 1)[1] ELSE Zero]]
  ELSE [n \in 1 .. 2 * quantity |-> BytesOf(Cell(fc, start + (n - 1) \div 2))[((n - 1) % 2) + 1]]

-----------------------------------------------------------------------------
\* Polling.

StartRound ==
  /\ phase = "idle"
  /\ phase' = "poll"
  /\ gi' = 0
  /\ UNCHANGED <<planVars, cache, frames, target, mem, fresh, wrote>>

EndRound ==
  /\ phase = "poll"
  /\ gi = Len(groups)
  /\ phase' = "idle"
  /\ UNCHANGED <<planVars, runVars>>

\* The bytes of a member in the answer, or Refused if it is too short.
MemberBytes(raw, m) ==
  IF Len(raw) < m.at + m.len THEN Refused ELSE SubSeq(raw, m.at + 1, m.at + m.len)

\* applyMembers takes the first bit of the chunk for the first of the property.
BitInChunk(m) == 0

\* applyMembers: a member that cannot be mapped keeps what the cache holds.
ReadGroup ==
  /\ phase = "poll"
  /\ gi < Len(groups)
  /\ LET g == groups[gi + 1]
         chunk(m) == MemberBytes(Response(g.fc, g.start, g.quantity), m)
         val(m) == IF chunk(m) = Refused THEN Refused
                   ELSE MapRegistersAt(chunk(m), props[m.prop], BitInChunk(m))
         read == {m \in g.members : val(m) # Refused}
     IN /\ cache' = [i \in DOMAIN props |->
                       IF \E m \in read : m.prop = i
                       THEN val(CHOOSE m \in read : m.prop = i)
                       ELSE cache[i]]
        /\ fresh' = fresh \cup {m.prop : m \in read}
  /\ gi' = gi + 1
  /\ UNCHANGED <<phase, planVars, frames, target, mem, wrote>>

\* The exchange failed: the round goes on with the next group.
SkipGroup ==
  /\ phase = "poll"
  /\ gi < Len(groups)
  /\ gi' = gi + 1
  /\ UNCHANGED <<phase, planVars, cache, frames, target, mem, fresh, wrote>>

-----------------------------------------------------------------------------
\* Writing.

\* FindWriteProp and BuildWritePlan; a write that cannot be planned is refused.
StartWrite(i) ==
  /\ phase = "idle"
  /\ CanWrite(props[i])
  /\ WritePlan(props[i]) # Refused
  /\ phase' = "write"
  /\ target' = i
  /\ frames' = WritePlan(props[i])
  /\ wrote' = wrote \ {i}
  /\ UNCHANGED <<planVars, gi, cache, mem, fresh>>

\* The cells a frame changes, and what it puts there.
Width(f) == IF f.fc \in {5, 15} THEN 1 ELSE 16
FrameArea(f) == IF f.fc \in {5, 15} THEN 1 ELSE 3
FrameCells(f) == f.addr .. f.addr + (Len(f.bits) \div Width(f)) - 1
FrameCell(f, a) == [b \in 1 .. Width(f) |-> f.bits[(a - f.addr) * Width(f) + b]]

\* Does the device's answer to a read of property i depend on the frame?
Touches(f, i) ==
  /\ props[i].readFC = FrameArea(f)
  /\ \E a \in FrameCells(f) :
       a \in props[i].base + props[i].offset .. props[i].base + End(i) - 1

WriteFrame ==
  /\ phase = "write"
  /\ frames # << >>
  /\ LET f == Head(frames) IN
       /\ mem' = [mem EXCEPT ![FrameArea(f)] =
                    [a \in Addresses |-> IF a \in FrameCells(f) THEN FrameCell(f, a) ELSE @[a]]]
       /\ wrote' = {i \in wrote : ~Touches(f, i)}
       /\ fresh' = {i \in fresh : ~Touches(f, i)}
  /\ frames' = Tail(frames)
  /\ UNCHANGED <<phase, planVars, gi, cache, target>>

\* A frame was not confirmed: the rest is not sent.
WriteFailed ==
  /\ phase = "write"
  /\ frames # << >>
  /\ phase' = "idle"
  /\ frames' = << >>
  /\ UNCHANGED <<planVars, gi, cache, target, mem, fresh, wrote>>

WriteDone ==
  /\ phase = "write"
  /\ frames = << >>
  /\ phase' = "idle"
  /\ wrote' = wrote \cup {target}
  /\ UNCHANGED <<planVars, gi, cache, frames, target, mem, fresh>>

-----------------------------------------------------------------------------
DeviceNext ==
  \/ Configure
  \/ Reload
  \/ StartRound \/ ReadGroup \/ SkipGroup \/ EndRound
  \/ \E i \in DOMAIN props : StartWrite(i)
  \/ WriteFrame \/ WriteFailed \/ WriteDone

DeviceSpec == DeviceInit /\ [][DeviceNext]_deviceVars

-----------------------------------------------------------------------------
\* Properties.

DeviceTypeOK ==
  /\ phase \in {"new", "rejected", "idle", "poll", "write"}
  /\ props \in Seq(PropMeta)
  /\ \A k \in DOMAIN groups : \A m \in groups[k].members :
       m.prop \in DOMAIN props /\ m.at \in Nat /\ m.len \in Nat \ {0}
  /\ restarted \in BOOLEAN
  /\ gi \in 0 .. Len(groups)
  /\ DOMAIN cache = DOMAIN props
  /\ target \in {0} \cup DOMAIN props /\ (phase = "write" => target # 0)
  /\ phase # "write" => frames = << >>
  /\ fresh \subseteq DOMAIN props
  /\ wrote \subseteq DOMAIN props

\* Every readable property of a configured device is read by exactly one
\* group, also if it crosses segments or is wider than one (BuildGroups, 2b).
GroupedOnce ==
  phase \notin {"new", "rejected"} =>
    \A i \in DOMAIN props :
      LET uses == {k \in DOMAIN groups : \E m \in groups[k].members : m.prop = i}
      IN Cardinality(uses) = IF CanRead(props[i]) /\ props[i].readFC > 0 THEN 1 ELSE 0

AnswerBytes(g) == IF IsBitFC(g.fc) THEN CeilDiv8(g.quantity) ELSE 2 * g.quantity

\* No request of a plan is refused by validateReadRequest, none is beyond the
\* model's maxRegisterCount unless a single property is, and its answer holds
\* the bytes of every member, so that no property is left without a value for
\* lack of them (applyMembers).
RequestsLegal ==
  \A k \in DOMAIN groups :
    LET g == groups[k] IN
      /\ LegalRead(g.fc, g.start, g.quantity)
      /\ g.quantity > Limit(g.fc) => \A m \in g.members : UnitSpan(props[m.prop]) = g.quantity
      /\ \A m \in g.members : m.at + m.len <= AnswerBytes(g)

\* What a plan must be, whatever the model and the segments.
PlanSound == GroupedOnce /\ RequestsLegal

\* The registers of property i, lowest first, as the device holds them.
OwnCells(i) ==
  [k \in 1 .. UnitSpan(props[i]) |-> Cell(props[i].readFC, props[i].base + props[i].offset + k - 1)]

\* A value read from registers is made of bits of the property's own
\* registers, as many as its bit range says, whatever group it was read with.
\* interpretInt knows the low 64 bits.
ReadOwn(i) ==
  /\ ToSet(cache[i]) \subseteq UNION {ToSet(cell) : cell \in ToSet(OwnCells(i))}
  /\ props[i].type = "int" => Len(cache[i]) = props[i].endBit - props[i].startBit + 1

OwnRegisters ==
  \A i \in fresh :
    ~IsBitSpace(props[i]) /\ (props[i].type = "bool" \/ props[i].endBit < 64) => ReadOwn(i)

\* Byte order and bit order of writing and reading agree: what was written to
\* holding registers is what the next poll reads, in all its low bits
\* (applyByteOrderForWrite is the inverse of applyByteOrder).
ReadsBack ==
  \A i \in fresh \cap wrote :
    props[i].readFC = 3 /\ props[i].type # "bool" /\ props[i].startBit = 0 =>
      \A b \in DOMAIN cache[i] : cache[i][b] = ValueBit(b - 1)

\* grouping.go: startBit and endBit lie in the registers of the property, and
\* say how many of their bits make its value.
WideRangeRead == \A i \in fresh : ~IsBitSpace(props[i]) => ReadOwn(i)

\* worker.go, applyMembers: the chunk begins with the property's own first bit.
OwnCoils ==
  \A i \in fresh : IsBitSpace(props[i]) /\ props[i].type # "bool" =>
    cache[i] = [k \in 1 .. UnitSpan(props[i]) |-> OwnCells(i)[k][1]]

\* value.go, ValidateWriteFunctionCode: a write never destroys other points in
\* the same register.
NeighboursKept ==
  [][WriteFrame => \A i \in DOMAIN props :
       LET p == props[i]
           t == props[target]
           a == p.base + p.offset
       IN p.readFC = 3 /\ p.count = 1 /\ (p.endBit < t.startBit \/ t.endBit < p.startBit) =>
            \A b \in p.startBit .. p.endBit : Cell(3, a)'[b + 1] = Cell(3, a)[b + 1]]_deviceVars

\* grouping.go, sort: the order is the same each time a plan is rebuilt; a
\* worker whose configuration has not changed is kept (planFingerprint).
UnchangedKeepsWorker == ~restarted

\* value.go, ValidateWriteFunctionCode: what cannot be written is found when
\* the model is saved, not at run time.
AcceptedIsWritable ==
  phase \notin {"new", "rejected"} =>
    \A i \in DOMAIN props : CanWrite(props[i]) => WritePlan(props[i]) # Refused

\* docs/data-models.md: a property that is only written has no read function
\* code, and 05 or 15 is the write function code of a coil.
WriteOnlyCoilAccepted ==
  phase = "rejected" =>
    \E i \in DOMAIN props :
      ~(props[i].access = "w" /\ props[i].readFC = 0 /\ props[i].writeFC \in {5, 15})
=============================================================================

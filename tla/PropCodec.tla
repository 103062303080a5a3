----------------------------- MODULE PropCodec -----------------------------
(***************************************************************************)
(* What a property of a device model means on the wire: its address space, *)
(* its bytes in a response, byte order and bit range, its write frames and *)
(* the validation it passes when it is configured                          *)
(* (internal/engine/converter: grouping.go, mapper.go, value.go,           *)
(* validate.go).                                                           *)
(*                                                                         *)
(* Data are sequences of bits and a bit is a token that says where it came *)
(* from, so that one check covers every value: a register is 16 bits and a *)
(* byte 8, least significant first; a frame is a sequence of bytes.  The   *)
(* linear map coefficient and deltaValue is left out, and so is the text of*)
(* a string.  An absent byteOrder is "ABCD", which it means everywhere.    *)
(***************************************************************************)
EXTENDS Integers, Sequences, FiniteSets, SequencesExt, FiniteSetsExt

CONSTANTS
  MaxReadRegisters,    \* 125
  MaxReadBits,         \* 2000
  MaxWriteRegisters,   \* 123
  MaxWriteBits,        \* 1968
  MaxAddress           \* 65535

ASSUME LimitsAssumption ==
  /\ {MaxReadRegisters, MaxReadBits, MaxWriteRegisters, MaxWriteBits} \subseteq Nat \ {0}
  /\ MaxAddress \in Nat

ByteOrders == {"AB", "BA", "ABCD", "CDAB", "BADC", "DCBA",
               "ABCDEFGH", "HGFEDCBA", "EFGHABCD", "BADCFEHG"}

\* PropMeta, as far as it decides what is read and written.
PropMeta ==
  [type : {"bool", "int", "float"}, base : Int, offset : Int, count : Int,
   startBit : Int, endBit : Int, readFC : Nat, writeFC : Nat,
   order : ByteOrders, access : {"", "r", "w", "rw"},
   online : BOOLEAN]    \* has it the reserved name of the online state?

-----------------------------------------------------------------------------
\* grouping.go.

CanRead(p)  == p.access \in {"r", "rw"}
CanWrite(p) == p.access \in {"w", "rw"}

\* AddrSpaceOf: only the read function codes of bits make a bit space.
IsBitFC(fc) == fc \in {1, 2}

\* AddrSpace: that of the read, of a write-only property that of the write.
IsBitSpace(p) == IsBitFC(IF p.readFC > 0 THEN p.readFC ELSE p.writeFC)

BitSpan(p) == IF p.count > 0 THEN p.count ELSE p.endBit - p.startBit + 1

\* unitSpan: address units the property takes.
UnitSpan(p) == IF IsBitSpace(p) THEN BitSpan(p) ELSE p.count

CeilDiv8(n) == (n + 7) \div 8

\* Mutant of ByteOffset: registers are taken for bytes.
OffsetInUnits(p, offset) == IF IsBitSpace(p) THEN offset \div 8 ELSE offset

\* ReadByteRange: where the property's bytes are in the response of its group.
ByteOffset(p, offset) == IF IsBitSpace(p) THEN offset \div 8 ELSE offset * 2
ByteLen(p, offset) ==
  IF IsBitSpace(p) THEN CeilDiv8((offset % 8) + BitSpan(p)) ELSE p.count * 2

-----------------------------------------------------------------------------
\* mapper.go.

Refused == << >>

\* applyByteOrder, as the permutation of byte positions it performs.
\* Reading and writing use the same one; lengths but 2, 4 and 8 are left alone.
ByteOrder(n, order) ==
  CASE n = 2 /\ order \in {"AB", "ABCD"} -> <<1, 2>>
    [] n = 2 /\ order \in {"BA", "DCBA"} -> <<2, 1>>
    [] n = 4 /\ order = "ABCD" -> <<1, 2, 3, 4>>
    [] n = 4 /\ order = "CDAB" -> <<3, 4, 1, 2>>
    [] n = 4 /\ order = "BADC" -> <<2, 1, 4, 3>>
    [] n = 4 /\ order \in {"DCBA", "BA"} -> <<4, 3, 2, 1>>
    [] n = 8 /\ order \in {"ABCD", "ABCDEFGH"} -> <<1, 2, 3, 4, 5, 6, 7, 8>>
    [] n = 8 /\ order \in {"DCBA", "HGFEDCBA"} -> <<8, 7, 6, 5, 4, 3, 2, 1>>
    [] n = 8 /\ order \in {"CDAB", "EFGHABCD"} -> <<5, 6, 7, 8, 1, 2, 3, 4>>
    [] n = 8 /\ order \in {"BADC", "BADCFEHG"} -> <<2, 1, 4, 3, 6, 5, 8, 7>>
    [] n \notin {2, 4, 8} -> [i \in 1 .. n |-> i]
    [] OTHER -> Refused

ApplyOrder(bytes, order) ==
  LET perm == ByteOrder(Len(bytes), order)
  IN [i \in DOMAIN perm |-> bytes[perm[i]]]

\* The bits of big-endian bytes, and back.
BitsOf(bytes) ==
  [n \in 1 .. 8 * Len(bytes) |-> bytes[Len(bytes) - (n - 1) \div 8][((n - 1) % 8) + 1]]
BytesOf(bits) ==
  LET count == Len(bits) \div 8
  IN [k \in 1 .. count |-> [b \in 1 .. 8 |-> bits[8 * (count - k) + b]]]

Zero == <<"zero", 0>>

\* interpretInt: bits startBit .. endBit of the low 64.
InterpretInt(bytes, p) ==
  LET all  == BitsOf(bytes)
      from == Max({p.startBit, 0})
      to   == Min({Max({p.endBit, p.startBit}), Len(all) - 1})
      low(i) == IF i < 64 THEN all[i + 1] ELSE Zero
  IN IF to - from + 1 >= 64
     THEN SubSeq(all, 1, 64)
     ELSE [i \in 1 .. to - from + 1 |-> low(from + i - 1)]

\* bitAt and extractBit: bit 0 is the lowest of the first byte on one side,
\* of the last byte on the other; a bit beyond the data is 0.
BitAt(bytes, bit) ==
  IF bit < 8 * Len(bytes) THEN bytes[bit \div 8 + 1][(bit % 8) + 1] ELSE Zero
ExtractBit(bytes, bit) ==
  LET all == BitsOf(bytes) IN IF bit < Len(all) THEN all[bit + 1] ELSE Zero

\* mapBits.
MapBits(bytes, p, bitInChunk) ==
  IF Len(bytes) * 8 < bitInChunk + BitSpan(p) THEN Refused
  ELSE [i \in 1 .. (IF p.type = "bool" THEN 1 ELSE BitSpan(p)) |->
          BitAt(bytes, bitInChunk + i - 1)]

\* MapRegistersAt: the bits of the property's value, or Refused.  A float of 2
\* or 4 registers is its bit pattern, any other is taken for an integer.
MapRegistersAt(bytes, p, bitInChunk) ==
  LET own == SubSeq(bytes, 1, p.count * 2)
      ordered == ApplyOrder(own, p.order)
  IN IF IsBitSpace(p) THEN MapBits(bytes, p, bitInChunk)
     ELSE IF Len(bytes) < p.count * 2 THEN Refused
     ELSE IF p.type = "bool" THEN <<ExtractBit(own, p.startBit)>>
     ELSE IF ordered = Refused THEN Refused
     ELSE IF p.type = "float" /\ p.count \in {2, 4} THEN BitsOf(ordered)
     ELSE InterpretInt(ordered, p)

-----------------------------------------------------------------------------
\* value.go and the write requests of modbus/pdu.go.

\* ValidateWriteFunctionCode.
WriteFCFits(p) ==
  CASE p.writeFC = 0 -> TRUE
    [] p.writeFC = 5  -> IsBitSpace(p) /\ p.count <= 1
    [] p.writeFC = 15 -> IsBitSpace(p)
    [] p.writeFC = 6  -> /\ ~(p.type = "bool" /\ IsBitSpace(p))
                         /\ p.type = "float" => p.count \in {2, 4}
    [] p.writeFC = 16 -> /\ ~(p.type = "bool" /\ IsBitSpace(p))
                         /\ p.type = "float" => p.count \in {2, 4}
                         /\ p.count \in 1 .. MaxWriteRegisters
    [] OTHER -> FALSE

\* Bit i of the value written, in two's complement, and its truth.
ValueBit(i) == <<"value", i>>
NonZero == <<"nonzero", 0>>

\* Mutant of EncodeValue: big-endian, whatever the byte order.
EncodeBigEndian(p) ==
  BytesOf([i \in 1 .. 16 * p.count |->
             IF p.type = "bool" THEN (IF i = 1 THEN NonZero ELSE Zero) ELSE ValueBit(Min({i - 1, 63}))])

\* encodeValueBytes: integers beyond 64 bits are sign-extended, floats of 2 or
\* 4 registers are their pattern.  A written bool is the integer 0 or 1.
EncodeValue(p) ==
  LET bit(i) == IF p.type = "bool"
                THEN IF i = 0 THEN NonZero ELSE Zero
                ELSE ValueBit(Min({i, 63}))
  IN ApplyOrder(BytesOf([i \in 1 .. 16 * p.count |-> bit(i - 1)]), p.order)

Frame(fc, addr, bits) == [fc |-> fc, addr |-> addr, bits |-> bits]

\* The bits of register number i of big-endian data.
Register(bytes, i) == BitsOf(<<bytes[2 * i - 1], bytes[2 * i]>>)

\* FC06 writes a value of several registers one after the other.
SplitFrames(p, data, addr) ==
  [i \in 1 .. p.count |-> Frame(6, addr + i - 1, Register(data, i))]

\* buildCoilWritePlan: several coils carry the truth of the value in the first.
CoilFrames(p, addr) ==
  LET span == IF IsBitSpace(p) THEN BitSpan(p) ELSE p.count
  IN IF p.writeFC = 5 \/ span = 1
     THEN <<Frame(5, addr, <<NonZero>>)>>
     ELSE IF span > MaxWriteBits \/ addr + span - 1 > MaxAddress THEN Refused
     ELSE <<Frame(15, addr, [i \in 1 .. span |-> IF i = 1 THEN NonZero ELSE Zero])>>

\* BuildWritePlan: the frames of a write of p, or Refused.
WritePlan(p) ==
  LET addr == p.base + p.offset
      data == EncodeValue(p)
  IN IF p.count < 1 \/ ~WriteFCFits(p) \/ addr \notin 0 .. MaxAddress THEN Refused
     ELSE IF IsBitSpace(p) \/ p.writeFC \in {5, 15} THEN CoilFrames(p, addr)
     ELSE IF data = Refused THEN Refused
     ELSE IF p.writeFC = 6 THEN SplitFrames(p, data, addr)
     ELSE IF p.writeFC = 16 /\ addr + p.count - 1 <= MaxAddress
       THEN <<Frame(16, addr, [n \in 1 .. 16 * p.count |->
                                 Register(data, (n - 1) \div 16 + 1)[((n - 1) % 16) + 1]])>>
     ELSE Refused

-----------------------------------------------------------------------------
\* validate.go.

\* isVirtualProp: a property the gateway fills in itself.
IsVirtual(p) == p.readFC = 0 /\ p.writeFC = 0 /\ (p.online \/ p.access = "")

\* ValidatePropsFor on one property; names and identifiers are left out.
Valid(p) ==
  \/ IsVirtual(p)
  \/ /\ p.readFC \in {0, 1, 2, 3, 4}
     /\ p.writeFC \in {0, 5, 6, 15, 16}
     /\ CanRead(p) => p.readFC # 0
     /\ CanWrite(p) => p.writeFC # 0
     /\ p.count \in 1 .. (IF IsBitSpace(p) THEN MaxReadBits ELSE MaxReadRegisters)
     /\ p.base \in 0 .. MaxAddress
     /\ p.offset >= 0
     /\ p.base + p.offset + p.count - 1 <= MaxAddress
     /\ p.startBit >= 0
     /\ p.endBit \in p.startBit .. (IF IsBitSpace(p) THEN p.count ELSE 16 * p.count) - 1
     /\ WriteFCFits(p)

\* validateReadRequest: what a read may ask for.
LegalRead(fc, addr, quantity) ==
  /\ addr \in 0 .. MaxAddress
  /\ quantity \in 1 .. (IF IsBitFC(fc) THEN MaxReadBits ELSE MaxReadRegisters)
  /\ addr + quantity - 1 <= MaxAddress
=============================================================================

--------------------------- MODULE MCDeviceAccess ---------------------------
(***************************************************************************)
(* Small instances of DeviceAccess for TLC.  The limits of the protocol are*)
(* scaled down in the configurations; their order is kept.                 *)
(***************************************************************************)
EXTENDS DeviceAccess

Prop == [type |-> "int", base |-> 0, offset |-> 0, count |-> 1, startBit |-> 0, endBit |-> 15,
         readFC |-> 3, writeFC |-> 0, order |-> "ABCD", access |-> "r", online |-> FALSE]

\* A property of whole registers, and one of coils.
Registers(base, offset, count) ==
  [Prop EXCEPT !.base = base, !.offset = offset, !.count = count, !.endBit = 16 * count - 1]
Coils(base, offset, count) ==
  [Prop EXCEPT !.base = base, !.offset = offset, !.count = count, !.endBit = count - 1, !.readFC = 1]

Online == [Prop EXCEPT !.readFC = 0, !.count = 0, !.online = TRUE]

\* Models of up to three properties that are only read.  The order of the
\* properties in a model has no part in its plan.
Place(p) == 100 * p.base + 10 * p.offset + p.count

ReadOnly ==
  LET regs  == {Registers(b, o, c) : b \in {0, 3}, o \in 0 .. 2, c \in {1, 2, 4}}
      coils == {Coils(b, o, c) : b \in {0, 8}, o \in {0, 1, 7}, c \in {1, 3, 9}}
      pairs(S) == {pq \in S \X S : Place(pq[1]) <= Place(pq[2])}
  IN {pq \o <<Registers(0, 2, 2)>> : pq \in pairs(regs)}
     \cup pairs(coils)
     \cup {<<Online, p, q>> : p \in regs, q \in coils}

\* A writable property in every type, width, byte order and function code, and
\* a second one that may share its registers.
Writable ==
  {<<[Registers(0, o, c) EXCEPT !.type = t, !.order = order, !.writeFC = fc, !.access = "rw"],
     [Registers(0, 1, 1) EXCEPT !.writeFC = 6, !.access = "rw", !.endBit = 7]>> :
     <<o, c>> \in ({0, 1} \X (1 .. 4)) \ {<<0, 4>>}, t \in {"int", "float"},
     order \in ByteOrders, fc \in {6, 16}}

ReadAndWritten == ReadOnly \cup Writable

\* Two bit ranges of one register.
Bytes == {<<[Prop EXCEPT !.endBit = 7, !.writeFC = 6, !.access = "rw"],
            [Prop EXCEPT !.startBit = 8, !.endBit = 15, !.writeFC = 6, !.access = "rw"]>>}

\* Two groups that begin at one address.
Adjacent == {<<Registers(0, 0, 1), Registers(0, 3, 1), Registers(3, 0, 2)>>}

\* A bit range that goes beyond bit 63.
Wide == {<<[Registers(0, 0, 5) EXCEPT !.startBit = 60]>>}

ManyCoils == {<<[Coils(0, 0, c) EXCEPT !.writeFC = 15, !.access = "rw"]>> : c \in {1, 4, 9}}

WriteOnlyCoil == {<<[Coils(0, 0, 1) EXCEPT !.readFC = 0, !.writeFC = 5, !.access = "w"]>>}
=============================================================================

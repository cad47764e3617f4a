------------------------- MODULE ModbusServerProofs -------------------------
(***************************************************************************)
(* Proofs about ModbusServer, for every backend, mapping, set of requests  *)
(* and number of them: accesses stay in the tables, what is legal is       *)
(* executed, what a client builds flushes only if it asks for nothing,     *)
(* clients accept what is sent, and the server implements RegisterStore.   *)
(***************************************************************************)
EXTENDS ModbusServer, ModbusClientProofs

----------------------------------------------------------------------------
\* Requests.

LEMMA MessageFields ==
    ASSUME NEW q \in Messages
    PROVE  /\ q.fc \in Nat /\ q.fc <= 255 /\ q.slave \in Nat
           /\ q.addr \in Nat /\ q.nb \in Nat /\ q.waddr \in Nat /\ q.wnb \in Nat
           /\ q.value \in Word /\ q.mask \in Word
           /\ q.data \in Seq(OneByte) /\ Len(q.data) \in Nat
           /\ \A i \in 1 .. Len(q.data) : q.data[i] \in OneByte
  <1>1. q \in RequestType
    BY ModbusServerAssumption
  <1>2. /\ q.slave \in Byte /\ q.fc \in Byte
        /\ q.addr \in TwoBytes /\ q.nb \in TwoBytes /\ q.waddr \in TwoBytes /\ q.wnb \in TwoBytes
        /\ q.value \in Word /\ q.mask \in Word /\ q.data \in Bytes
    BY <1>1 DEF RequestType
  <1>3. /\ \A b \in Byte : b \in Nat /\ b <= 255
        /\ \A b \in TwoBytes : b \in Nat
    BY DEF Byte, TwoBytes
  <1>4. \A d \in Bytes :
          d \in Seq(OneByte) /\ Len(d) \in Nat /\ \A i \in 1 .. Len(d) : d[i] \in OneByte
    BY DEF Bytes
  <1> QED
    BY <1>2, <1>3, <1>4

LEMMA TableType == ASSUME NEW fc PROVE Table(fc) \in Tables
  BY DEF Table, Tables

LEMMA MappingSizes ==
    ASSUME NEW t \in Tables
    PROVE  Start[t] \in Nat /\ Size[t] \in Nat
  BY ModbusServerAssumption

\* What the guards of modbus_reply leave of a request, code by code.
LEMMA AcceptedFacts ==
    ASSUME NEW q \in Messages, Accepted(q)
    PROVE  /\ q.fc \in {1, 2, 3, 4, 5, 6, 15, 16, 17, 22, 23}
           /\ q.fc \in {1, 2} => 1 <= q.nb /\ q.nb <= 2000
           /\ q.fc \in {3, 4} => 1 <= q.nb /\ q.nb <= 125
           /\ q.fc = 15 => 1 <= q.nb /\ q.nb <= 1968 /\ q.nb <= 8 * Len(q.data)
           /\ q.fc = 16 => 1 <= q.nb /\ q.nb <= 123 /\ Len(q.data) = 2 * q.nb
           /\ q.fc = 23 => /\ 1 <= q.nb /\ q.nb <= 125 /\ 1 <= q.wnb /\ q.wnb <= 121
                           /\ Len(q.data) = 2 * q.wnb
                           /\ ~Beyond("registers", q.waddr, q.wnb)
           /\ Extent(q) > 0 => ~Beyond(Table(q.fc), q.addr, Extent(q))
           /\ q.fc = 5 => q.value \in {8 .. 15, {}}
  <1>1. q.nb \in Nat /\ q.wnb \in Nat /\ Len(q.data) \in Nat
    BY MessageFields
  <1>2. q.fc \in {1, 2, 3, 4, 5, 6, 15, 16, 17, 22, 23}
    BY DEF Accepted, KnownCodes, NotImplementedCode, RepeatingCodes, ReadBits, ReadRegisters,
           WriteSingle, WriteBits, WriteRegisters, ReportSlaveId, MaskWrite, WriteAndRead
  <1>3. ~BadQuantity(q) /\ ~BadAddress(q) /\ ~BadValue(q)
    BY DEF Accepted, Flushes
  <1>4. /\ q.fc \in {1, 2} => 1 <= q.nb /\ q.nb <= 2000
        /\ q.fc \in {3, 4} => 1 <= q.nb /\ q.nb <= 125
    BY <1>1, <1>3 DEF BadQuantity, ReadBits, ReadRegisters, MaxReadBits, MaxReadRegisters
  <1>5. q.fc = 15 => 1 <= q.nb /\ q.nb <= 1968 /\ q.nb <= 8 * Len(q.data)
    BY <1>1, <1>3 DEF BadQuantity, WriteBits, MaxWriteBits
  <1>6. q.fc = 16 => 1 <= q.nb /\ q.nb <= 123 /\ Len(q.data) = 2 * q.nb
    BY <1>1, <1>3 DEF BadQuantity, WriteRegisters, MaxWriteRegisters
  <1>7. q.fc = 23 => /\ 1 <= q.nb /\ q.nb <= 125 /\ 1 <= q.wnb /\ q.wnb <= 121
                     /\ Len(q.data) = 2 * q.wnb
    BY <1>1, <1>3 DEF BadQuantity, WriteAndRead, MaxWrWriteRegisters, MaxReadRegisters
  <1>8. /\ q.fc = 23 => ~Beyond("registers", q.waddr, q.wnb)
        /\ Extent(q) > 0 => ~Beyond(Table(q.fc), q.addr, Extent(q))
    BY <1>3 DEF BadAddress, WriteAndRead
  <1>9. q.fc = 5 => q.value \in {8 .. 15, {}}
    BY <1>3 DEF BadValue
  <1> QED
    BY <1>2, <1>4, <1>5, <1>6, <1>7, <1>8, <1>9

\* The values a known request is about, by its code.
LEMMA ExtentByCode ==
    ASSUME NEW q
    PROVE  /\ q.fc \in {1, 2, 3, 4, 15, 16, 23} => Extent(q) = q.nb
           /\ q.fc \in {5, 6, 22} => Extent(q) = 1
           /\ q.fc = 17 => Extent(q) = 0
  BY DEF Extent, KnownCodes, NotImplementedCode, RepeatingCodes, ReadBits, ReadRegisters,
         WriteSingle, WriteBits, WriteRegisters, ReportSlaveId, MaskWrite, WriteAndRead

LEMMA Within ==
    ASSUME NEW t \in Tables, NEW a \in Nat, NEW n \in Nat, ~Beyond(t, a, n)
    PROVE  a - Start[t] \in Nat /\ (a - Start[t]) + n <= Size[t]
  BY MappingSizes DEF Beyond

\* The elements an accepted request reads, or writes, are of its table.
LEMMA AccessWithin ==
    ASSUME NEW q \in Messages, Accepted(q)
    PROVE  /\ q.fc # 17 => /\ q.addr - Start[Table(q.fc)] \in Nat
                           /\ (q.addr - Start[Table(q.fc)]) + Extent(q) <= Size[Table(q.fc)]
           /\ q.fc = 23 => /\ q.waddr - Start["registers"] \in Nat
                           /\ (q.waddr - Start["registers"]) + q.wnb <= Size["registers"]
  <1>1. q.addr \in Nat /\ q.waddr \in Nat /\ q.wnb \in Nat /\ q.nb \in Nat
    BY MessageFields
  <1>2. Table(q.fc) \in Tables /\ "registers" \in Tables
    BY TableType DEF Tables
  <1>3. ASSUME q.fc # 17 PROVE Extent(q) \in Nat /\ Extent(q) > 0
    BY <1>1, <1>3, AcceptedFacts, ExtentByCode
  <1>4. ASSUME q.fc # 17
        PROVE  /\ q.addr - Start[Table(q.fc)] \in Nat
               /\ (q.addr - Start[Table(q.fc)]) + Extent(q) <= Size[Table(q.fc)]
    <2>1. ~Beyond(Table(q.fc), q.addr, Extent(q))
      BY <1>3, <1>4, AcceptedFacts
    <2> QED
      BY <1>1, <1>2, <1>3, <1>4, <2>1, Within
  <1>5. ASSUME q.fc = 23
        PROVE  /\ q.waddr - Start["registers"] \in Nat
               /\ (q.waddr - Start["registers"]) + q.wnb <= Size["registers"]
    <2>1. ~Beyond("registers", q.waddr, q.wnb)
      BY <1>5, AcceptedFacts
    <2> QED
      BY <1>1, <1>2, <2>1, Within
  <1> QED
    BY <1>4, <1>5

----------------------------------------------------------------------------
\* Legal requests.

LEMMA LegalRange ==
    ASSUME NEW r \in LegalRequests
    PROVE  /\ r.fc \in {1, 2, 3, 4, 5, 6, 15, 16, 17, 22, 23}
           /\ r.fc \in {1, 2} => r.nb \in 0 .. 2000
           /\ r.fc \in {3, 4, 23} => r.nb \in 0 .. 125
           /\ r.fc = 15 => r.nb \in 0 .. 1968
           /\ r.fc = 16 => r.nb \in 0 .. 123
           /\ r.fc = 23 => r.write \in 0 .. 121
  BY DEF LegalRequests, ReadBits, ReadRegisters, WriteSingle, WriteBits, WriteRegisters,
         ReportSlaveId, MaskWrite, WriteAndRead

LEMMA LegalFacts ==
    ASSUME NEW q \in Messages, LegalNumbers(q)
    PROVE  /\ q.fc \in {1, 2, 3, 4, 5, 6, 15, 16, 17, 22, 23}
           /\ q.fc \in {1, 2} => 1 <= q.nb /\ q.nb <= 2000
           /\ q.fc \in {3, 4, 23} => 1 <= q.nb /\ q.nb <= 125
           /\ q.fc = 15 => 1 <= q.nb /\ q.nb <= 1968 /\ Len(q.data) = BitBytes(q.nb)
           /\ q.fc = 16 => 1 <= q.nb /\ q.nb <= 123 /\ Len(q.data) = 2 * q.nb
           /\ q.fc = 23 => 1 <= q.wnb /\ q.wnb <= 121 /\ Len(q.data) = 2 * q.wnb
  <1>1. q.nb \in Nat /\ q.wnb \in Nat
    BY MessageFields
  <1>2. Numbers(q) \in LegalRequests
    BY DEF LegalNumbers, ClientNumbers
  <1>3. Numbers(q).fc = q.fc /\ Numbers(q).nb = q.nb /\ Numbers(q).write = q.wnb
    BY DEF Numbers
  <1>4. /\ q.fc \in {1, 2, 3, 4, 5, 6, 15, 16, 17, 22, 23}
        /\ q.fc \in {1, 2} => q.nb \in 0 .. 2000
        /\ q.fc \in {3, 4, 23} => q.nb \in 0 .. 125
        /\ q.fc = 15 => q.nb \in 0 .. 1968
        /\ q.fc = 16 => q.nb \in 0 .. 123
        /\ q.fc = 23 => q.wnb \in 0 .. 121
    BY <1>2, <1>3, LegalRange
  <1>5. /\ q.fc \in {1, 2, 3, 4, 15, 16, 23} => q.nb > 0
        /\ q.fc = 15 => Len(q.data) = BitBytes(q.nb)
        /\ q.fc = 16 => Len(q.data) = 2 * q.nb
        /\ q.fc = 23 => q.wnb > 0 /\ Len(q.data) = 2 * q.wnb
    <2>1. /\ ~(q.fc \in {1, 2, 3, 4, 15, 16, 23} /\ q.nb = 0)
          /\ ~(q.fc = 23 /\ q.wnb = 0)
      BY DEF LegalNumbers, OfNothing, ReadingCodes, ReadBits, ReadRegisters, WriteBits,
             WriteRegisters, WriteAndRead
    <2>2. /\ q.fc = 15 => Len(q.data) = BitBytes(q.nb)
          /\ q.fc = 16 => Len(q.data) = 2 * q.nb
          /\ q.fc = 23 => Len(q.data) = 2 * q.wnb
      BY DEF LegalNumbers, ClientNumbers, WriteBits, WriteRegisters, WriteAndRead
    <2>3. \A n \in Nat : n # 0 => n > 0
      OBVIOUS
    <2> QED
      BY <1>1, <2>1, <2>2, <2>3
  <1>6. \A n \in Nat : n > 0 => 1 <= n
    OBVIOUS
  <1>8. /\ q.fc \in {1, 2} => q.nb <= 2000
        /\ q.fc \in {3, 4, 23} => q.nb <= 125
    BY <1>4
  <1>9. /\ q.fc = 15 => q.nb <= 1968
        /\ q.fc = 16 => q.nb <= 123
        /\ q.fc = 23 => q.wnb <= 121
    BY <1>4
  <1>10. /\ q.fc \in {1, 2, 3, 4, 15, 16, 23} => 1 <= q.nb
         /\ q.fc = 23 => 1 <= q.wnb
    BY <1>1, <1>5, <1>6
  <1> QED
    BY <1>4, <1>5, <1>8, <1>9, <1>10

\* A legal request flushes nothing.
LEMMA LegalNeverFlushes ==
    ASSUME NEW q \in Messages, LegalNumbers(q)
    PROVE  ~Flushes(q) /\ q.fc \in KnownCodes \ {NotImplementedCode}
  <1>1. q.nb \in Nat /\ q.wnb \in Nat /\ Len(q.data) \in Nat
    BY MessageFields
  <1>2. q.nb <= 8 * BitBytes(q.nb)
    BY <1>1, BitBytesNat
  <1>3. q.fc \in KnownCodes \ {NotImplementedCode}
    BY LegalFacts DEF KnownCodes, NotImplementedCode, RepeatingCodes, ReadBits, ReadRegisters,
           WriteSingle, WriteBits, WriteRegisters, ReportSlaveId, MaskWrite, WriteAndRead
  <1>4. ~(q.fc \in ReadBits /\ (q.nb < 1 \/ MaxReadBits < q.nb))
    BY <1>1, LegalFacts DEF ReadBits, MaxReadBits
  <1>5. ~(q.fc \in ReadRegisters /\ (q.nb < 1 \/ MaxReadRegisters < q.nb))
    BY <1>1, LegalFacts DEF ReadRegisters, MaxReadRegisters
  <1>6. ~(q.fc = WriteBits /\ (q.nb < 1 \/ MaxWriteBits < q.nb \/ 8 * Len(q.data) < q.nb))
    BY <1>1, <1>2, LegalFacts DEF WriteBits, MaxWriteBits
  <1>7. ~(q.fc = WriteRegisters
            /\ (q.nb < 1 \/ MaxWriteRegisters < q.nb \/ Len(q.data) # 2 * q.nb))
    BY <1>1, LegalFacts DEF WriteRegisters, MaxWriteRegisters
  <1>8. q.fc = WriteAndRead => /\ ~(q.wnb < 1) /\ ~(MaxWrWriteRegisters < q.wnb)
                               /\ ~(q.nb < 1) /\ ~(MaxReadRegisters < q.nb)
                               /\ Len(q.data) = 2 * q.wnb
    BY <1>1, LegalFacts DEF WriteAndRead, MaxWrWriteRegisters, MaxReadRegisters
  <1>9. ~BadQuantity(q)
    BY <1>4, <1>5, <1>6, <1>7, <1>8, Zenon DEF BadQuantity
  <1> QED
    BY <1>3, <1>9 DEF Flushes

\* Addresses that are all in a table are not beyond it.
LEMMA SpanWithin ==
    ASSUME NEW t \in Tables, NEW a \in Nat, NEW n \in Nat, n > 0,
           Span(a, n) \subseteq Span(Start[t], Size[t])
    PROVE  ~Beyond(t, a, n)
  <1>1. a \in Span(a, n) /\ (a + n) - 1 \in Span(a, n)
    BY DEF Span
  <1>2. a \in Span(Start[t], Size[t]) /\ (a + n) - 1 \in Span(Start[t], Size[t])
    BY <1>1
  <1> QED
    BY <1>2, MappingSizes DEF Span, Beyond

\* A request with legal numbers, addresses in the tables and, for a coil, one of its two
\* values, passes every check.
LEMMA LegalAccepted ==
    ASSUME NEW q \in Messages, LegalNumbers(q), InStore(q), q.fc = 5 => q.value \in {8 .. 15, {}}
    PROVE  Accepted(q)
  <1>1. q.addr \in Nat /\ q.waddr \in Nat /\ q.nb \in Nat /\ q.wnb \in Nat
    BY MessageFields
  <1>2. Table(q.fc) \in Tables /\ "registers" \in Tables
    BY TableType DEF Tables
  <1>3. ~(Extent(q) > 0 /\ Beyond(Table(q.fc), q.addr, Extent(q)))
    <2> SUFFICES ASSUME Extent(q) > 0 PROVE ~Beyond(Table(q.fc), q.addr, Extent(q))
      OBVIOUS
    <2>1. Extent(q) \in Nat
      BY <1>1 DEF Extent
    <2>2. Span(q.addr, Extent(q)) \subseteq Span(Start[Table(q.fc)], Size[Table(q.fc)])
      BY DEF InStore
    <2> QED
      BY <1>1, <1>2, <2>1, <2>2, SpanWithin
  <1>4. ~(q.fc = WriteAndRead /\ Beyond("registers", q.waddr, q.wnb))
    <2> SUFFICES ASSUME q.fc = WriteAndRead PROVE ~Beyond("registers", q.waddr, q.wnb)
      OBVIOUS
    <2>1. q.wnb > 0
      BY <1>1, LegalFacts DEF WriteAndRead
    <2>2. Span(q.waddr, q.wnb) \subseteq Span(Start["registers"], Size["registers"])
      BY DEF InStore
    <2> QED
      BY <1>1, <1>2, <2>1, <2>2, SpanWithin
  <1>5. ~BadAddress(q)
    BY <1>3, <1>4 DEF BadAddress
  <1> QED
    BY <1>5, LegalNeverFlushes DEF Accepted, BadValue

----------------------------------------------------------------------------
\* What is executed keeps the tables what they are.

Values(t) == IF t \in BitTables THEN {ON, OFF} ELSE Word
Area(t) == [0 .. Size[t] - 1 -> Values(t)]

LEMMA TableKinds ==
    /\ \A fc \in {1, 5, 15} : Table(fc) = "bits"
    /\ Table(2) = "inputBits" /\ Table(4) = "inputRegisters"
    /\ \A fc \in {3, 6, 16, 17, 22, 23} : Table(fc) = "registers"
    /\ Values("bits") = {ON, OFF} /\ Values("inputBits") = {ON, OFF}
    /\ Values("registers") = Word /\ Values("inputRegisters") = Word
  BY DEF Table, Values, BitTables, WriteBits

LEMMA MaskedWordType ==
    ASSUME NEW old \in Word, NEW and \in Word, NEW or \in Word
    PROVE  MaskedWord(old, and, or) \in Word
  BY DEF MaskedWord, Word

\* The byte of bit i of nb bits from idx on is one of the nb bits'.
LEMMA ByteOfBit ==
    ASSUME NEW i \in Nat, NEW idx \in Nat, NEW nb \in Nat, idx <= i, i < idx + nb,
           NEW len \in Nat, nb <= 8 * len
    PROVE  (i - idx) \div 8 + 1 \in 1 .. len
  <1> DEFINE p == i - idx
  <1>1. p \in Nat /\ p < nb
    OBVIOUS
  <1>2. p \div 8 \in Nat /\ 8 * (p \div 8) <= p
    BY <1>1
  <1>3. 8 * (p \div 8) < 8 * len
    BY <1>1, <1>2
  <1> QED
    BY <1>2, <1>3

LEMMA SetBitsType ==
    ASSUME NEW D, NEW t \in [D -> {ON, OFF}], NEW idx, NEW nb, NEW bytes
    PROVE  SetBits(t, idx, nb, bytes) \in [D -> {ON, OFF}]
  BY DEF SetBits

LEMMA SetRegistersType ==
    ASSUME NEW z \in Nat, NEW t \in [0 .. z - 1 -> Word], NEW idx \in Nat, NEW nb \in Nat,
           NEW bytes, NEW len \in Nat, \A i \in 1 .. len : bytes[i] \in OneByte, 2 * nb <= len
    PROVE  SetRegisters(t, idx, nb, bytes) \in [0 .. z - 1 -> Word]
  <1>1. ASSUME NEW i \in 0 .. z - 1, idx <= i, i < idx + nb
        PROVE  WordOf(bytes[2 * (i - idx) + 1], bytes[2 * (i - idx) + 2]) \in Word
    <2>1. i - idx \in Nat /\ 2 * (i - idx) + 1 \in 1 .. len /\ 2 * (i - idx) + 2 \in 1 .. len
      BY <1>1
    <2> QED
      BY <2>1, WordOfType
  <1> QED
    BY <1>1 DEF SetRegisters

LEMMA ExecutedType ==
    ASSUME NEW q \in Messages, Accepted(q), mapping[Table(q.fc)] \in Area(Table(q.fc))
    PROVE  Executed(q) \in Area(Table(q.fc))
  <1> DEFINE t == mapping[Table(q.fc)]
             at == q.addr - Start[Table(q.fc)]
             z == Size[Table(q.fc)]
  <1>1. /\ q.nb \in Nat /\ q.wnb \in Nat /\ q.value \in Word /\ q.mask \in Word
        /\ Len(q.data) \in Nat /\ \A i \in 1 .. Len(q.data) : q.data[i] \in OneByte
    BY MessageFields
  <1>2. q.fc # 17 => at \in Nat /\ at + Extent(q) <= z
    BY AccessWithin
  <1>3. z \in Nat
    BY TableType, MappingSizes
  <1>4. CASE q.fc = 5
    <2>1. CoilOf(q.value) \in {ON, OFF} /\ Table(q.fc) = "bits"
      BY <1>4, TableKinds DEF CoilOf
    <2> QED
      BY <1>4, <2>1, TableKinds DEF Executed, Area
  <1>5. CASE q.fc = 6
    <2>1. Table(q.fc) = "registers"
      BY <1>5, TableKinds
    <2> QED
      BY <1>5, <1>1, <2>1, TableKinds DEF Executed, Area
  <1>6. CASE q.fc = 15
    <2>1. Table(q.fc) = "bits" /\ Executed(q) = SetBits(t, at, q.nb, q.data)
      BY <1>6, TableKinds DEF Executed, WriteBits
    <2>2. t \in [0 .. z - 1 -> {ON, OFF}]
      BY <2>1, TableKinds DEF Area
    <2>3. SetBits(t, at, q.nb, q.data) \in [0 .. z - 1 -> {ON, OFF}]
      BY <2>2, SetBitsType
    <2> QED
      BY <2>1, <2>3, TableKinds DEF Area
  <1>7. CASE q.fc = 16
    <2>1. Table(q.fc) = "registers" /\ Executed(q) = SetRegisters(t, at, q.nb, q.data)
      BY <1>7, TableKinds DEF Executed, WriteBits, WriteRegisters
    <2>2. 2 * q.nb <= Len(q.data)
      BY <1>1, <1>7, AcceptedFacts
    <2>3. at \in Nat /\ t \in [0 .. z - 1 -> Word]
      BY <1>2, <1>7, <2>1, TableKinds DEF Area
    <2>4. SetRegisters(t, at, q.nb, q.data) \in [0 .. z - 1 -> Word]
      BY <1>1, <1>3, <2>2, <2>3, SetRegistersType
    <2> QED
      BY <2>1, <2>4, TableKinds DEF Area
  <1>8. CASE q.fc = 22
    <2>1. /\ Table(q.fc) = "registers"
          /\ Executed(q) = [t EXCEPT ![at] = MaskedWord(t[at], q.value, q.mask)]
      BY <1>8, TableKinds DEF Executed, WriteBits, WriteRegisters, MaskWrite
    <2>2. at \in 0 .. z - 1
      BY <1>2, <1>3, <1>8, ExtentByCode
    <2>3. MaskedWord(t[at], q.value, q.mask) \in Word
      BY <1>1, <2>1, <2>2, MaskedWordType, TableKinds DEF Area
    <2> QED
      BY <2>1, <2>3, TableKinds DEF Area
  <1>9. CASE q.fc = 23
    <2> DEFINE wat == q.waddr - Start["registers"]
    <2>1. /\ Table(q.fc) = "registers" /\ Executed(q) = SetRegisters(t, wat, q.wnb, q.data)
      BY <1>9, TableKinds DEF Executed, WriteBits, WriteRegisters, MaskWrite, WriteAndRead
    <2>2. 2 * q.wnb <= Len(q.data) /\ wat \in Nat
      BY <1>1, <1>9, AcceptedFacts, AccessWithin
    <2>3. t \in [0 .. z - 1 -> Word]
      BY <2>1, TableKinds DEF Area
    <2>4. SetRegisters(t, wat, q.wnb, q.data) \in [0 .. z - 1 -> Word]
      BY <1>1, <1>3, <2>2, <2>3, SetRegistersType
    <2> QED
      BY <2>1, <2>4, TableKinds DEF Area
  <1>10. CASE q.fc \notin {5, 6, 15, 16, 22, 23}
    BY <1>10 DEF Executed, WriteBits, WriteRegisters, MaskWrite, WriteAndRead
  <1> QED
    BY <1>4, <1>5, <1>6, <1>7, <1>8, <1>9, <1>10

----------------------------------------------------------------------------
\* The inductive invariant.

Entries == [n : Nat, q : Messages]

MapInv ==
    /\ mapping = [t \in Tables |-> mapping[t]]
    /\ \A t \in Tables : mapping[t] \in Area(t)

\* Requests are numbered as they come in, and taken in that order.
Taken == Len(outcome) - Len(line)

QueueInv ==
    /\ line \in Seq(Entries) /\ outcome \in Seq(Outcomes) /\ Len(line) <= Len(outcome)
    /\ \A i \in 1 .. Len(line) : line[i].n = Taken + i
    /\ pc \in {"receive", "sleep"}
    /\ pc = "receive" => sleeper = NoRequest
    /\ pc = "sleep" => /\ sleeper \in Entries /\ sleeper.n \in 1 .. Taken
                      /\ Flushes(sleeper.q)

\* Bytes of data in the reply to q.
DataBytes(q) ==
    IF q.fc \in ReadBits THEN BitBytes(q.nb)
    ELSE IF q.fc \in ReadRegisters \union {WriteAndRead} THEN 2 * q.nb
    ELSE IF q.fc = ReportSlaveId THEN 10
    ELSE 0

GoodReply(q, r) ==
    r.fc = q.fc /\ r.code = 0 /\ r.echo = Repeated(q) /\ Len(r.data) = DataBytes(q)

GoodException(q, r) ==
    r.fc = (q.fc + Exception) % 256 /\ r.code \in 1 .. ExceptionMax - 1

\* What was sent last answers a request that was taken, as its outcome says.
ReplyInv ==
    reply # NoReply =>
        /\ req \in Entries /\ req.n \in 1 .. Taken
        /\ IF outcome[req.n] = "served"
             THEN Accepted(req.q) /\ GoodReply(req.q, reply)
             ELSE GoodException(req.q, reply)

IInv == MapInv /\ QueueInv /\ ReplyInv

LEMMA ReplyDataBytes ==
    ASSUME NEW q \in Messages, NEW t
    PROVE  Len(ReplyData(q, t)) = DataBytes(q)
  <1>1. q.nb \in Nat /\ BitBytes(q.nb) \in Nat
    <2>1. q.nb \in Nat
      BY MessageFields
    <2> QED
      BY <2>1, BitBytesNat
  <1>2. CASE q.fc \in ReadBits
    BY <1>1, <1>2 DEF ReplyData, DataBytes, IoStatus
  <1>3. CASE q.fc \notin ReadBits /\ q.fc \in ReadRegisters \union {WriteAndRead}
    BY <1>1, <1>3 DEF ReplyData, DataBytes, RegisterBytes
  <1>4. CASE q.fc \notin ReadBits /\ q.fc \notin ReadRegisters \union {WriteAndRead}
    BY <1>4 DEF ReplyData, DataBytes, SlaveIdBytes
  <1> QED
    BY <1>2, <1>3, <1>4

LEMMA InitInvariant == Init => IInv
  <1> SUFFICES ASSUME Init PROVE IInv
    OBVIOUS
  <1>1. MapInv
    <2>1. {} \in Word /\ {} \in {ON, OFF}
      BY DEF Word, ON, OFF
    <2>2. \A t \in Tables : [i \in 0 .. Size[t] - 1 |-> {}] \in Area(t)
      BY <2>1 DEF Area, Values
    <2> QED
      BY <2>2 DEF Init, MapInv
  <1>2. QueueInv
    BY DEF Init, QueueInv, Taken
  <1>3. ReplyInv
    BY DEF Init, ReplyInv
  <1> QED
    BY <1>1, <1>2, <1>3 DEF IInv

\* The request the loop takes.
LEMMA FirstFacts ==
    ASSUME QueueInv, line # <<>>
    PROVE  /\ First \in Entries /\ First.q \in Messages /\ First.n = Taken + 1
           /\ First.n \in 1 .. Len(outcome)
  <1>1. First = line[1] /\ Len(line) >= 1 /\ line[1] \in Entries
    BY DEF QueueInv, First
  <1>2. First.n = Taken + 1
    BY <1>1 DEF QueueInv
  <1>3. Taken \in Nat /\ Taken + 1 <= Len(outcome)
    BY <1>1 DEF QueueInv, Taken
  <1> QED
    BY <1>1, <1>2, <1>3 DEF Entries

LEMMA ExceptSeqType ==
    ASSUME NEW S, NEW s \in Seq(S), NEW i, NEW v \in S
    PROVE  /\ [s EXCEPT ![i] = v] \in Seq(S) /\ Len([s EXCEPT ![i] = v]) = Len(s)
           /\ Len(s) \in Nat
  <1> DEFINE r == [s EXCEPT ![i] = v]
  <1>1. Len(s) \in Nat /\ s \in [1 .. Len(s) -> S]
    OBVIOUS
  <1>2. r \in [1 .. Len(s) -> S]
    BY <1>1
  <1>3. r \in Seq(S)
    BY <1>1, <1>2
  <1>4. DOMAIN r = 1 .. Len(s) /\ DOMAIN r = 1 .. Len(r) /\ Len(r) \in Nat
    BY <1>2, <1>3
  <1>5. Len(r) = Len(s)
    BY <1>1, <1>4
  <1> QED
    BY <1>1, <1>3, <1>5

\* Taking a request leaves the others numbered, and the outcomes of those taken before.
LEMMA TakeFacts ==
    ASSUME QueueInv, NEW o \in Outcomes, Take(o)
    PROVE  /\ line' \in Seq(Entries) /\ outcome' \in Seq(Outcomes)
           /\ Len(line') <= Len(outcome') /\ Taken' = Taken + 1 /\ Taken \in Nat
           /\ \A i \in 1 .. Len(line') : line'[i].n = Taken' + i
           /\ outcome'[First.n] = o
           /\ \A n \in 1 .. Taken : outcome'[n] = outcome[n]
  <1>1. line # <<>> /\ line' = Tail(line) /\ outcome' = [outcome EXCEPT ![First.n] = o]
    BY DEF Take
  <1>2. First.n = Taken + 1 /\ First.n \in 1 .. Len(outcome)
    BY <1>1, FirstFacts
  <1>3. line \in Seq(Entries) /\ outcome \in Seq(Outcomes) /\ Len(line) <= Len(outcome)
    BY DEF QueueInv
  <1>4. /\ line' \in Seq(Entries) /\ Len(line') = Len(line) - 1 /\ Len(line) \in Nat
        /\ \A i \in 1 .. Len(line') : line'[i] = line[i + 1]
    BY <1>1, <1>3
  <1>5. outcome' \in Seq(Outcomes) /\ Len(outcome') = Len(outcome) /\ Len(outcome) \in Nat
    BY <1>1, <1>3, ExceptSeqType
  <1>6. Taken' = Taken + 1 /\ Taken \in Nat
    <2>1. Len(line) \in Nat /\ Len(outcome) \in Nat /\ Len(line) <= Len(outcome)
      BY <1>3, <1>4, <1>5
    <2>2. Taken' = Len(outcome) - (Len(line) - 1)
      BY <1>4, <1>5 DEF Taken
    <2> QED
      BY <2>1, <2>2 DEF Taken
  <1>7. \A i \in 1 .. Len(line') : line'[i].n = Taken' + i
    <2>1. ASSUME NEW i \in 1 .. Len(line') PROVE line'[i].n = Taken' + i
      <3>1. i + 1 \in 1 .. Len(line)
        BY <1>4
      <3>2. line[i + 1].n = Taken + (i + 1)
        BY <3>1 DEF QueueInv
      <3> QED
        BY <1>4, <1>6, <3>2
    <2> QED
      BY <2>1
  <1>8. outcome'[First.n] = o /\ \A n \in 1 .. Taken : outcome'[n] = outcome[n]
    <2>1. \A n \in 1 .. Taken : n # First.n /\ n \in 1 .. Len(outcome)
      BY <1>2, <1>3, <1>6 DEF Taken
    <2>2. DOMAIN outcome = 1 .. Len(outcome)
      BY <1>3
    <2> QED
      BY <1>1, <1>2, <2>1, <2>2
  <1> QED
    BY <1>3, <1>4, <1>5, <1>6, <1>7, <1>8

LEMMA SendFacts ==
    ASSUME NEW e, NEW r, Send(e, r)
    PROVE  req' = e /\ reply' \in {r, NoReply}
  BY DEF Send

LEMMA ResponseFacts ==
    ASSUME NEW q \in Messages, NEW t, NEW code \in 1 .. ExceptionMax - 1
    PROVE  GoodReply(q, Response(q, t)) /\ GoodException(q, ResponseException(q, code))
  BY ReplyDataBytes DEF GoodReply, GoodException, Response, ResponseException

LEMMA ArriveInvariant ==
    ASSUME IInv, NEW q \in Messages, Arrive(q)
    PROVE  IInv'
  <1>1. /\ line \in Seq(Entries) /\ outcome \in Seq(Outcomes) /\ Len(line) <= Len(outcome)
        /\ Len(line) \in Nat /\ Len(outcome) \in Nat
    BY DEF IInv, QueueInv
  <1> DEFINE e == [n |-> Len(outcome) + 1, q |-> q]
  <1>2. e \in Entries /\ "waiting" \in Outcomes
    BY <1>1 DEF Entries, Outcomes
  <1>3. line' = Append(line, e) /\ outcome' = Append(outcome, "waiting")
    BY DEF Arrive
  <1>4. /\ line' \in Seq(Entries) /\ Len(line') = Len(line) + 1
        /\ \A i \in 1 .. Len(line) : line'[i] = line[i]
        /\ line'[Len(line) + 1] = e
    BY <1>1, <1>2, <1>3
  <1>5. /\ outcome' \in Seq(Outcomes) /\ Len(outcome') = Len(outcome) + 1
        /\ \A i \in 1 .. Len(outcome) : outcome'[i] = outcome[i]
    BY <1>1, <1>2, <1>3
  <1>6. Taken' = Taken /\ Taken \in Nat /\ Taken + Len(line) = Len(outcome)
    BY <1>1, <1>4, <1>5 DEF Taken
  <1>7. \A i \in 1 .. Len(line') : line'[i].n = Taken' + i
    <2>1. ASSUME NEW i \in 1 .. Len(line') PROVE line'[i].n = Taken' + i
      <3>1. CASE i \in 1 .. Len(line)
        BY <1>4, <1>6, <3>1 DEF IInv, QueueInv
      <3>2. CASE i = Len(line) + 1
        BY <1>1, <1>4, <1>6, <3>2
      <3> QED
        BY <1>1, <1>4, <3>1, <3>2
    <2> QED
      BY <2>1
  <1>8. UNCHANGED <<mapping, pc, sleeper, req, reply>>
    BY DEF Arrive
  <1>9. QueueInv'
    <2>1. Len(line') <= Len(outcome')
      BY <1>1, <1>4, <1>5
    <2>2. /\ pc' \in {"receive", "sleep"} /\ (pc' = "receive" => sleeper' = NoRequest)
          /\ (pc' = "sleep" => /\ sleeper' \in Entries /\ sleeper'.n \in 1 .. Taken'
                              /\ Flushes(sleeper'.q))
      BY <1>6, <1>8 DEF IInv, QueueInv
    <2> QED
      BY <1>4, <1>5, <1>7, <2>1, <2>2 DEF QueueInv
  <1>10. ReplyInv'
    <2> SUFFICES ASSUME reply' # NoReply
                 PROVE  /\ req' \in Entries /\ req'.n \in 1 .. Taken'
                        /\ IF outcome'[req'.n] = "served"
                             THEN Accepted(req'.q) /\ GoodReply(req'.q, reply')
                             ELSE GoodException(req'.q, reply')
      BY DEF ReplyInv
    <2>1. req \in Entries /\ req.n \in 1 .. Taken
      BY <1>8 DEF IInv, ReplyInv
    <2>2. outcome'[req.n] = outcome[req.n]
      BY <1>1, <1>5, <1>6, <2>1
    <2> QED
      BY <1>6, <1>8, <2>1, <2>2 DEF IInv, ReplyInv
  <1>11. MapInv'
    BY <1>8 DEF IInv, MapInv
  <1> QED
    BY <1>9, <1>10, <1>11 DEF IInv

\* What a step that takes the first request, and leaves pc, must show of its answer.
LEMMA TakeInvariant ==
    ASSUME IInv, NEW o \in Outcomes, Take(o), UNCHANGED <<pc, sleeper>>, MapInv',
           req' = First,
           reply' # NoReply => IF o = "served" THEN Accepted(First.q) /\ GoodReply(First.q, reply')
                               ELSE GoodException(First.q, reply')
    PROVE  IInv'
  <1>1. QueueInv /\ line # <<>> /\ pc = "receive"
    BY DEF IInv, Take
  <1>2. First \in Entries /\ First.n = Taken + 1
    BY <1>1, FirstFacts
  <1>3. /\ line' \in Seq(Entries) /\ outcome' \in Seq(Outcomes)
        /\ Len(line') <= Len(outcome') /\ Taken' = Taken + 1 /\ Taken \in Nat
        /\ \A i \in 1 .. Len(line') : line'[i].n = Taken' + i
        /\ outcome'[First.n] = o
    BY <1>1, TakeFacts
  <1>4. pc' = "receive" /\ sleeper' = NoRequest
    BY <1>1 DEF QueueInv
  <1>5. QueueInv'
    BY <1>3, <1>4 DEF QueueInv
  <1>6. First.n \in 1 .. Taken'
    BY <1>2, <1>3
  <1>7. ReplyInv'
    BY <1>2, <1>3, <1>6 DEF ReplyInv
  <1> QED
    BY <1>5, <1>7 DEF IInv

\* Storing a value of its kind in a table.
LEMMA StoredType ==
    ASSUME MapInv, NEW t \in Tables, NEW v \in Area(t), mapping' = [mapping EXCEPT ![t] = v]
    PROVE  MapInv'
  <1>1. DOMAIN mapping = Tables /\ \A u \in Tables : mapping[u] \in Area(u)
    BY DEF MapInv
  <1>2. \A u \in Tables : mapping'[u] = IF u = t THEN v ELSE mapping[u]
    BY <1>1
  <1>3. mapping' = [u \in Tables |-> mapping'[u]]
    BY <1>1
  <1>4. \A u \in Tables : mapping'[u] \in Area(u)
    BY <1>1, <1>2
  <1> QED
    BY <1>3, <1>4 DEF MapInv

LEMMA SampleInvariant ==
    ASSUME IInv, NEW t \in InputTables, NEW v \in Samples, 0 \in DOMAIN mapping[t], Sample(t, 0, v)
    PROVE  IInv'
  <1> DEFINE x == IF t = "inputBits" THEN v.bit ELSE v.word
  <1>1. t \in Tables /\ mapping[t] \in Area(t) /\ DOMAIN mapping = Tables
    BY DEF IInv, MapInv, InputTables, Tables
  <1>2. v.bit \in {ON, OFF} /\ v.word \in Word
    BY ModbusServerAssumption
  <1>3. x \in Values(t)
    BY <1>2 DEF Values, BitTables, InputTables
  <1>4. mapping' = [mapping EXCEPT ![t] = [mapping[t] EXCEPT ![0] = x]]
    BY DEF Sample
  <1>5. [mapping[t] EXCEPT ![0] = x] \in Area(t)
    BY <1>1, <1>3 DEF Area
  <1>6. MapInv'
    BY <1>1, <1>4, <1>5, StoredType DEF IInv
  <1>7. UNCHANGED <<line, pc, sleeper, req, reply, outcome>>
    BY DEF Sample
  <1>8. QueueInv'
    BY <1>7 DEF IInv, QueueInv, Taken
  <1>9. ReplyInv'
    BY <1>7 DEF IInv, ReplyInv, Taken
  <1> QED
    BY <1>6, <1>8, <1>9 DEF IInv

LEMMA ServeInvariant ==
    ASSUME IInv, Serve
    PROVE  IInv'
  <1> DEFINE q == First.q
             T == Table(q.fc)
  <1>1. QueueInv /\ MapInv /\ line # <<>>
    BY DEF IInv, Serve, Take
  <1>2. q \in Messages
    BY <1>1, FirstFacts
  <1>3. /\ Take("served") /\ Accepted(q) /\ UNCHANGED <<pc, sleeper>>
        /\ mapping' = [mapping EXCEPT ![T] = Executed(q)]
        /\ Send(First, Response(q, Executed(q)))
    BY DEF Serve
  <1>4. T \in Tables /\ mapping[T] \in Area(T)
    BY <1>1, TableType DEF MapInv
  <1>5. Executed(q) \in Area(T)
    BY <1>2, <1>3, <1>4, ExecutedType
  <1>6. MapInv'
    BY <1>1, <1>3, <1>4, <1>5, StoredType
  <1>7. req' = First /\ reply' \in {Response(q, Executed(q)), NoReply}
    BY <1>3, SendFacts
  <1>8. GoodReply(q, Response(q, Executed(q)))
    BY <1>2, ResponseFacts DEF ExceptionMax
  <1> QED
    BY <1>3, <1>6, <1>7, <1>8, TakeInvariant DEF Outcomes

LEMMA RefuseInvariant ==
    ASSUME IInv, Refuse
    PROVE  IInv'
  <1> DEFINE q == First.q
             code == IF BadAddress(q) THEN IllegalDataAddress ELSE IllegalDataValue
  <1>1. QueueInv /\ MapInv /\ line # <<>>
    BY DEF IInv, Refuse, Take
  <1>2. q \in Messages /\ code \in 1 .. ExceptionMax - 1
    BY <1>1, FirstFacts DEF ExceptionMax, IllegalDataAddress, IllegalDataValue
  <1>3. Take("refused") /\ UNCHANGED <<mapping, pc, sleeper>> /\ Send(First, ResponseException(q, code))
    BY DEF Refuse
  <1>4. MapInv'
    BY <1>1, <1>3 DEF MapInv
  <1>5. req' = First /\ reply' \in {ResponseException(q, code), NoReply}
    BY <1>3, SendFacts
  <1>6. GoodException(q, ResponseException(q, code))
    BY <1>2, ResponseFacts
  <1> QED
    BY <1>3, <1>4, <1>5, <1>6, TakeInvariant DEF Outcomes

LEMMA NotImplementedInvariant ==
    ASSUME IInv, NotImplemented
    PROVE  IInv'
  <1>1. /\ Take("unsupported") /\ UNCHANGED <<mapping, pc, sleeper>>
        /\ req' = First /\ reply' = NoReply
    BY DEF NotImplemented
  <1>2. MapInv'
    BY <1>1 DEF IInv, MapInv
  <1> QED
    BY <1>1, <1>2, TakeInvariant DEF Outcomes

LEMMA ReplyExceptionInvariant ==
    ASSUME IInv, NEW code \in RefusalCodes, ReplyException(code)
    PROVE  IInv'
  <1> DEFINE r == ResponseException(First.q, code)
  <1>1. QueueInv /\ MapInv /\ line # <<>>
    BY DEF IInv, ReplyException, Take
  <1>2. /\ Take("refused") /\ UNCHANGED <<mapping, pc, sleeper>> /\ req' = First
        /\ reply' \in IF code < ExceptionMax THEN {r, NoReply} ELSE {NoReply}
    BY DEF ReplyException
  <1>3. MapInv'
    BY <1>1, <1>2 DEF MapInv
  <1>4. First.q \in Messages
    BY <1>1, FirstFacts
  <1>5. code \in Nat /\ code # 0
    BY ModbusServerAssumption DEF Byte
  <1>6. code < ExceptionMax => GoodException(First.q, r)
    BY <1>4, <1>5, ResponseFacts DEF ExceptionMax
  <1>7. reply' # NoReply => code < ExceptionMax /\ reply' = r
    BY <1>2
  <1> QED
    BY <1>2, <1>3, <1>6, <1>7, TakeInvariant DEF Outcomes

LEMMA SleepInvariant ==
    ASSUME IInv, SleepBeforeFlush
    PROVE  IInv'
  <1>1. QueueInv /\ ReplyInv /\ MapInv /\ line # <<>>
    BY DEF IInv, SleepBeforeFlush, Take
  <1>2. /\ Take("waiting") /\ Flushes(First.q) /\ pc' = "sleep" /\ sleeper' = First
        /\ UNCHANGED <<mapping, req, reply>>
    BY DEF SleepBeforeFlush
  <1>3. First \in Entries /\ First.n = Taken + 1
    BY <1>1, FirstFacts
  <1>4. /\ line' \in Seq(Entries) /\ outcome' \in Seq(Outcomes)
        /\ Len(line') <= Len(outcome') /\ Taken' = Taken + 1 /\ Taken \in Nat
        /\ \A i \in 1 .. Len(line') : line'[i].n = Taken' + i
        /\ \A n \in 1 .. Taken : outcome'[n] = outcome[n]
    BY <1>1, <1>2, TakeFacts DEF Outcomes
  <1>5. QueueInv'
    <2>1. sleeper' \in Entries /\ sleeper'.n \in 1 .. Taken' /\ Flushes(sleeper'.q)
      BY <1>2, <1>3, <1>4
    <2> QED
      BY <1>2, <1>4, <2>1 DEF QueueInv
  <1>6. ReplyInv'
    <2> SUFFICES ASSUME reply' # NoReply
                 PROVE  /\ req' \in Entries /\ req'.n \in 1 .. Taken'
                        /\ IF outcome'[req'.n] = "served"
                             THEN Accepted(req'.q) /\ GoodReply(req'.q, reply')
                             ELSE GoodException(req'.q, reply')
      BY DEF ReplyInv
    <2>1. req \in Entries /\ req.n \in 1 .. Taken
      BY <1>1, <1>2 DEF ReplyInv
    <2>2. outcome'[req.n] = outcome[req.n] /\ req.n \in 1 .. Taken'
      BY <1>4, <2>1
    <2> QED
      BY <1>1, <1>2, <2>1, <2>2 DEF ReplyInv
  <1>7. MapInv'
    BY <1>1, <1>2 DEF MapInv
  <1> QED
    BY <1>5, <1>6, <1>7 DEF IInv

LEMMA FlushInvariant ==
    ASSUME IInv, FlushAndRefuse
    PROVE  IInv'
  <1> DEFINE q == sleeper.q
             code == IF q.fc \in KnownCodes THEN IllegalDataValue ELSE IllegalFunction
             end(n) == IF n = sleeper.n THEN "illegal"
                       ELSE IF \E i \in DOMAIN line : line[i].n = n THEN "dropped"
                       ELSE outcome[n]
  <1>1. QueueInv /\ MapInv
    BY DEF IInv
  <1>2. /\ pc = "sleep" /\ pc' = "receive" /\ line' = <<>> /\ sleeper' = NoRequest
        /\ outcome' = [n \in DOMAIN outcome |-> end(n)]
        /\ Send(sleeper, ResponseException(q, code)) /\ UNCHANGED mapping
    BY DEF FlushAndRefuse
  <1>3. /\ outcome \in Seq(Outcomes) /\ Len(line) \in Nat /\ Len(outcome) \in Nat
        /\ Len(line) <= Len(outcome)
    BY <1>1 DEF QueueInv
  <1>4. sleeper \in Entries /\ sleeper.n \in 1 .. Taken
    BY <1>1, <1>2 DEF QueueInv
  <1>5. q \in Messages /\ code \in 1 .. ExceptionMax - 1
    BY <1>4 DEF Entries, ExceptionMax, IllegalDataValue, IllegalFunction
  <1>6. outcome' \in Seq(Outcomes) /\ Len(outcome') = Len(outcome)
    <2>1. \A n \in 1 .. Len(outcome) : end(n) \in Outcomes
      BY <1>3 DEF Outcomes
    <2>2. DOMAIN outcome = 1 .. Len(outcome)
      BY <1>3
    <2>3. outcome' \in [1 .. Len(outcome) -> Outcomes]
      BY <1>2, <2>1, <2>2
    <2>4. outcome' \in Seq(Outcomes)
      BY <1>3, <2>3
    <2>5. DOMAIN outcome' = 1 .. Len(outcome) /\ DOMAIN outcome' = 1 .. Len(outcome')
          /\ Len(outcome') \in Nat
      BY <2>3, <2>4
    <2> QED
      BY <1>3, <2>4, <2>5
  <1>7. line' \in Seq(Entries) /\ Len(line') = 0 /\ Taken' = Len(outcome)
    BY <1>2, <1>3, <1>6 DEF Taken
  <1>8. QueueInv'
    BY <1>2, <1>3, <1>6, <1>7 DEF QueueInv
  <1>9. sleeper.n \in 1 .. Len(outcome)
    BY <1>3, <1>4 DEF Taken
  <1>10. outcome'[sleeper.n] = "illegal"
    BY <1>2, <1>3, <1>9
  <1>11. req' = sleeper /\ reply' \in {ResponseException(q, code), NoReply}
    BY <1>2, SendFacts
  <1>12. GoodException(q, ResponseException(q, code))
    BY <1>5, ResponseFacts
  <1>13. ReplyInv'
    BY <1>4, <1>7, <1>9, <1>10, <1>11, <1>12 DEF ReplyInv
  <1>14. MapInv'
    BY <1>1, <1>2 DEF MapInv
  <1> QED
    BY <1>8, <1>13, <1>14 DEF IInv

LEMMA NextInvariant == IInv /\ [Next]_vars => IInv'
  <1> SUFFICES ASSUME IInv, [Next]_vars PROVE IInv'
    OBVIOUS
  <1>1. CASE \E q \in Messages : Arrive(q)
    BY <1>1, ArriveInvariant
  <1>2. CASE \E t \in InputTables, v \in Samples : 0 \in DOMAIN mapping[t] /\ Sample(t, 0, v)
    BY <1>2, SampleInvariant
  <1>3. CASE Serve
    BY <1>3, ServeInvariant
  <1>4. CASE Refuse
    BY <1>4, RefuseInvariant
  <1>5. CASE NotImplemented
    BY <1>5, NotImplementedInvariant
  <1>6. CASE SleepBeforeFlush
    BY <1>6, SleepInvariant
  <1>7. CASE FlushAndRefuse
    BY <1>7, FlushInvariant
  <1>8. CASE \E code \in RefusalCodes : ReplyException(code)
    BY <1>8, ReplyExceptionInvariant
  <1>9. CASE UNCHANGED vars
    BY <1>9 DEF vars, IInv, MapInv, QueueInv, ReplyInv, Taken
  <1> QED
    BY <1>1, <1>2, <1>3, <1>4, <1>5, <1>6, <1>7, <1>8, <1>9 DEF Next

LEMMA Invariant == Spec => []IInv
  BY InitInvariant, NextInvariant, PTL DEF Spec

----------------------------------------------------------------------------
\* The properties.

LEMMA TypeFromInvariant == IInv => TypeOK
  <1> SUFFICES ASSUME IInv PROVE TypeOK
    OBVIOUS
  <1>1. QueueInv /\ MapInv
    BY DEF IInv
  <1>2. DOMAIN mapping = Tables
    BY <1>1 DEF MapInv
  <1>3. \A t \in Tables :
          mapping[t] \in [0 .. Size[t] - 1 -> IF t \in BitTables THEN {ON, OFF} ELSE Word]
    BY <1>1 DEF MapInv, Area, Values
  <1>4. /\ line \in Seq(Entries) /\ Len(line) \in Nat /\ DOMAIN line = 1 .. Len(line)
        /\ outcome \in Seq(Outcomes) /\ Len(outcome) \in Nat /\ DOMAIN outcome = 1 .. Len(outcome)
        /\ Len(line) <= Len(outcome)
    BY <1>1 DEF QueueInv
  <1>5. ASSUME NEW i \in DOMAIN line PROVE line[i].q \in Messages /\ line[i].n \in DOMAIN outcome
    <2>1. line[i] \in Entries /\ line[i].n = Taken + i
      BY <1>1, <1>4 DEF QueueInv
    <2>2. Taken + i \in 1 .. Len(outcome)
      BY <1>4 DEF Taken
    <2> QED
      BY <1>4, <2>1, <2>2 DEF Entries
  <1>6. pc \in {"receive", "sleep"} /\ (pc = "sleep" <=> sleeper # NoRequest)
    <2>1. pc = "sleep" => sleeper.n # 0
      BY <1>1, <1>4 DEF QueueInv, Taken
    <2>2. NoRequest.n = 0
      BY DEF NoRequest
    <2> QED
      BY <1>1, <2>1, <2>2 DEF QueueInv
  <1>7. \A n \in DOMAIN outcome : outcome[n] \in Outcomes
    BY <1>4
  <1> QED
    BY <1>2, <1>3, <1>5, <1>6, <1>7 DEF TypeOK

\* The tables keep their kinds and sizes, and the requests in the queue their numbers,
\* whatever requests come in.
THEOREM TypeCorrect == Spec => []TypeOK
  BY Invariant, TypeFromInvariant, PTL

\* What is executed asks for one value at least.
LEMMA NothingAccepted ==
    ASSUME NEW q \in Messages, Accepted(q)
    PROVE  ~OfNothing(q)
  <1>1. q.fc \in ReadingCodes \union {WriteBits, WriteRegisters} => 1 <= q.nb
    BY AcceptedFacts DEF ReadingCodes, ReadBits, ReadRegisters, WriteAndRead, WriteBits, WriteRegisters
  <1>2. q.fc = WriteAndRead => 1 <= q.wnb
    BY AcceptedFacts DEF WriteAndRead
  <1> QED
    BY <1>1, <1>2 DEF OfNothing

\* Of the requests that a client's functions build for 0 values or more, only those for 0
\* values are refused with a flush of the requests behind them; and no request for 0 values
\* is answered but with an exception.
THEOREM OnlyEmptyFlush == Spec => []OnlyEmptyOnesFlush
  <1>1. ASSUME IInv, pc = "sleep", ClientNumbers(sleeper.q) PROVE OfNothing(sleeper.q)
    <2>1. sleeper.q \in Messages /\ Flushes(sleeper.q)
      BY <1>1 DEF IInv, QueueInv, Entries
    <2>2. ~LegalNumbers(sleeper.q)
      BY <2>1, LegalNeverFlushes
    <2> QED
      BY <1>1, <2>2 DEF LegalNumbers
  <1>2. ASSUME IInv, reply # NoReply, OfNothing(req.q) PROVE outcome[req.n] # "served"
    <2>1. req.q \in Messages /\ (outcome[req.n] = "served" => Accepted(req.q))
      BY <1>2 DEF IInv, ReplyInv, Entries
    <2> QED
      BY <1>2, <2>1, NothingAccepted
  <1>3. IInv => OnlyEmptyOnesFlush
    BY <1>1, <1>2 DEF OnlyEmptyOnesFlush
  <1> QED
    BY <1>3, Invariant, PTL

\* No check of modbus_reply refuses a legal request for what is in the mapping.
THEOREM LegalAlwaysAccepted == Spec => []LegalIsAccepted
  <1>1. IInv => LegalIsAccepted
    <2> SUFFICES ASSUME IInv, pc = "receive", line # <<>>, LegalNumbers(First.q), InStore(First.q),
                        First.q.fc = 5 => First.q.value \in {8 .. 15, {}}
                 PROVE  Accepted(First.q)
      BY DEF LegalIsAccepted
    <2>1. First.q \in Messages
      BY FirstFacts DEF IInv
    <2> QED
      BY <2>1, LegalAccepted
  <1> QED
    BY <1>1, Invariant, PTL

\* Lengths of replies.
LEMMA ReplyFits ==
    ASSUME NEW q \in Messages, Accepted(q)
    PROVE  /\ DataBytes(q) \in 0 .. 250
           /\ Adu(Backend, 2 + DataBytes(q)) <= MaxAduLength(Backend)
  <1>1. q.nb \in Nat
    BY MessageFields
  <1>2. DataBytes(q) \in 0 .. 250
    <2>1. CASE q.fc \in ReadBits
      <3>1. q.nb <= 2000
        BY <2>1, AcceptedFacts DEF ReadBits
      <3>2. BitBytes(q.nb) \in 0 .. 250
        BY <1>1, <3>1 DEF BitBytes
      <3> QED
        BY <2>1, <3>2 DEF DataBytes
    <2>2. CASE q.fc \notin ReadBits /\ q.fc \in ReadRegisters \union {WriteAndRead}
      <3>1. q.nb <= 125
        BY <2>2, AcceptedFacts DEF ReadRegisters, WriteAndRead
      <3> QED
        BY <1>1, <2>2, <3>1 DEF DataBytes
    <2>3. CASE q.fc \notin ReadBits /\ q.fc \notin ReadRegisters \union {WriteAndRead}
      BY <2>3 DEF DataBytes
    <2> QED
      BY <2>1, <2>2, <2>3
  <1>3. Backend \in {"RTU", "TCP"}
    BY ModbusServerAssumption
  <1> QED
    BY <1>2, <1>3 DEF Adu, MaxAduLength, HeaderLength, ChecksumLength

LEMMA AcceptedInBounds ==
    ASSUME NEW q \in Messages, Accepted(q), NEW t, NEW D, D = 0 .. Size[Table(q.fc)] - 1,
           NEW R, R = 0 .. Size["registers"] - 1
    PROVE  /\ \A i \in 0 .. Extent(q) - 1 : q.addr - Start[Table(q.fc)] + i \in D
           /\ q.fc = WriteAndRead => \A i \in 0 .. q.wnb - 1 : q.waddr - Start["registers"] + i \in R
           /\ q.fc = WriteBits => BitBytes(q.nb) <= Len(q.data)
           /\ q.fc = WriteRegisters => 2 * q.nb <= Len(q.data)
           /\ q.fc = WriteAndRead => 2 * q.wnb <= Len(q.data)
           /\ Adu(Backend, 2 + Len(ReplyData(q, t))) <= MaxAduLength(Backend)
  <1>1. q.nb \in Nat /\ q.wnb \in Nat /\ Len(q.data) \in Nat /\ q.addr \in Nat /\ q.waddr \in Nat
    BY MessageFields
  <1>2. /\ Start[Table(q.fc)] \in Nat /\ Size[Table(q.fc)] \in Nat
        /\ Start["registers"] \in Nat /\ Size["registers"] \in Nat
    BY TableType, MappingSizes DEF Tables
  <1>3. ASSUME NEW i \in 0 .. Extent(q) - 1 PROVE q.addr - Start[Table(q.fc)] + i \in D
    <2>1. q.fc # 17
      BY ExtentByCode
    <2>2. Extent(q) \in Nat
      BY <1>1 DEF Extent
    <2>3. /\ q.addr - Start[Table(q.fc)] \in Nat
          /\ (q.addr - Start[Table(q.fc)]) + Extent(q) <= Size[Table(q.fc)]
      BY <2>1, AccessWithin
    <2> QED
      BY <1>2, <2>2, <2>3
  <1>4. ASSUME q.fc = WriteAndRead, NEW i \in 0 .. q.wnb - 1
        PROVE  q.waddr - Start["registers"] + i \in R
    <2>1. /\ q.waddr - Start["registers"] \in Nat
          /\ (q.waddr - Start["registers"]) + q.wnb <= Size["registers"]
      BY <1>4, AccessWithin DEF WriteAndRead
    <2>2. \A w \in Nat : w + q.wnb <= Size["registers"] => w + i \in 0 .. Size["registers"] - 1
      BY <1>1, <1>2
    <2> QED
      BY <2>1, <2>2
  <1>5. q.fc = WriteBits => BitBytes(q.nb) <= Len(q.data)
    <2> SUFFICES ASSUME q.fc = 15 PROVE BitBytes(q.nb) <= Len(q.data)
      BY DEF WriteBits
    <2>1. q.nb <= 8 * Len(q.data)
      BY AcceptedFacts
    <2> QED
      BY <1>1, <2>1 DEF BitBytes
  <1>6. /\ q.fc = WriteRegisters => 2 * q.nb <= Len(q.data)
        /\ q.fc = WriteAndRead => 2 * q.wnb <= Len(q.data)
    BY <1>1, AcceptedFacts DEF WriteRegisters, WriteAndRead
  <1>7. Adu(Backend, 2 + Len(ReplyData(q, t))) <= MaxAduLength(Backend)
    BY ReplyDataBytes, ReplyFits
  <1> QED
    BY <1>3, <1>4, <1>5, <1>6, <1>7

\* modbus_reply reads and writes no element outside the mapping and no byte behind the
\* request, and its reply fits.
THEOREM NeverOutOfBounds == Spec => []InBounds
  <1>1. IInv => InBounds
    <2> SUFFICES ASSUME IInv, pc = "receive", line # <<>>, Accepted(First.q) PROVE InBounds
      BY DEF InBounds
    <2> DEFINE q == First.q
               t == mapping[Table(q.fc)]
    <2>1. q \in Messages
      BY FirstFacts DEF IInv
    <2>2. /\ DOMAIN t = 0 .. Size[Table(q.fc)] - 1
          /\ Table(q.fc) \in Tables /\ "registers" \in Tables
      BY TableType DEF IInv, MapInv, Area, Tables
    <2>3. q.fc = WriteAndRead => t = mapping["registers"]
      BY TableKinds DEF WriteAndRead
    <2>4. DOMAIN t = 0 .. Size[Table(q.fc)] - 1
      BY <2>2
    <2>5. /\ \A i \in 0 .. Extent(q) - 1 : q.addr - Start[Table(q.fc)] + i \in DOMAIN t
          /\ q.fc = WriteBits => BitBytes(q.nb) <= Len(q.data)
          /\ q.fc = WriteRegisters => 2 * q.nb <= Len(q.data)
          /\ q.fc = WriteAndRead => 2 * q.wnb <= Len(q.data)
          /\ Adu(Backend, 2 + Len(ReplyData(q, t))) <= MaxAduLength(Backend)
      BY <2>1, <2>4, AcceptedInBounds
    <2>6. q.fc = WriteAndRead =>
            \A i \in 0 .. q.wnb - 1 : q.waddr - Start["registers"] + i \in DOMAIN t
      <3> SUFFICES ASSUME q.fc = WriteAndRead
                   PROVE  \A i \in 0 .. q.wnb - 1 : q.waddr - Start["registers"] + i \in DOMAIN t
        OBVIOUS
      <3>1. Table(q.fc) = "registers"
        BY TableKinds DEF WriteAndRead
      <3>2. DOMAIN t = 0 .. Size["registers"] - 1
        BY <2>4, <3>1
      <3> QED
        BY <2>1, <2>4, <3>2, AcceptedInBounds
    <2> QED
      BY <2>5, <2>6 DEF InBounds
  <1> QED
    BY <1>1, Invariant, PTL

LEMMA ServedVerdict ==
    ASSUME NEW q \in Messages, Accepted(q), NEW r, GoodReply(q, r)
    PROVE  Verdict(Backend, q, r) = "ok"
  <1>1. q.nb \in Nat /\ BitBytes(q.nb) \in Nat
    <2>1. q.nb \in Nat
      BY MessageFields
    <2> QED
      BY <2>1, BitBytesNat
  <1>2. /\ q.fc \in {1, 2, 3, 4, 5, 6, 15, 16, 17, 22, 23}
        /\ r.fc = q.fc /\ r.code = 0 /\ r.echo = Repeated(q) /\ Len(r.data) = DataBytes(q)
    BY AcceptedFacts DEF GoodReply
  <1>3. Numbers(q).fc = q.fc /\ Numbers(q).nb = q.nb
    BY DEF Numbers
  <1>4. LengthOfReply(r) = IF q.fc = 22 THEN 7
                           ELSE IF q.fc \in {5, 6, 15, 16} THEN 5
                           ELSE 2 + DataBytes(q)
    BY <1>2 DEF LengthOfReply, RepeatingCodes, WriteSingle, WriteBits, WriteRegisters, MaskWrite
  <1>5. DataBytes(q) = IF q.fc \in {1, 2} THEN BitBytes(q.nb)
                       ELSE IF q.fc \in {3, 4, 23} THEN 2 * q.nb
                       ELSE IF q.fc = 17 THEN 10 ELSE 0
    BY DEF DataBytes, ReadBits, ReadRegisters, WriteAndRead, ReportSlaveId
  <1>6. \/ Adu(Backend, LengthOfReply(r)) = ResponseLength(Backend, Numbers(q))
        \/ ResponseLength(Backend, Numbers(q)) = LengthUndefined
    BY <1>2, <1>3, <1>4, <1>5
       DEF ResponseLength, ReadBits, ReadRegisters, WriteAndRead, ReportSlaveId, MaskWrite,
           ReadExceptionStatus
  <1>7. SameNumbers(q, r)
    <2>1. CASE q.fc \in {1, 2}
      BY <1>2, <1>5, <2>1 DEF SameNumbers, ReadBits
    <2>2. CASE q.fc \in {3, 4, 23}
      BY <1>1, <1>2, <1>5, <2>2 DEF SameNumbers, ReadBits, ReadRegisters, WriteAndRead
    <2>3. CASE q.fc \in {5, 6, 15, 16}
      <3>1. r.echo = <<q.addr, q.nb, q.value, q.mask>>
        BY <1>2, <2>3 DEF Repeated, RepeatingCodes, WriteSingle, WriteBits, WriteRegisters
      <3>2. r.echo[1] = q.addr /\ r.echo[2] = q.nb /\ r.echo[3] = q.value
        BY <3>1
      <3>3. /\ q.fc \notin ReadBits /\ q.fc \notin ReadRegisters \union {WriteAndRead}
            /\ (q.fc \in WriteSingle \/ q.fc \in {WriteBits, WriteRegisters})
        BY <2>3 DEF ReadBits, ReadRegisters, WriteAndRead, WriteSingle, WriteBits, WriteRegisters
      <3> QED
        BY <3>2, <3>3, Zenon DEF SameNumbers
    <2>4. CASE q.fc \in {17, 22}
      <3>1. /\ q.fc \notin ReadBits /\ q.fc \notin ReadRegisters \union {WriteAndRead}
            /\ q.fc \notin WriteSingle /\ q.fc \notin {WriteBits, WriteRegisters}
        BY <2>4 DEF ReadBits, ReadRegisters, WriteAndRead, WriteSingle, WriteBits, WriteRegisters
      <3> QED
        BY <3>1, Zenon DEF SameNumbers
    <2> QED
      BY <1>2, <2>1, <2>2, <2>3, <2>4
  <1>8. ~(r.fc >= Exception)
    BY <1>2 DEF Exception
  <1> QED
    BY <1>2, <1>6, <1>7, <1>8 DEF Verdict

LEMMA RefusedVerdict ==
    ASSUME NEW q \in Messages, q.fc < Exception, NEW r, GoodException(q, r)
    PROVE  Verdict(Backend, q, r) = "exception"
  <1>1. q.fc \in Nat /\ q.fc < 128
    BY MessageFields DEF Exception
  <1>2. r.fc = q.fc + Exception /\ r.fc >= Exception
    BY <1>1 DEF GoodException, Exception
  <1>3. r.code # 0 /\ r.code < ExceptionMax
    BY DEF GoodException, ExceptionMax
  <1>4. LengthOfReply(r) = 2
    BY <1>3 DEF LengthOfReply
  <1> QED
    BY <1>2, <1>3, <1>4 DEF Verdict

\* check_confirmation, at the other end, takes each reply of modbus_reply for what it is.
THEOREM AnswersAccepted == Spec => []AnswerAccepted
  <1>1. IInv => AnswerAccepted
    <2> SUFFICES ASSUME IInv, reply # NoReply, req.q.fc < Exception
                 PROVE  Verdict(Backend, req.q, reply)
                          = (IF outcome[req.n] = "served" THEN "ok" ELSE "exception")
      BY DEF AnswerAccepted
    <2>1. /\ req.q \in Messages
          /\ IF outcome[req.n] = "served"
               THEN Accepted(req.q) /\ GoodReply(req.q, reply)
               ELSE GoodException(req.q, reply)
      BY DEF IInv, ReplyInv, Entries
    <2>2. CASE outcome[req.n] = "served"
      BY <2>1, <2>2, ServedVerdict
    <2>3. CASE outcome[req.n] # "served"
      BY <2>1, <2>3, RefusedVerdict
    <2> QED
      BY <2>2, <2>3
  <1> QED
    BY <1>1, Invariant, PTL

----------------------------------------------------------------------------
\* The store.

StoreOf(m) == [t \in Tables |-> [a \in Span(Start[t], Size[t]) |-> m[t][a - Start[t]]]]

AnswerOf(q, r) ==
    IF r = NoReply THEN [status |-> "silent", values |-> <<>>]
    ELSE IF r.code # 0 THEN [status |-> "refused", values |-> <<>>]
    ELSE [status |-> "ok", values |-> ValuesRead(q, r)]

\* What each code writes, as the protocol means it.
LEMMA MeaningWrites ==
    ASSUME NEW q
    PROVE  LET w == Meaning(q).writes IN
           /\ Meaning(q).area = Table(q.fc)
           /\ Meaning(q).broadcast = (Backend = "RTU" /\ q.slave = Broadcast)
           /\ Meaning(q).reads = IF q.fc \in {1, 2, 3, 4, 23} THEN Span(q.addr, q.nb) ELSE {}
           /\ q.fc = 5 => w = [a \in {q.addr} |-> Put(IF q.value = {} THEN OFF ELSE ON)]
           /\ q.fc = 6 => w = [a \in {q.addr} |-> Put(q.value)]
           /\ q.fc = 22 => w = [a \in {q.addr} |-> [and |-> q.value, or |-> q.mask]]
           /\ q.fc = 15 =>
                w = [a \in Span(q.addr, q.nb) |-> Put(UnpackBits(q.nb, q.data)[a - q.addr])]
           /\ q.fc = 16 =>
                w = [a \in Span(q.addr, q.nb) |-> Put(UnpackWords(q.nb, q.data)[a - q.addr])]
           /\ q.fc = 23 =>
                w = [a \in Span(q.waddr, q.wnb) |-> Put(UnpackWords(q.wnb, q.data)[a - q.waddr])]
           /\ q.fc \notin {5, 6, 22, 15, 16, 23} => w = <<>>
  BY DEF Meaning, ReadingCodes, ReadBits, ReadRegisters, WriteBits, WriteRegisters, MaskWrite,
         WriteAndRead

LEMMA StoreMasked ==
    ASSUME NEW old, NEW v
    PROVE  Store!Masked(old, Put(v)) = v
  BY DEF Store!Masked, Put

\* Seen by addresses, the table after the request differs from before in what it writes.
LEMMA ExecutedMeans ==
    ASSUME NEW q \in Messages, Accepted(q), mapping[Table(q.fc)] \in Area(Table(q.fc)),
           NEW a \in Span(Start[Table(q.fc)], Size[Table(q.fc)])
    PROVE  LET old == mapping[Table(q.fc)][a - Start[Table(q.fc)]]
               w == Meaning(q).writes
           IN  Executed(q)[a - Start[Table(q.fc)]]
                 = IF a \in DOMAIN w THEN Store!Masked(old, w[a]) ELSE old
  <1> DEFINE T == Table(q.fc)
             t == mapping[T]
             s == Start[T]
             at == q.addr - s
             z == Size[T]
             i == a - s
             w == Meaning(q).writes
  <1>1. q.nb \in Nat /\ q.wnb \in Nat /\ q.addr \in Nat /\ q.waddr \in Nat
    BY MessageFields
  <1>2. s \in Nat /\ z \in Nat
    BY TableType, MappingSizes
  <1>3. a \in Nat /\ i \in 0 .. z - 1 /\ i \in Nat
    BY <1>2 DEF Span
  <1>4. DOMAIN t = 0 .. z - 1
    BY DEF Area
  <1>5. at \in Int /\ (i = at <=> a = q.addr) /\ (at <= i <=> q.addr <= a) /\ i - at = a - q.addr
    BY <1>1, <1>2, <1>3
  <1>6. \A nb \in Nat : i < at + nb <=> a < q.addr + nb
    BY <1>1, <1>2, <1>3
  <1>7. \A n \in Nat, nb \in Nat : a \in Span(n, nb) <=> n <= a /\ a < n + nb
    BY <1>3 DEF Span
  <1>8. ASSUME q.fc \in {5, 6, 22}, NEW x, Executed(q) = [t EXCEPT ![at] = x]
        PROVE  Executed(q)[i] = IF a \in {q.addr} THEN x ELSE t[i]
    BY <1>3, <1>4, <1>5, <1>8
  <1>9. CASE q.fc = 5
    <2>1. Executed(q) = [t EXCEPT ![at] = CoilOf(q.value)]
      BY <1>9 DEF Executed
    <2>2. w = [b \in {q.addr} |-> Put(CoilOf(q.value))]
      BY <1>9, MeaningWrites DEF CoilOf
    <2> QED
      BY <1>8, <1>9, <2>1, <2>2, StoreMasked
  <1>10. CASE q.fc = 6
    <2>1. Executed(q) = [t EXCEPT ![at] = q.value]
      BY <1>10 DEF Executed
    <2>2. w = [b \in {q.addr} |-> Put(q.value)]
      BY <1>10, MeaningWrites
    <2> QED
      BY <1>8, <1>10, <2>1, <2>2, StoreMasked
  <1>11. CASE q.fc = 22
    <2>1. Executed(q) = [t EXCEPT ![at] = MaskedWord(t[at], q.value, q.mask)]
      BY <1>11 DEF Executed, WriteBits, WriteRegisters, MaskWrite
    <2>2. w = [b \in {q.addr} |-> [and |-> q.value, or |-> q.mask]]
      BY <1>11, MeaningWrites
    <2>3. Store!Masked(t[at], [and |-> q.value, or |-> q.mask]) = MaskedWord(t[at], q.value, q.mask)
      BY DEF Store!Masked, MaskedWord
    <2>4. a = q.addr => t[at] = t[i]
      BY <1>5
    <2> QED
      BY <1>8, <1>11, <2>1, <2>2, <2>3, <2>4
  <1>12. CASE q.fc = 15
    <2>1. Executed(q) = SetBits(t, at, q.nb, q.data)
      BY <1>12 DEF Executed, WriteBits, WriteRegisters
    <2>2. w = [b \in Span(q.addr, q.nb) |-> Put(UnpackBits(q.nb, q.data)[b - q.addr])]
      BY <1>12, MeaningWrites
    <2>3. CASE a \in Span(q.addr, q.nb)
      <3>1. at <= i /\ i < at + q.nb /\ i - at \in 0 .. q.nb - 1
        BY <1>1, <1>2, <1>3, <1>5, <1>6, <1>7, <2>3
      <3>2. Executed(q)[i] = IF (i - at) % 8 \in q.data[(i - at) \div 8 + 1] THEN ON ELSE OFF
        BY <1>3, <1>4, <2>1, <3>1 DEF SetBits
      <3>3. UnpackBits(q.nb, q.data)[i - at]
              = IF (i - at) % 8 \in q.data[(i - at) \div 8 + 1] THEN ON ELSE OFF
        BY <3>1 DEF UnpackBits
      <3>4. Executed(q)[i] = UnpackBits(q.nb, q.data)[a - q.addr]
        BY <1>5, <3>2, <3>3
      <3> QED
        BY <2>2, <2>3, <3>4, StoreMasked
    <2>4. CASE a \notin Span(q.addr, q.nb)
      <3>1. ~(at <= i /\ i < at + q.nb)
        BY <1>1, <1>5, <1>6, <1>7, <2>4
      <3>2. Executed(q)[i] = t[i]
        BY <1>3, <1>4, <2>1, <3>1 DEF SetBits
      <3> QED
        BY <2>2, <2>4, <3>2
    <2> QED
      BY <2>3, <2>4
  <1>13. ASSUME NEW f \in Nat, NEW n \in Nat,
                T = "registers", Executed(q) = SetRegisters(t, f - s, n, q.data),
                w = [b \in Span(f, n) |-> Put(UnpackWords(n, q.data)[b - f])]
         PROVE  Executed(q)[i] = IF a \in DOMAIN w THEN Store!Masked(t[i], w[a]) ELSE t[i]
    <2> DEFINE fs == f - s
    <2>1. /\ fs \in Int /\ i - fs = a - f
          /\ (a \in Span(f, n) <=> fs <= i /\ i < fs + n)
          /\ (a \in Span(f, n) => i - fs \in 0 .. n - 1)
      BY <1>2, <1>3, <1>7
    <2>2. CASE a \in Span(f, n)
      <3>1. Executed(q)[i] = WordOf(q.data[2 * (i - fs) + 1], q.data[2 * (i - fs) + 2])
        BY <1>3, <1>4, <1>13, <2>1, <2>2 DEF SetRegisters
      <3>2. UnpackWords(n, q.data)[i - fs]
              = WordOf(q.data[2 * (i - fs) + 1], q.data[2 * (i - fs) + 2])
        BY <2>1, <2>2 DEF UnpackWords
      <3>3. Executed(q)[i] = UnpackWords(n, q.data)[a - f]
        BY <2>1, <3>1, <3>2
      <3> QED
        BY <1>13, <2>2, <3>3, StoreMasked
    <2>3. CASE a \notin Span(f, n)
      <3>1. Executed(q)[i] = t[i]
        BY <1>3, <1>4, <1>13, <2>1, <2>3 DEF SetRegisters
      <3> QED
        BY <1>13, <2>3, <3>1
    <2> QED
      BY <2>2, <2>3
  <1>14. CASE q.fc = 16
    <2>1. T = "registers" /\ Executed(q) = SetRegisters(t, at, q.nb, q.data)
      BY <1>14, TableKinds DEF Executed, WriteBits, WriteRegisters
    <2>2. w = [b \in Span(q.addr, q.nb) |-> Put(UnpackWords(q.nb, q.data)[b - q.addr])]
      BY <1>14, MeaningWrites
    <2> QED
      BY <1>1, <1>13, <2>1, <2>2
  <1>15. CASE q.fc = 23
    <2>1. T = "registers" /\ Executed(q) = SetRegisters(t, q.waddr - s, q.wnb, q.data)
      BY <1>15, TableKinds DEF Executed, WriteBits, WriteRegisters, MaskWrite, WriteAndRead
    <2>2. w = [b \in Span(q.waddr, q.wnb) |-> Put(UnpackWords(q.wnb, q.data)[b - q.waddr])]
      BY <1>15, MeaningWrites
    <2> QED
      BY <1>1, <1>13, <2>1, <2>2
  <1>16. CASE q.fc \notin {5, 6, 15, 16, 22, 23}
    <2>1. Executed(q) = t /\ w = <<>>
      BY <1>16, MeaningWrites DEF Executed, WriteBits, WriteRegisters, MaskWrite, WriteAndRead
    <2> QED
      BY <2>1
  <1> QED
    BY <1>9, <1>10, <1>11, <1>12, <1>14, <1>15, <1>16

\* The bytes of a reply are those the client's builders would make of the values read.
LEMMA IoStatusPacks ==
    ASSUME NEW t, NEW at \in Nat, NEW nb \in Nat,
           \A i \in at .. at + nb - 1 : t[i] \in {ON, OFF}
    PROVE  IoStatus(t, at, nb) = PackBits(nb, [i \in 0 .. nb - 1 |-> t[at + i]])
  <1> DEFINE src == [i \in 0 .. nb - 1 |-> t[at + i]]
  <1>1. ON # OFF
    BY DEF ON, OFF
  <1>2. BitBytes(nb) \in Nat
    BY BitBytesNat
  <1>3. ASSUME NEW k \in 1 .. BitBytes(nb), NEW b \in 0 .. 7
        PROVE  /\ 8 * (k - 1) + b < nb /\ t[at + 8 * (k - 1) + b] = ON
               <=> 8 * (k - 1) + b < nb /\ src[8 * (k - 1) + b] # OFF
    <2> DEFINE p == 8 * (k - 1) + b
    <2>1. p \in Nat /\ at + 8 * (k - 1) + b = at + p
      BY <1>2
    <2>2. ASSUME p < nb PROVE t[at + p] = ON <=> src[p] # OFF
      <3>1. p \in 0 .. nb - 1 /\ at + p \in at .. at + nb - 1
        BY <2>1, <2>2
      <3> HIDE DEF p
      <3>2. src[p] = t[at + p] /\ t[at + p] \in {ON, OFF}
        BY <3>1
      <3> QED
        BY <1>1, <3>2
    <2> QED
      BY <2>1, <2>2
  <1> HIDE DEF src
  <1>4. ASSUME NEW k \in 1 .. BitBytes(nb)
        PROVE  {b \in 0 .. 7 : 8 * (k - 1) + b < nb /\ t[at + 8 * (k - 1) + b] = ON}
                 = {b \in 0 .. 7 : 8 * (k - 1) + b < nb /\ src[8 * (k - 1) + b] # OFF}
    BY <1>3
  <1>5. IoStatus(t, at, nb) = PackBits(nb, src)
    BY <1>4 DEF IoStatus, PackBits
  <1> QED
    BY <1>5 DEF src

LEMMA RegisterBytesPack ==
    ASSUME NEW t, NEW at \in Nat, NEW nb \in Nat
    PROVE  RegisterBytes(t, at, nb) = PackWords(nb, [i \in 0 .. nb - 1 |-> t[at + i]])
  <1> DEFINE src == [i \in 0 .. nb - 1 |-> t[at + i]]
  <1>1. ASSUME NEW k \in 1 .. 2 * nb
        PROVE  src[(k - 1) \div 2] = t[at + (k - 1) \div 2]
    <2>1. (k - 1) \div 2 \in 0 .. nb - 1
      OBVIOUS
    <2> QED
      BY <2>1
  <1> HIDE DEF src
  <1>2. RegisterBytes(t, at, nb) = PackWords(nb, src)
    BY <1>1 DEF RegisterBytes, PackWords
  <1> QED
    BY <1>2 DEF src

\* What the client takes out of the reply is what the table holds at the addresses it read.
LEMMA ValuesReadMeans ==
    ASSUME NEW q \in Messages, Accepted(q), NEW t \in Area(Table(q.fc))
    PROVE  ValuesRead(q, Response(q, t))
             = [a \in Meaning(q).reads |-> t[a - Start[Table(q.fc)]]]
  <1> DEFINE T == Table(q.fc)
             s == Start[T]
             at == q.addr - s
             z == Size[T]
             src == [i \in 0 .. q.nb - 1 |-> t[at + i]]
             d == Response(q, t).data
  <1>1. q.nb \in Nat /\ q.addr \in Nat
    BY MessageFields
  <1>2. s \in Nat /\ z \in Nat
    BY TableType, MappingSizes
  <1>3. d = ReplyData(q, t)
    BY DEF Response
  <1>4. ASSUME q.fc \in {1, 2, 3, 4, 23}
        PROVE  /\ at \in Nat /\ \A i \in at .. at + q.nb - 1 : i \in 0 .. z - 1
               /\ Meaning(q).reads = Span(q.addr, q.nb)
               /\ \A a \in Span(q.addr, q.nb) :
                    src[a - q.addr] = t[a - s] /\ a - q.addr \in 0 .. q.nb - 1
    <2>1. at \in Nat /\ at + q.nb <= z
      BY <1>4, AccessWithin, ExtentByCode
    <2>2. ASSUME NEW a \in Span(q.addr, q.nb)
          PROVE  a - q.addr \in 0 .. q.nb - 1 /\ at + (a - q.addr) = a - s
      BY <1>1, <1>2 DEF Span
    <2>3. \A a \in Span(q.addr, q.nb) : src[a - q.addr] = t[a - s] /\ a - q.addr \in 0 .. q.nb - 1
      BY <2>2
    <2>4. \A i \in at .. at + q.nb - 1 : i \in 0 .. z - 1
      BY <1>1, <1>2, <2>1
    <2>5. Meaning(q).reads = Span(q.addr, q.nb)
      BY <1>4, MeaningWrites
    <2> QED
      BY <2>1, <2>3, <2>4, <2>5
  <1>5. CASE q.fc \in {1, 2}
    <2>1. t \in [0 .. z - 1 -> {ON, OFF}]
      BY <1>5, TableKinds DEF Area
    <2>2. \A i \in at .. at + q.nb - 1 : t[i] \in {ON, OFF}
      BY <1>4, <1>5, <2>1
    <2>3. src \in [0 .. q.nb - 1 -> {ON, OFF}]
      <3>1. \A i \in 0 .. q.nb - 1 : at + i \in at .. at + q.nb - 1
        BY <1>1, <1>4, <1>5
      <3> QED
        BY <2>2, <3>1
    <2>4. d = PackBits(q.nb, src)
      BY <1>1, <1>3, <1>4, <1>5, <2>2, IoStatusPacks DEF ReplyData, ReadBits
    <2> HIDE DEF src
    <2>5. UnpackBits(q.nb, d) = src
      BY <1>1, <2>3, <2>4, BitsRoundTrip
    <2>6. ValuesRead(q, Response(q, t)) = [a \in Span(q.addr, q.nb) |-> src[a - q.addr]]
      BY <1>5, <2>5 DEF ValuesRead, ReadBits
    <2> QED
      BY <1>4, <1>5, <2>6
  <1>6. CASE q.fc \in {3, 4, 23}
    <2>1. t \in [0 .. z - 1 -> Word]
      BY <1>6, TableKinds DEF Area
    <2>2. src \in [0 .. q.nb - 1 -> Word]
      <3>1. \A i \in 0 .. q.nb - 1 : at + i \in at .. at + q.nb - 1
        BY <1>1, <1>4, <1>6
      <3>2. \A i \in at .. at + q.nb - 1 : t[i] \in Word
        BY <1>4, <1>6, <2>1
      <3> QED
        BY <3>1, <3>2
    <2>3. d = PackWords(q.nb, src)
      <3>1. d = RegisterBytes(t, at, q.nb)
        BY <1>3, <1>6 DEF ReplyData, ReadBits, ReadRegisters, WriteAndRead
      <3> QED
        BY <1>1, <1>4, <1>6, <3>1, RegisterBytesPack
    <2> HIDE DEF src
    <2>4. UnpackWords(q.nb, d) = src
      BY <1>1, <2>2, <2>3, WordsRoundTrip
    <2>5. ValuesRead(q, Response(q, t)) = [a \in Span(q.addr, q.nb) |-> src[a - q.addr]]
      BY <1>6, <2>4 DEF ValuesRead, ReadBits, ReadingCodes, ReadRegisters, WriteAndRead
    <2> QED
      BY <1>4, <1>6, <2>5
  <1>7. CASE q.fc \notin {1, 2, 3, 4, 23}
    <2>1. ValuesRead(q, Response(q, t)) = <<>> /\ Meaning(q).reads = {}
      BY <1>7, MeaningWrites DEF ValuesRead, ReadBits, ReadingCodes, ReadRegisters, WriteAndRead
    <2>2. <<>> = [a \in {} |-> t[a - s]]
      OBVIOUS
    <2> QED
      BY <2>1, <2>2
  <1> QED
    BY <1>5, <1>6, <1>7

LEMMA StoreVars == Store!vars = <<StoreOf(mapping), AnswerOf(req.q, reply)>>
  BY DEF Store!vars, StoreOf, AnswerOf

\* The addresses a request names are those of its table.
LEMMA MeaningWithin ==
    ASSUME NEW q \in Messages, Accepted(q)
    PROVE  LET T == Table(q.fc)
           IN  Meaning(q).reads \union DOMAIN Meaning(q).writes \subseteq Span(Start[T], Size[T])
  <1> DEFINE T == Table(q.fc)
             w == Meaning(q).writes
  <1>1. q.nb \in Nat /\ q.addr \in Nat /\ q.wnb \in Nat /\ q.waddr \in Nat
    BY MessageFields
  <1>2. Start[T] \in Nat /\ Size[T] \in Nat
    BY TableType, MappingSizes
  <1>3. \A f \in Nat, n \in Nat :
          f - Start[T] \in Nat /\ (f - Start[T]) + n <= Size[T]
            => Span(f, n) \subseteq Span(Start[T], Size[T])
    BY <1>2 DEF Span
  <1>4. q.fc \in {1, 2, 3, 4, 15, 16, 23} => Span(q.addr, q.nb) \subseteq Span(Start[T], Size[T])
    <2> SUFFICES ASSUME q.fc \in {1, 2, 3, 4, 15, 16, 23}
                 PROVE  Span(q.addr, q.nb) \subseteq Span(Start[T], Size[T])
      OBVIOUS
    <2>1. q.addr - Start[T] \in Nat /\ (q.addr - Start[T]) + q.nb <= Size[T]
      BY AccessWithin, ExtentByCode
    <2> QED
      BY <1>1, <1>3, <2>1
  <1>5. q.fc \in {5, 6, 22} => q.addr \in Span(Start[T], Size[T])
    <2> SUFFICES ASSUME q.fc \in {5, 6, 22} PROVE q.addr \in Span(Start[T], Size[T])
      OBVIOUS
    <2>1. q.addr - Start[T] \in Nat /\ (q.addr - Start[T]) + 1 <= Size[T]
      BY AccessWithin, ExtentByCode
    <2> QED
      BY <1>1, <1>2, <2>1 DEF Span
  <1>6. q.fc = 23 => Span(q.waddr, q.wnb) \subseteq Span(Start[T], Size[T])
    <2> SUFFICES ASSUME q.fc = 23 PROVE Span(q.waddr, q.wnb) \subseteq Span(Start[T], Size[T])
      OBVIOUS
    <2>1. T = "registers"
      BY TableKinds
    <2>2. q.waddr - Start[T] \in Nat /\ (q.waddr - Start[T]) + q.wnb <= Size[T]
      BY <2>1, AccessWithin
    <2> QED
      BY <1>1, <1>3, <2>2
  <1>7. Meaning(q).reads \subseteq Span(Start[T], Size[T])
    BY <1>4, MeaningWrites
  <1>8. DOMAIN w \subseteq Span(Start[T], Size[T])
    <2>1. CASE q.fc = 5
      <3>1. w = [a \in {q.addr} |-> Put(IF q.value = {} THEN OFF ELSE ON)]
        BY <2>1, MeaningWrites
      <3> QED
        BY <1>5, <2>1, <3>1
    <2>2. CASE q.fc = 6
      <3>1. w = [a \in {q.addr} |-> Put(q.value)]
        BY <2>2, MeaningWrites
      <3> QED
        BY <1>5, <2>2, <3>1
    <2>3. CASE q.fc = 22
      <3>1. w = [a \in {q.addr} |-> [and |-> q.value, or |-> q.mask]]
        BY <2>3, MeaningWrites
      <3> QED
        BY <1>5, <2>3, <3>1
    <2>4. CASE q.fc = 15
      <3>1. w = [a \in Span(q.addr, q.nb) |-> Put(UnpackBits(q.nb, q.data)[a - q.addr])]
        BY <2>4, MeaningWrites
      <3> QED
        BY <1>4, <2>4, <3>1
    <2>5. CASE q.fc = 16
      <3>1. w = [a \in Span(q.addr, q.nb) |-> Put(UnpackWords(q.nb, q.data)[a - q.addr])]
        BY <2>5, MeaningWrites
      <3> QED
        BY <1>4, <2>5, <3>1
    <2>6. CASE q.fc = 23
      <3>1. w = [a \in Span(q.waddr, q.wnb) |-> Put(UnpackWords(q.wnb, q.data)[a - q.waddr])]
        BY <2>6, MeaningWrites
      <3> QED
        BY <1>6, <2>6, <3>1
    <2>7. CASE q.fc \notin {5, 6, 22, 15, 16, 23}
      <3>1. w = <<>>
        BY <2>7, MeaningWrites
      <3> QED
        BY <3>1
    <2> QED
      BY <2>1, <2>2, <2>3, <2>4, <2>5, <2>6, <2>7
  <1> QED
    BY <1>7, <1>8

\* An accepted request is one of the store's.
LEMMA AcceptedUnderstood ==
    ASSUME NEW q \in Messages, Accepted(q)
    PROVE  Understood(q)
  <1>1. q.nb \in Nat /\ q.wnb \in Nat /\ Len(q.data) \in Nat
    BY MessageFields
  <1> QED
    BY <1>1, AcceptedFacts DEF Understood, WriteBits, WriteRegisters, WriteAndRead

LEMMA AccessIsNext ==
    ASSUME NEW q \in Messages, Understood(q), Store!Access(Meaning(q))
    PROVE  Store!Next
  <1>1. Meaning(q) \in {Meaning(p) : p \in {m \in Messages : Understood(m)}}
    OBVIOUS
  <1> QED
    BY <1>1, Zenon DEF Store!Next

LEMMA ServeImplements ==
    ASSUME IInv, Serve, NEW q \in Messages, q = First.q
    PROVE  Store!Next
  <1> DEFINE T == Table(q.fc)
             S == StoreOf(mapping)
             m == Meaning(q)
  <1>1. QueueInv /\ MapInv /\ line # <<>>
    BY DEF IInv, Serve, Take
  <1>2. q \in Messages
    OBVIOUS
  <1>3. /\ Accepted(q) /\ mapping' = [mapping EXCEPT ![T] = Executed(q)]
        /\ Send(First, Response(q, Executed(q)))
    BY DEF Serve
  <1>4. T \in Tables /\ mapping[T] \in Area(T) /\ DOMAIN mapping = Tables
    BY <1>1, TableType DEF MapInv
  <1>5. m.area = T /\ m.broadcast = (Backend = "RTU" /\ q.slave = Broadcast)
    BY MeaningWrites
  <1>6. /\ DOMAIN S = Tables /\ DOMAIN S[T] = Span(Start[T], Size[T])
        /\ \A a \in Span(Start[T], Size[T]) : S[T][a] = mapping[T][a - Start[T]]
    BY <1>4 DEF StoreOf
  <1>7. m.reads \union DOMAIN m.writes \subseteq DOMAIN S[m.area]
    BY <1>2, <1>3, <1>5, <1>6, MeaningWithin
  <1>8. StoreOf(mapping') = [S EXCEPT ![m.area] = Store!Written(S[m.area], m)]
    <2>1. ASSUME NEW t \in Tables, t # T PROVE StoreOf(mapping')[t] = S[t]
      <3>1. mapping'[t] = mapping[t]
        BY <1>3, <1>4, <2>1
      <3> QED
        BY <3>1 DEF StoreOf
    <2>2. StoreOf(mapping')[T] = Store!Written(S[T], m)
      <3>1. mapping'[T] = Executed(q)
        BY <1>3, <1>4
      <3>2. StoreOf(mapping')[T]
              = [a \in Span(Start[T], Size[T]) |-> Executed(q)[a - Start[T]]]
        BY <1>4, <3>1 DEF StoreOf
      <3>3. Store!Written(S[T], m)
              = [a \in Span(Start[T], Size[T]) |->
                   IF a \in DOMAIN m.writes THEN Store!Masked(S[T][a], m.writes[a]) ELSE S[T][a]]
        BY <1>6 DEF Store!Written
      <3>4. ASSUME NEW a \in Span(Start[T], Size[T])
            PROVE  Executed(q)[a - Start[T]]
                     = IF a \in DOMAIN m.writes THEN Store!Masked(S[T][a], m.writes[a]) ELSE S[T][a]
        BY <1>2, <1>3, <1>4, <1>6, ExecutedMeans
      <3> QED
        BY <3>2, <3>3, <3>4
    <2>3. DOMAIN StoreOf(mapping') = Tables
      BY DEF StoreOf
    <2>4. StoreOf(mapping') = [t \in Tables |-> StoreOf(mapping')[t]]
      BY DEF StoreOf
    <2>5. [S EXCEPT ![T] = Store!Written(S[T], m)]
            = [t \in Tables |-> IF t = T THEN Store!Written(S[T], m) ELSE S[t]]
      BY <1>6
    <2>6. \A t \in Tables :
            StoreOf(mapping')[t] = IF t = T THEN Store!Written(S[T], m) ELSE S[t]
      BY <2>1, <2>2
    <2> QED
      BY <1>5, <2>4, <2>5, <2>6
  <1>9. \/ AnswerOf(req'.q, reply') = Store!Silent
        \/ /\ ~m.broadcast
           /\ AnswerOf(req'.q, reply')
                = [status |-> "ok",
                   values |-> [a \in m.reads |-> StoreOf(mapping')[m.area][a]]]
    <2> DEFINE r == Response(q, Executed(q))
    <2>1. req' = First /\ reply' \in {r, NoReply}
      BY <1>3, SendFacts
    <2>2. CASE reply' = NoReply
      BY <2>2 DEF AnswerOf, Store!Silent
    <2>3. CASE reply' # NoReply
      <3>1. reply' = r /\ ~m.broadcast
        BY <1>3, <1>5, <2>1, <2>3 DEF Send
      <3>2. AnswerOf(q, r) = [status |-> "ok", values |-> ValuesRead(q, r)]
        BY <2>3, <3>1 DEF AnswerOf, Response
      <3>3. Executed(q) \in Area(T)
        BY <1>2, <1>3, <1>4, ExecutedType
      <3>4. ValuesRead(q, r) = [a \in m.reads |-> Executed(q)[a - Start[T]]]
        BY <1>2, <1>3, <3>3, ValuesReadMeans
      <3>5. ASSUME NEW a \in m.reads
            PROVE  StoreOf(mapping')[m.area][a] = Executed(q)[a - Start[T]]
        <4>1. a \in Span(Start[T], Size[T])
          BY <1>5, <1>6, <1>7
        <4>2. mapping'[T] = Executed(q)
          BY <1>3, <1>4
        <4> QED
          BY <1>4, <1>5, <4>1, <4>2 DEF StoreOf
      <3>6. ValuesRead(q, r) = [a \in m.reads |-> StoreOf(mapping')[m.area][a]]
        BY <3>4, <3>5
      <3> QED
        BY <2>1, <3>1, <3>2, <3>6
    <2> QED
      BY <2>2, <2>3
  <1>10. Store!Access(m)
    <2> DEFINE A == AnswerOf(req'.q, reply')
               N == StoreOf(mapping')
    <2>1. /\ m.reads \union DOMAIN m.writes \subseteq DOMAIN S[m.area]
          /\ N = [S EXCEPT ![m.area] = Store!Written(S[m.area], m)]
          /\ \/ A = Store!Silent
             \/ ~m.broadcast /\ A = [status |-> "ok", values |-> [a \in m.reads |-> N[m.area][a]]]
      BY <1>7, <1>8, <1>9
    <2> HIDE DEF m
    <2> QED
      BY <2>1, Zenon DEF Store!Access, StoreOf, AnswerOf
  <1> QED
    BY <1>2, <1>3, <1>10, AcceptedUnderstood, AccessIsNext

\* A step that changes no table and answers nothing, or an exception.
LEMMA RefusalImplements ==
    ASSUME UNCHANGED mapping, reply' = NoReply \/ reply'.code # 0
    PROVE  Store!Next
  <1>1. AnswerOf(req'.q, reply') \in {Store!Silent, Store!Refused}
    BY DEF AnswerOf, Store!Silent, Store!Refused
  <1>2. StoreOf(mapping') = StoreOf(mapping)
    OBVIOUS
  <1>3. Store!Refuse
    BY <1>1, <1>2 DEF Store!Refuse, StoreOf, AnswerOf
  <1> QED
    BY <1>3 DEF Store!Next

LEMMA ExceptionImplements ==
    ASSUME UNCHANGED mapping, NEW q, NEW code, code # 0,
           reply' \in {ResponseException(q, code), NoReply}
    PROVE  Store!Next
  <1>1. ResponseException(q, code).code = code
    BY DEF ResponseException
  <1> QED
    BY <1>1, RefusalImplements

LEMMA SampleImplements ==
    ASSUME IInv, NEW t \in InputTables, NEW v \in Samples, Sample(t, 0, v)
    PROVE  Store!Next
  <1> DEFINE S == StoreOf(mapping)
             N == StoreOf(mapping')
  <1>1. DOMAIN mapping = Tables
    BY DEF IInv, MapInv
  <1>2. \A u \in Tables : u # t => mapping'[u] = mapping[u]
    BY <1>1 DEF Sample
  <1>3. DOMAIN S = Tables /\ DOMAIN N = Tables
    BY DEF StoreOf
  <1>4. \A u \in DOMAIN S \ InputTables : N[u] = S[u]
    BY <1>2, <1>3 DEF StoreOf
  <1>5. UNCHANGED AnswerOf(req.q, reply)
    BY DEF Sample
  <1>6. Store!Sample
    BY <1>3, <1>4, <1>5 DEF Store!Sample, StoreOf, AnswerOf
  <1> QED
    BY <1>6 DEF Store!Next

LEMMA StutterImplements ==
    ASSUME UNCHANGED <<mapping, req, reply>>
    PROVE  UNCHANGED Store!vars
  BY StoreVars DEF Store!vars

LEMMA StepImplements ==
    ASSUME IInv, [Next]_vars
    PROVE  [Store!Next]_(Store!vars)
  <1>1. CASE \E q \in Messages : Arrive(q)
    <2>1. UNCHANGED <<mapping, req, reply>>
      BY <1>1 DEF Arrive
    <2> QED
      BY <2>1, StutterImplements
  <1>2. CASE \E t \in InputTables, v \in Samples : 0 \in DOMAIN mapping[t] /\ Sample(t, 0, v)
    BY <1>2, SampleImplements
  <1>3. CASE Serve
    <2>1. First.q \in Messages
      BY <1>3, FirstFacts DEF IInv, Serve, Take
    <2>2. PICK q \in Messages : q = First.q
      BY <2>1
    <2> QED
      BY <1>3, <2>2, ServeImplements
  <1>4. CASE Refuse
    <2> DEFINE code == IF BadAddress(First.q) THEN IllegalDataAddress ELSE IllegalDataValue
    <2>1. UNCHANGED mapping /\ Send(First, ResponseException(First.q, code))
      BY <1>4 DEF Refuse
    <2>2. code # 0
      BY DEF IllegalDataAddress, IllegalDataValue
    <2>3. reply' \in {ResponseException(First.q, code), NoReply}
      BY <2>1, SendFacts
    <2> QED
      BY <2>1, <2>2, <2>3, ExceptionImplements
  <1>5. CASE NotImplemented
    <2>1. UNCHANGED mapping /\ reply' = NoReply
      BY <1>5 DEF NotImplemented
    <2> QED
      BY <2>1, RefusalImplements
  <1>6. CASE SleepBeforeFlush
    <2>1. UNCHANGED <<mapping, req, reply>>
      BY <1>6 DEF SleepBeforeFlush
    <2> QED
      BY <2>1, StutterImplements
  <1>7. CASE FlushAndRefuse
    <2> DEFINE code == IF sleeper.q.fc \in KnownCodes THEN IllegalDataValue ELSE IllegalFunction
    <2>1. UNCHANGED mapping /\ Send(sleeper, ResponseException(sleeper.q, code))
      BY <1>7 DEF FlushAndRefuse
    <2>2. code # 0
      BY DEF IllegalDataValue, IllegalFunction
    <2>3. reply' \in {ResponseException(sleeper.q, code), NoReply}
      BY <2>1, SendFacts
    <2> QED
      BY <2>1, <2>2, <2>3, ExceptionImplements
  <1>8. CASE \E code \in RefusalCodes : ReplyException(code)
    <2>1. PICK code \in RefusalCodes : ReplyException(code)
      BY <1>8
    <2>2. UNCHANGED mapping /\ reply' \in {ResponseException(First.q, code), NoReply}
      BY <2>1 DEF ReplyException
    <2>3. code # 0
      BY ModbusServerAssumption
    <2> QED
      BY <2>2, <2>3, ExceptionImplements
  <1>9. CASE UNCHANGED vars
    <2>1. UNCHANGED <<mapping, req, reply>>
      BY <1>9 DEF vars
    <2> QED
      BY <2>1, StutterImplements
  <1> QED
    BY <1>1, <1>2, <1>3, <1>4, <1>5, <1>6, <1>7, <1>8, <1>9 DEF Next

\* Whatever the requests, modbus_reply is the store: each request is executed at once, on
\* the addresses it names, and its reply, read through the client's functions, has the
\* values that are there after it.
THEOREM ImplementsStoreAlways == Spec => ImplementsStore
  <1>1. IInv /\ [Next]_vars => [Store!Next]_(Store!vars)
    BY StepImplements
  <1> QED
    BY <1>1, Invariant, PTL DEF Spec, ImplementsStore
=============================================================================

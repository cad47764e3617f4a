---------------------------- MODULE ModbusFrame ----------------------------
(***************************************************************************)
(* Shapes of Modbus messages in libmodbus: what the builders of requests   *)
(* and replies emit, what the receive loop expects after the function code *)
(* and after the meta information, and what a client computes as the       *)
(* length of the confirmation of its request.  A message is its function   *)
(* code, the byte that announces its data, and its length; a request is    *)
(* its function code and its numbers of values.                            *)
(***************************************************************************)
EXTENDS Integers

Backends == {"RTU", "TCP", "GOODWE"}
MsgTypes == {"INDICATION", "CONFIRMATION"}
Byte == 0 .. 255

\* The constants of a modbus_backend_t.
HeaderLength(b) == IF b = "RTU" THEN 1 ELSE IF b = "TCP" THEN 7 ELSE 5
ChecksumLength(b) == IF b = "TCP" THEN 0 ELSE 2

\* Seeded fault: a TCP message is cut to the longest one of a serial line.
MaxAduLengthSerial(b) == 256

MaxAduLength(b) == IF b = "TCP" THEN 260 ELSE 256

\* MODBUS_FC_*, by what the code tells apart.
ReadBits == {1, 2}
ReadRegisters == {3, 4}
WriteSingle == {5, 6}
ReadExceptionStatus == 7
WriteBits == 15
WriteRegisters == 16
ReportSlaveId == 17
MaskWrite == 22
WriteAndRead == 23
Exception == 128

\* A request: nb values to read or to write, and write values to write with code 23.
LegalRequests ==
    [fc : ReadBits, nb : 0 .. 2000, write : {0}] \union
    [fc : ReadRegisters, nb : 0 .. 125, write : {0}] \union
    [fc : WriteSingle \union {ReportSlaveId, MaskWrite}, nb : {0}, write : {0}] \union
    [fc : {WriteBits}, nb : 0 .. 1968, write : {0}] \union
    [fc : {WriteRegisters}, nb : 0 .. 123, write : {0}] \union
    [fc : {WriteAndRead}, nb : 0 .. 125, write : 0 .. 121]

\* Bytes that hold n bits.
BitBytes(n) == (n \div 8) + (IF n % 8 = 0 THEN 0 ELSE 1)

\* The data byte a message announces, an uint8_t.
RequestCount(q) ==
    IF q.fc = WriteBits THEN BitBytes(q.nb) % 256
    ELSE IF q.fc = WriteRegisters THEN (2 * q.nb) % 256
    ELSE IF q.fc = WriteAndRead THEN (2 * q.write) % 256
    ELSE 0

ReplyCount(q) ==
    IF q.fc \in ReadBits THEN BitBytes(q.nb) % 256
    ELSE IF q.fc \in ReadRegisters \union {WriteAndRead} THEN (2 * q.nb) % 256
    ELSE 0

\* Bytes from the function code to the checksum, as the client's functions build them.
RequestBytes(q) ==
    IF q.fc \in ReadBits \union ReadRegisters \union WriteSingle THEN 5
    ELSE IF q.fc = WriteBits THEN 6 + BitBytes(q.nb)
    ELSE IF q.fc = WriteRegisters THEN 6 + 2 * q.nb
    ELSE IF q.fc = MaskWrite THEN 7
    ELSE IF q.fc = WriteAndRead THEN 10 + 2 * q.write
    ELSE 1

\* The same of the reply of modbus_reply; a slave id has the length idBytes.
ReplyBytes(q, idBytes) ==
    IF q.fc \in ReadBits THEN 2 + BitBytes(q.nb)
    ELSE IF q.fc \in ReadRegisters \union {WriteAndRead} THEN 2 + 2 * q.nb
    ELSE IF q.fc \in WriteSingle \union {WriteBits, WriteRegisters} THEN 5
    ELSE IF q.fc = MaskWrite THEN 7
    ELSE 2 + idBytes

\* compute_meta_length_after_function.
MetaLength(type, fc) ==
    IF type = "INDICATION"
    THEN IF fc <= 6 THEN 4
         ELSE IF fc \in {WriteBits, WriteRegisters} THEN 5
         ELSE IF fc = MaskWrite THEN 6
         ELSE IF fc = WriteAndRead THEN 9
         ELSE 0
    ELSE IF fc \in WriteSingle \union {WriteBits, WriteRegisters} THEN 4
         ELSE IF fc = MaskWrite THEN 6
         ELSE 1

\* Seeded fault: every confirmation is taken to announce its length, also an exception.
AnnouncedAlways(b, type, fc) ==
    type = "CONFIRMATION" \/ fc \in {WriteBits, WriteRegisters, WriteAndRead}

\* Whether the byte that announces a length is looked at.
Announced(b, type, fc) ==
    IF type = "INDICATION" THEN fc \in {WriteBits, WriteRegisters, WriteAndRead}
    ELSE b = "GOODWE" \/ fc <= 4 \/ fc \in {ReportSlaveId, WriteAndRead}

\* compute_data_length_after_meta.
DataLength(b, type, fc, count) ==
    (IF Announced(b, type, fc) THEN count ELSE 0) + ChecksumLength(b)

Adu(b, bytes) == HeaderLength(b) + bytes + ChecksumLength(b)

\* MSG_LENGTH_UNDEFINED
LengthUndefined == -1

\* compute_response_length_from_request.
ResponseLength(b, q) ==
    IF q.fc \in ReadBits THEN Adu(b, 2 + BitBytes(q.nb))
    ELSE IF q.fc \in ReadRegisters \union {WriteAndRead} THEN Adu(b, 2 + 2 * q.nb)
    ELSE IF q.fc = ReadExceptionStatus THEN Adu(b, 3)
    ELSE IF q.fc = ReportSlaveId THEN LengthUndefined
    ELSE IF q.fc = MaskWrite THEN Adu(b, 7)
    ELSE Adu(b, 5)

\* Message m is the whole of a request, of a reply to one or of an exception.  A slave
\* id and all a GoodWe device sends have the length they announce, and fit.
WholeMessage(m) ==
    \/ /\ m.backend # "GOODWE" /\ m.type = "INDICATION"
       /\ \E q \in LegalRequests :
            /\ m.fc = q.fc /\ m.count = RequestCount(q)
            /\ m.length = Adu(m.backend, RequestBytes(q))
    \/ /\ m.backend # "GOODWE" /\ m.type = "CONFIRMATION"
       /\ \E q \in LegalRequests :
            \/ /\ m.fc = q.fc
               /\ IF q.fc = ReportSlaveId
                    THEN m.length <= MaxAduLength(m.backend)
                    ELSE m.count = ReplyCount(q)
               /\ m.length = Adu(m.backend, ReplyBytes(q, m.count))
            \/ /\ m.fc = q.fc + Exception
               /\ m.length = Adu(m.backend, 2)
    \/ /\ m.backend = "GOODWE" /\ m.type = "CONFIRMATION"
       /\ m.fc \notin WriteSingle \union {WriteBits, WriteRegisters, MaskWrite}
       /\ m.length = Adu(m.backend, 2 + m.count)
       /\ m.length <= MaxAduLength(m.backend)
=============================================================================

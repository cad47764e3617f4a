---------------------------- MODULE ModbusClient ----------------------------
(***************************************************************************)
(* The client's side of a message: the requests its functions build,       *)
(* check_confirmation, which compares a reply with its request, and what   *)
(* the functions take out of the reply.  A byte and a word are the sets of *)
(* their bits; an element of an array of bits is ON or OFF.                *)
(*                                                                         *)
(* A request carries all fields any code has; those its code does not use  *)
(* are 0 or empty.  A reply carries its function code, an exception code   *)
(* or 0, the data behind its byte count, and, with the codes that repeat   *)
(* the request, the address, number, value and mask they repeat.           *)
(***************************************************************************)
EXTENDS ModbusFrame, Sequences

OneByte == SUBSET (0 .. 7)
Word == SUBSET (0 .. 15)
ON == {0}
OFF == {}

LoByte(w) == w \cap (0 .. 7)
HiByte(w) == {b \in 0 .. 7 : b + 8 \in w}
WordOf(hi, lo) == lo \union {b \in 8 .. 15 : b - 8 \in hi}

TwoBytes == 0 .. 65535
Bytes == Seq(OneByte)

RequestType ==
    [slave : Byte, fc : Byte, addr : TwoBytes, nb : TwoBytes, value : Word, mask : Word,
     waddr : TwoBytes, wnb : TwoBytes, data : Bytes]

----------------------------------------------------------------------------
\* Requests.  src is an array, a function on 0 .. nb - 1.

\* build_request_basis: addresses and numbers are cut to two bytes.
Basis(slave, fc, addr, nb) ==
    [slave |-> slave, fc |-> fc, addr |-> addr % 65536, nb |-> nb % 65536,
     value |-> {}, mask |-> {}, waddr |-> 0, wnb |-> 0, data |-> <<>>]

ReadRequest(slave, fc, addr, nb) == Basis(slave, fc, addr, nb)

WriteSingleRequest(slave, fc, addr, value) ==
    [Basis(slave, fc, addr, 0) EXCEPT !.value = value]

\* The bytes modbus_write_bits makes of src.
PackBits(nb, src) ==
    [k \in 1 .. BitBytes(nb) |->
        {b \in 0 .. 7 : 8 * (k - 1) + b < nb /\ src[8 * (k - 1) + b] # OFF}]

\* The bytes of words, high byte first.
PackWords(nb, src) ==
    [k \in 1 .. 2 * nb |->
        IF k % 2 = 1 THEN HiByte(src[(k - 1) \div 2]) ELSE LoByte(src[(k - 1) \div 2])]

WriteBitsRequest(slave, addr, nb, src) ==
    [Basis(slave, WriteBits, addr, nb) EXCEPT !.data = PackBits(nb, src)]

WriteRegistersRequest(slave, addr, nb, src) ==
    [Basis(slave, WriteRegisters, addr, nb) EXCEPT !.data = PackWords(nb, src)]

MaskWriteRequest(slave, addr, and, or) ==
    [Basis(slave, MaskWrite, addr, 0) EXCEPT !.value = and, !.mask = or]

WriteAndReadRequest(slave, waddr, wnb, src, addr, nb) ==
    [Basis(slave, WriteAndRead, addr, nb) EXCEPT
        !.waddr = waddr % 65536, !.wnb = wnb % 65536, !.data = PackWords(wnb, src)]

ReportSlaveIdRequest(slave) == Basis(slave, ReportSlaveId, 0, 0)

----------------------------------------------------------------------------
\* check_confirmation.

\* MODBUS_EXCEPTION_*
IllegalFunction == 1
IllegalDataAddress == 2
IllegalDataValue == 3

\* Seeded fault: the enumeration of the codes ends too early.
ExceptionMaxEarly == IllegalDataAddress

ExceptionMax == 12

RepeatingCodes == WriteSingle \union {WriteBits, WriteRegisters, MaskWrite}

\* What a reply repeats of its request.
Repeated(q) == IF q.fc \in RepeatingCodes THEN <<q.addr, q.nb, q.value, q.mask>> ELSE <<>>

\* Bytes of a reply from the function code to the checksum.
LengthOfReply(r) ==
    IF r.code # 0 THEN 2
    ELSE IF r.fc = MaskWrite THEN 7
    ELSE IF r.fc \in RepeatingCodes THEN 5
    ELSE 2 + Len(r.data)

\* The request's numbers of values, as ModbusFrame counts them.
Numbers(q) == [fc |-> q.fc, nb |-> q.nb, write |-> q.wnb]

\* Seeded fault: the byte count is compared with the number of words.
SameNumbersBytes(q, r) ==
    IF q.fc \in ReadBits THEN Len(r.data) = BitBytes(q.nb)
    ELSE IF q.fc \in ReadRegisters \union {WriteAndRead} THEN Len(r.data) = q.nb
    ELSE IF q.fc \in WriteSingle THEN r.echo[1] = q.addr /\ r.echo[3] = q.value
    ELSE IF q.fc \in {WriteBits, WriteRegisters} THEN r.echo[1] = q.addr /\ r.echo[2] = q.nb
    ELSE TRUE

\* The reply answers with the number of values, the address and the value of the
\* request; nothing is compared for a mask or a slave id.
SameNumbers(q, r) ==
    IF q.fc \in ReadBits THEN Len(r.data) = BitBytes(q.nb)
    ELSE IF q.fc \in ReadRegisters \union {WriteAndRead} THEN Len(r.data) \div 2 = q.nb
    ELSE IF q.fc \in WriteSingle THEN r.echo[1] = q.addr /\ r.echo[3] = q.value
    ELSE IF q.fc \in {WriteBits, WriteRegisters} THEN r.echo[1] = q.addr /\ r.echo[2] = q.nb
    ELSE TRUE

\* The outcome of check_confirmation behind the backend's own check.
Verdict(b, q, r) ==
    LET length == Adu(b, LengthOfReply(r))
        expected == ResponseLength(b, Numbers(q))
    IN  IF r.fc >= Exception
        THEN IF length = Adu(b, 2) /\ r.fc = q.fc + Exception /\ r.code < ExceptionMax
             THEN "exception"
             ELSE "EMBBADEXC"
        ELSE IF /\ length = expected \/ expected = LengthUndefined
                /\ r.fc = q.fc
                /\ SameNumbers(q, r)
             THEN "ok"
             ELSE "EMBBADDATA"

----------------------------------------------------------------------------
\* What the functions put into dest.

\* read_io_status.
UnpackBits(nb, bytes) ==
    [p \in 0 .. nb - 1 |-> IF p % 8 \in bytes[p \div 8 + 1] THEN ON ELSE OFF]

UnpackWords(nb, bytes) == [p \in 0 .. nb - 1 |-> WordOf(bytes[2 * p + 1], bytes[2 * p + 2])]
=============================================================================

------------------------ MODULE ModbusReceiveProofs ------------------------
(***************************************************************************)
(* Proofs about ModbusReceive, for every stream, setting and portion: what *)
(* the loop asks for stays in the buffer and in the message, a message is  *)
(* read whole, and a response is read within the response timeout.         *)
(***************************************************************************)
EXTENDS ModbusReceive, TLAPS

----------------------------------------------------------------------------
\* Lengths of messages.

\* A number of bits takes a number of bytes, at most an eighth of it and one more.
LEMMA BitBytesBound ==
    ASSUME NEW n \in Nat
    PROVE  BitBytes(n) \in Nat /\ 8 * BitBytes(n) <= n + 7
BY DEF BitBytes

\* The byte that counts the bytes of bits never wraps round, for a legal number of bits.
LEMMA BitBytesFits ==
    ASSUME NEW n \in Nat, n <= 2000
    PROVE  BitBytes(n) \in 0 .. 250 /\ BitBytes(n) % 256 = BitBytes(n)
<1>1. BitBytes(n) \in Nat /\ 8 * BitBytes(n) <= 2007
  BY BitBytesBound
<1>2. BitBytes(n) \in 0 .. 250
  BY <1>1
<1> QED BY <1>2

\* Function codes and numbers of values of a legal request: no byte that announces data
\* wraps round.
LEMMA RequestRange ==
    ASSUME NEW q \in LegalRequests
    PROVE  /\ q.fc \in {1, 2, 3, 4, 5, 6, 15, 16, 17, 22, 23}
           /\ q.nb \in 0 .. 2000 /\ q.write \in 0 .. 121
           /\ BitBytes(q.nb) \in 0 .. 250 /\ BitBytes(q.nb) % 256 = BitBytes(q.nb)
           /\ q.fc = 15 => BitBytes(q.nb) <= 246
           /\ q.fc \in {3, 4, 16, 23} =>
                q.nb \in 0 .. 125 /\ (2 * q.nb) % 256 = 2 * q.nb
           /\ q.fc = 16 => q.nb <= 123
           /\ (2 * q.write) % 256 = 2 * q.write
<1>1. /\ q.fc \in {1, 2, 3, 4, 5, 6, 15, 16, 17, 22, 23}
      /\ q.nb \in 0 .. 2000 /\ q.write \in 0 .. 121
      /\ q.fc = 15 => q.nb <= 1968
      /\ q.fc \in {3, 4, 16, 23} => q.nb <= 125
      /\ q.fc = 16 => q.nb <= 123
  BY DEF LegalRequests, ReadBits, ReadRegisters, WriteSingle, WriteBits, WriteRegisters,
         ReportSlaveId, MaskWrite, WriteAndRead
<1>2. BitBytes(q.nb) \in Nat /\ 8 * BitBytes(q.nb) <= q.nb + 7
  <2>1. q.nb \in Nat
    BY <1>1
  <2> QED BY <2>1, BitBytesBound
<1>3. BitBytes(q.nb) \in 0 .. 250 /\ BitBytes(q.nb) % 256 = BitBytes(q.nb)
  <2>1. q.nb \in Nat
    BY <1>1
  <2>2. q.nb <= 2000
    BY <1>1
  <2> QED BY <2>1, <2>2, BitBytesFits
<1>4. (2 * q.write) % 256 = 2 * q.write
  BY <1>1
<1>5. q.fc \in {3, 4, 16, 23} => q.nb \in 0 .. 125 /\ (2 * q.nb) % 256 = 2 * q.nb
  BY <1>1
<1>6. q.fc = 15 => BitBytes(q.nb) <= 246
  BY <1>1, <1>2
<1> QED BY <1>1, <1>3, <1>4, <1>5, <1>6

\* What the two length tables of the receive loop add up to, from the function code on.
TableBytes(b, type, fc, count) ==
    1 + MetaLength(type, fc) + DataLength(b, type, fc, count)

\* The tables give a request the length its builder gave it, and it fits.
LEMMA RequestLength ==
    ASSUME NEW b \in {"RTU", "TCP"}, NEW q \in LegalRequests
    PROVE  /\ Adu(b, RequestBytes(q))
                = HeaderLength(b) + TableBytes(b, "INDICATION", q.fc, RequestCount(q))
           /\ Adu(b, RequestBytes(q)) <= MaxAduLength(b)
  BY RequestRange
     DEF RequestBytes, RequestCount, TableBytes, MetaLength, DataLength, Announced, Adu,
         ReadBits, ReadRegisters, WriteSingle, WriteBits, WriteRegisters, ReportSlaveId,
         MaskWrite, WriteAndRead, HeaderLength, ChecksumLength, MaxAduLength

\* The tables give a reply the length modbus_reply gave it, and it fits.
LEMMA ReplyLength ==
    ASSUME NEW b \in {"RTU", "TCP"}, NEW q \in LegalRequests, q.fc # ReportSlaveId, NEW id
    PROVE  /\ Adu(b, ReplyBytes(q, id))
                = HeaderLength(b) + TableBytes(b, "CONFIRMATION", q.fc, ReplyCount(q))
           /\ Adu(b, ReplyBytes(q, id)) <= MaxAduLength(b)
  BY RequestRange
     DEF ReplyBytes, ReplyCount, TableBytes, MetaLength, DataLength, Announced, Adu,
         ReadBits, ReadRegisters, WriteSingle, WriteBits, WriteRegisters, ReportSlaveId,
         MaskWrite, WriteAndRead, HeaderLength, ChecksumLength, MaxAduLength

\* The length a client computes from its request is that of the reply of modbus_reply.
THEOREM ClientExpectsReply ==
    ASSUME NEW b \in Backends, NEW q \in LegalRequests, q.fc # ReportSlaveId, NEW id
    PROVE  ResponseLength(b, q) = Adu(b, ReplyBytes(q, id))
BY DEF LegalRequests, ResponseLength, ReplyBytes, ReadBits, ReadRegisters, WriteSingle,
       ReadExceptionStatus, WriteBits, WriteRegisters, ReportSlaveId, MaskWrite, WriteAndRead

\* Of every whole message, the tables give the length.
LEMMA WholeLength ==
    ASSUME NEW m \in StreamType, WholeMessage(m)
    PROVE  /\ m.length = HeaderLength(m.backend) + TableBytes(m.backend, m.type, m.fc, m.count)
           /\ m.length <= MaxAduLength(m.backend)
<1> USE DEF StreamType, Backends, MsgTypes, Byte
<1>0. m.count \in Nat /\ m.fc \in Nat /\ m.backend \in Backends
  OBVIOUS
<1>1. CASE m.backend # "GOODWE" /\ m.type = "INDICATION"
  <2>1. PICK q \in LegalRequests :
            /\ m.fc = q.fc /\ m.count = RequestCount(q)
            /\ m.length = Adu(m.backend, RequestBytes(q))
    BY <1>1 DEF WholeMessage
  <2>2. m.backend \in {"RTU", "TCP"}
    BY <1>0, <1>1
  <2> QED BY <1>1, <2>1, <2>2, RequestLength
<1>2. CASE m.backend # "GOODWE" /\ m.type = "CONFIRMATION"
  <2>1. PICK q \in LegalRequests :
            \/ /\ m.fc = q.fc
               /\ IF q.fc = ReportSlaveId
                    THEN m.length <= MaxAduLength(m.backend)
                    ELSE m.count = ReplyCount(q)
               /\ m.length = Adu(m.backend, ReplyBytes(q, m.count))
            \/ /\ m.fc = q.fc + Exception
               /\ m.length = Adu(m.backend, 2)
    BY <1>2 DEF WholeMessage
  <2>2. CASE m.fc = q.fc + Exception /\ m.length = Adu(m.backend, 2)
    <3>1. q.fc \in Nat /\ q.fc > 0
      BY DEF LegalRequests, ReadBits, ReadRegisters, WriteSingle, WriteBits, WriteRegisters,
             ReportSlaveId, MaskWrite, WriteAndRead
    <3>2. m.fc > 128
      BY <2>2, <3>1 DEF Exception
    <3> QED
      BY <1>0, <1>2, <2>2, <3>2
         DEF TableBytes, MetaLength, DataLength, Announced, Adu, HeaderLength, ChecksumLength,
             MaxAduLength, WriteSingle, WriteBits, WriteRegisters, ReportSlaveId, MaskWrite,
             WriteAndRead
  <2>3. CASE /\ q.fc # ReportSlaveId /\ m.fc = q.fc /\ m.count = ReplyCount(q)
             /\ m.length = Adu(m.backend, ReplyBytes(q, m.count))
    <3>1. m.backend \in {"RTU", "TCP"}
      BY <1>0, <1>2
    <3> QED BY <1>2, <2>3, <3>1, ReplyLength
  <2>4. CASE /\ q.fc = ReportSlaveId /\ m.fc = q.fc /\ m.length <= MaxAduLength(m.backend)
             /\ m.length = Adu(m.backend, ReplyBytes(q, m.count))
    BY <1>0, <1>2, <2>4
       DEF ReplyBytes, TableBytes, MetaLength, DataLength, Announced, Adu, HeaderLength,
           ChecksumLength, ReadBits, ReadRegisters, WriteSingle, WriteBits, WriteRegisters,
           ReportSlaveId, MaskWrite, WriteAndRead
  <2> QED BY <2>1, <2>2, <2>3, <2>4
<1>3. CASE m.backend = "GOODWE" /\ m.type = "CONFIRMATION"
  BY <1>0, <1>3
     DEF WholeMessage, TableBytes, MetaLength, DataLength, Announced, Adu, HeaderLength,
         ChecksumLength, WriteSingle, WriteBits, WriteRegisters, MaskWrite
<1>4. m.backend = "GOODWE" => m.type = "CONFIRMATION"
  BY DEF WholeMessage
<1> QED BY <1>1, <1>2, <1>3, <1>4

----------------------------------------------------------------------------
\* Type correctness.

LEMMA StreamFacts ==
    ASSUME TypeOK
    PROVE  /\ Backend \in Backends /\ stream.type \in MsgTypes
           /\ stream.fc \in Nat /\ stream.count \in Nat
           /\ stream.length \in Nat /\ stream.follow \in Nat
           /\ ctx.response \in Nat /\ ctx.byte \in Nat /\ ctx.indication \in Nat
BY ModbusReceiveAssumption DEF TypeOK, StreamType, ContextType, Backend, Byte

\* Lengths of the stream under way: up to the data, of the data, and with what follows.
Meta == MetaLength(stream.type, stream.fc)
Data == DataLength(Backend, stream.type, stream.fc, stream.count)
Total == stream.length + stream.follow

\* They are natural numbers, and what comes before the data fits.
LEMMA StreamLengths ==
    ASSUME TypeOK
    PROVE  /\ HeaderLength(Backend) \in Nat /\ MaxAduLength(Backend) \in Nat
           /\ Meta \in Nat /\ Data \in Nat /\ Total \in Nat
           /\ HeaderLength(Backend) + 1 + Meta <= MaxAduLength(Backend)
BY StreamFacts
   DEF Meta, Data, Total, HeaderLength, ChecksumLength, MaxAduLength, MetaLength, DataLength

\* A flush leaves part of what there was.
LEMMA FlushedBound ==
    ASSUME NEW r \in Nat
    PROVE  Flushed(r) \subseteq 0 .. r
<1> SUFFICES ASSUME NEW k \in Flushed(r) PROVE k \in 0 .. r
  OBVIOUS
<1>1. k \in Portions \union {0, r} /\ k <= r
  BY DEF Flushed
<1>2. k \in Nat
  BY <1>1, ModbusReceiveAssumption
<1> QED BY <1>1, <1>2

\* The state after a portion: where the loop goes on, or the outcome of the call.
LEMMA TypeInvariant == TypeOK /\ [Next]_vars => TypeOK'
<1> SUFFICES ASSUME TypeOK, [Next]_vars PROVE TypeOK'
  OBVIOUS
<1>0. Horizon \in Nat
  BY ModbusReceiveAssumption
<1>1. CASE Call
  <2>1. lengthToRead' \in Nat
    BY <1>1 DEF Call, HeaderLength
  <2>2. tv' \in Nat \union {NoTimer}
    BY <1>1, StreamFacts DEF Call, FirstTimer
  <2> QED BY <1>1, <2>1, <2>2 DEF Call, TypeOK
<1>2. ASSUME NEW n \in Portions \union {lengthToRead, rest}, Recv(n) PROVE TypeOK'
  <2> DEFINE left == lengthToRead - n
             length == msgLength + n
  <2>1. n \in Nat /\ n > 0 /\ n <= lengthToRead /\ n <= rest
    <3>1. n \in Nat
      BY ModbusReceiveAssumption, StreamLengths DEF TypeOK, Total
    <3>2. n > 0 /\ n <= lengthToRead /\ n <= rest
      BY <1>2 DEF Recv
    <3> QED BY <3>1, <3>2
  <2>2. left \in Nat /\ length \in Nat /\ rest - n \in Nat
    BY <2>1 DEF TypeOK
  <2>3. Meta \in Nat /\ Data \in Nat
    BY StreamLengths
  <2>4. msgLength' = length /\ UNCHANGED <<stream, ctx, elapsed, sock>>
    BY <1>2 DEF Recv
  <2>5. rest' \in 0 .. rest
    <3>1. rest' \in Flushed(rest - n) \/ rest' = rest - n
      BY <1>2 DEF Recv
    <3> QED BY <2>1, <2>2, <3>1, FlushedBound DEF TypeOK
  <2>6. ASSUME NEW s \in {"FUNCTION", "META", "DATA"}, NEW len \in Nat, Expect(s, len)
        PROVE  /\ pc' \in {"idle", "wait", "sleep", "connect", "done"} /\ step' \in {"FUNCTION", "META", "DATA"}
               /\ lengthToRead' \in Nat /\ tv' \in Nat \union {NoTimer}
               /\ rc' \in Int /\ errno' \in Errors
    BY <2>6, StreamFacts DEF Expect, TypeOK
  <2>7. ASSUME NEW value \in Int, NEW error \in Errors, Return(value, error)
        PROVE  /\ pc' \in {"idle", "wait", "sleep", "connect", "done"} /\ step' \in {"FUNCTION", "META", "DATA"}
               /\ lengthToRead' \in Nat /\ tv' \in Nat \union {NoTimer}
               /\ rc' \in Int /\ errno' \in Errors
    BY <2>7 DEF Return, TypeOK
  <2>8. /\ \/ \E s \in {"FUNCTION", "META", "DATA"}, len \in Nat : Expect(s, len)
           \/ \E value \in Int, error \in Errors : Return(value, error)
    <3>1. \/ Expect(step, left) \/ Expect("META", Meta) \/ Expect("DATA", Data)
          \/ Return(-1, "EMBBADDATA") \/ CheckIntegrity(length)
      BY <1>2 DEF Recv, Meta, Data
    <3>2. CASE CheckIntegrity(length)
      BY <2>2, <3>2 DEF CheckIntegrity, Errors
    <3>3. step \in {"FUNCTION", "META", "DATA"}
      BY DEF TypeOK
    <3>4. -1 \in Int /\ "EMBBADDATA" \in Errors
      BY DEF Errors
    <3> HIDE DEF left, length
    <3> QED BY <2>2, <2>3, <3>1, <3>2, <3>3, <3>4
  <2>9. /\ pc' \in {"idle", "wait", "sleep", "connect", "done"} /\ step' \in {"FUNCTION", "META", "DATA"}
        /\ lengthToRead' \in Nat /\ tv' \in Nat \union {NoTimer}
        /\ rc' \in Int /\ errno' \in Errors
    BY <2>6, <2>7, <2>8
  <2>10. rest' \in 0 .. stream.length + stream.follow
    BY <2>5, StreamFacts DEF TypeOK
  <2> QED BY <2>2, <2>4, <2>9, <2>10 DEF TypeOK
<1>3. ASSUME NEW error \in Errors, Return(-1, error), UNCHANGED <<stream, ctx, msgLength, elapsed>>,
             rest' \in {rest, 0} \union Flushed(rest), sock' \in {"open", "closed"}
      PROVE  TypeOK'
  <2>1. rest \in Nat
    BY StreamFacts DEF TypeOK
  <2>2. rest' \in 0 .. rest
    BY <1>3, <2>1, FlushedBound
  <2>3. rest' \in 0 .. stream.length + stream.follow
    BY <2>2, StreamFacts DEF TypeOK
  <2> QED BY <1>3, <2>3 DEF TypeOK, Return
<1>4. ASSUME NEW error \in Errors, NEW where \in {"sleep", "connect"}, Recover(where, error),
             UNCHANGED <<stream, ctx, msgLength, elapsed>>,
             rest' \in {rest, 0}, sock' \in {"open", "closed"}
      PROVE  TypeOK'
  <2>1. rest' \in 0 .. stream.length + stream.follow /\ ctx.response \in Nat
    BY <1>4, StreamFacts DEF TypeOK
  <2> QED BY <1>4, <2>1 DEF TypeOK, Recover
<1>5. ASSUME NEW error \in Errors, Reconnect(error), UNCHANGED <<stream, ctx, msgLength, elapsed>>
      PROVE  TypeOK'
  BY <1>3, <1>4, <1>5 DEF Reconnect
<1>6. CASE TimedOut \/ WakeUp \/ Connected \/ ConnectTimedOut
  BY <1>3, <1>4, <1>6 DEF TimedOut, WakeUp, Connected, ConnectTimedOut, Errors, IoErrors, TypeOK
<1>9. CASE (\E e \in {"EBADF", "EIO"} : SelectFails(e))
           \/ (\E e \in {"ECONNRESET", "ECONNREFUSED", "EBADF", "EIO"} : RecvFails(e))
  BY <1>3, <1>5, <1>9 DEF SelectFails, RecvFails, Errors, IoErrors, TypeOK
<1>7. CASE Tick
  BY <1>0, <1>7 DEF Tick, TypeOK, NoTimer
<1>8. CASE UNCHANGED vars
  BY <1>8 DEF vars, TypeOK
<1> QED BY <1>1, <1>2, <1>6, <1>7, <1>8, <1>9 DEF Next

\* The state of a call has its type, whatever the streams, settings and portions.
THEOREM TypeCorrect == Spec => []TypeOK
<1>1. Init => TypeOK
  BY ModbusReceiveAssumption DEF Init, TypeOK, StreamType, NoTimer, Errors
<1> QED BY <1>1, TypeInvariant, PTL DEF Spec
----------------------------------------------------------------------------
\* What the loop reads.

\* Bytes read by the end of the step under way.
Asked ==
    HeaderLength(Backend) + 1 + (IF step = "FUNCTION" THEN 0 ELSE Meta)
        + (IF step = "DATA" THEN Data ELSE 0)

\* The step under way is the last before the data.
AtData == step = "META" \/ (step = "FUNCTION" /\ Meta = 0)

LoopInv ==
    /\ pc = "idle" => msgLength = 0 /\ rest = Total /\ errno = "none"
    /\ pc = "wait" =>
         /\ errno = "none"
         /\ lengthToRead > 0 /\ msgLength + lengthToRead = Asked
         /\ Asked <= MaxAduLength(Backend)
         /\ rest = Total - msgLength
    /\ pc \in {"sleep", "connect"} => errno \in IoErrors

IInv == TypeOK /\ LoopInv /\ WholeIsRead

\* The length of a whole stream is what the loop asks for by the end of the data.
LEMMA WholeStream ==
    ASSUME TypeOK, stream.whole
    PROVE  /\ stream.length = HeaderLength(Backend) + 1 + Meta + Data
           /\ stream.length <= MaxAduLength(Backend)
<1>1. stream \in StreamType /\ WholeMessage(stream)
  BY ModbusReceiveAssumption DEF TypeOK
<1>2. /\ stream.length
             = HeaderLength(Backend) + TableBytes(Backend, stream.type, stream.fc, stream.count)
      /\ stream.length <= MaxAduLength(Backend)
  BY <1>1, WholeLength DEF Backend
<1> QED BY <1>2, StreamLengths DEF TableBytes, Meta, Data
----------------------------------------------------------------------------
\* The parts of IInv, action by action.

\* What a portion does: the loop goes on, or the call returns what is read.
LEMMA RecvCases ==
    ASSUME IInv, NEW n \in Portions \union {lengthToRead, rest}, Recv(n)
    PROVE  /\ n \in Nat /\ 0 < n /\ n <= lengthToRead /\ n <= rest /\ pc = "wait"
           /\ msgLength' = msgLength + n
           /\ rest' = rest - n \/ errno' = "EMBBADCRC"
           /\ UNCHANGED <<stream, ctx, elapsed, sock>>
           /\ \/ n < lengthToRead /\ Expect(step, lengthToRead - n)
              \/ n = lengthToRead /\ step = "FUNCTION" /\ Meta # 0 /\ Expect("META", Meta)
              \/ /\ n = lengthToRead /\ AtData
                 /\ \/ /\ Asked + Data > MaxAduLength(Backend)
                       /\ Return(-1, "EMBBADDATA")
                    \/ /\ Asked + Data <= MaxAduLength(Backend) /\ Data # 0
                       /\ Expect("DATA", Data)
                    \/ /\ Data = 0 /\ CheckIntegrity(Asked)
              \/ n = lengthToRead /\ step = "DATA" /\ CheckIntegrity(Asked)
<1>1. n \in Nat /\ 0 < n /\ n <= lengthToRead /\ n <= rest /\ pc = "wait"
  <2>1. n \in Nat
    BY ModbusReceiveAssumption, StreamLengths DEF IInv, TypeOK, Total
  <2>2. n > 0 /\ n <= lengthToRead /\ n <= rest /\ pc = "wait"
    BY DEF Recv
  <2> QED BY <2>1, <2>2
<1>2. /\ lengthToRead \in Nat /\ msgLength \in Nat /\ rest \in Nat
      /\ msgLength + lengthToRead = Asked
  BY <1>1, StreamLengths DEF IInv, TypeOK, LoopInv, Total
<1>3. lengthToRead - n > 0 \/ lengthToRead - n = 0
  BY <1>1, <1>2
<1>4. lengthToRead - n = 0 => n = lengthToRead /\ msgLength + n = Asked
  BY <1>1, <1>2
<1>5. lengthToRead - n > 0 => n < lengthToRead
  BY <1>1, <1>2
<1>6. Asked \in Nat /\ Data \in Nat /\ MaxAduLength(Backend) \in Nat
  BY <1>2, StreamLengths DEF IInv
<1>7. ~(Asked + Data <= MaxAduLength(Backend)) => Asked + Data > MaxAduLength(Backend)
  BY <1>6
<1>8. \/ n < lengthToRead /\ Expect(step, lengthToRead - n)
      \/ n = lengthToRead /\ step = "FUNCTION" /\ Meta # 0 /\ Expect("META", Meta)
      \/ /\ n = lengthToRead /\ AtData
         /\ \/ /\ Asked + Data > MaxAduLength(Backend)
               /\ Return(-1, "EMBBADDATA")
            \/ /\ Asked + Data <= MaxAduLength(Backend) /\ Data # 0
               /\ Expect("DATA", Data)
            \/ /\ Data = 0 /\ CheckIntegrity(Asked)
      \/ n = lengthToRead /\ step = "DATA" /\ CheckIntegrity(Asked)
  BY <1>4, <1>5, <1>7, Zenon DEF Recv, Fits, AtData, Meta, Data
<1>9. /\ msgLength' = msgLength + n
      /\ rest' = rest - n \/ errno' = "EMBBADCRC"
      /\ UNCHANGED <<stream, ctx, elapsed, sock>>
  BY DEF Recv
<1> QED BY <1>1, <1>8, <1>9

\* A portion keeps the count of what is read, asked for and left.
LEMMA RecvLoop ==
    ASSUME IInv, NEW n \in Portions \union {lengthToRead, rest}, Recv(n)
    PROVE  LoopInv'
<1>1. /\ lengthToRead \in Nat /\ msgLength \in Nat /\ rest = Total - msgLength
      /\ msgLength + lengthToRead = Asked /\ Asked <= MaxAduLength(Backend)
      /\ n \in Nat /\ 0 < n /\ n <= lengthToRead
  BY RecvCases DEF IInv, TypeOK, LoopInv
<1>2. /\ HeaderLength(Backend) \in Nat /\ MaxAduLength(Backend) \in Nat
      /\ Meta \in Nat /\ Data \in Nat /\ Total \in Nat
      /\ HeaderLength(Backend) + 1 + Meta <= MaxAduLength(Backend)
  BY StreamLengths DEF IInv
<1>3. /\ Backend' = Backend /\ Meta' = Meta /\ Data' = Data /\ Total' = Total
      /\ HeaderLength(Backend)' = HeaderLength(Backend)
      /\ MaxAduLength(Backend)' = MaxAduLength(Backend)
  BY RecvCases DEF Backend, Meta, Data, Total
<1>4. msgLength' = msgLength + n
  BY RecvCases
<1>5. ASSUME NEW s, NEW len \in Nat, Expect(s, len), len > 0,
             msgLength' + len = Asked', Asked' <= MaxAduLength(Backend)
      PROVE  LoopInv'
  <2>1. pc' = "wait" /\ lengthToRead' = len /\ errno' = errno /\ errno # "EMBBADCRC"
    <3>1. errno = "none"
      BY RecvCases DEF IInv, LoopInv
    <3> QED BY <1>5, <3>1, RecvCases DEF Expect
  <2>2. rest' = rest - n
    BY <2>1, RecvCases
  <2>3. rest' = Total' - msgLength'
    BY <1>1, <1>2, <1>3, <1>4, <2>2
  <2>4. errno' = "none"
    BY <2>1, RecvCases DEF IInv, LoopInv
  <2>5. Asked' <= MaxAduLength(Backend)'
    BY <1>3, <1>5
  <2> QED BY <1>5, <2>1, <2>3, <2>4, <2>5 DEF LoopInv
<1>6. ASSUME NEW value, NEW error, Return(value, error) PROVE LoopInv'
  BY <1>6 DEF Return, LoopInv
<1>7. ASSUME CheckIntegrity(Asked) PROVE LoopInv'
  BY <1>6, <1>7 DEF CheckIntegrity
<1>8. CASE n < lengthToRead /\ Expect(step, lengthToRead - n)
  <2>1. Asked' = Asked
    BY <1>3, <1>8 DEF Expect, Asked
  <2> QED BY <1>1, <1>2, <1>4, <1>5, <1>8, <2>1
<1>9. CASE n = lengthToRead /\ step = "FUNCTION" /\ Meta # 0 /\ Expect("META", Meta)
  <2>1. Asked = HeaderLength(Backend) + 1 /\ Asked' = HeaderLength(Backend) + 1 + Meta
    BY <1>2, <1>3, <1>9 DEF Expect, Asked
  <2> QED BY <1>1, <1>2, <1>4, <1>5, <1>9, <2>1
<1>10. CASE /\ n = lengthToRead /\ AtData /\ Asked + Data <= MaxAduLength(Backend)
            /\ Data # 0 /\ Expect("DATA", Data)
  <2>1. Asked' = Asked + Data
    BY <1>2, <1>3, <1>10 DEF Expect, Asked, AtData
  <2> QED BY <1>1, <1>2, <1>4, <1>5, <1>10, <2>1
<1> QED BY <1>6, <1>7, <1>8, <1>9, <1>10, RecvCases

\* A portion that ends the call has read a whole message to its end.
LEMMA RecvRead ==
    ASSUME IInv, NEW n \in Portions \union {lengthToRead, rest}, Recv(n)
    PROVE  WholeIsRead'
<1> SUFFICES ASSUME stream.whole, pc' = "done", errno' \notin IoErrors
             PROVE  /\ msgLength' = stream.length
                    /\ errno' # "EMBBADDATA"
                    /\ rest' = stream.follow \/ errno' = "EMBBADCRC"
  BY RecvCases DEF WholeIsRead
<1>1. /\ lengthToRead \in Nat /\ msgLength \in Nat /\ rest = Total - msgLength
      /\ msgLength + lengthToRead = Asked /\ pc = "wait"
  BY RecvCases DEF IInv, TypeOK, LoopInv
<1>2. /\ HeaderLength(Backend) \in Nat /\ MaxAduLength(Backend) \in Nat
      /\ Meta \in Nat /\ Data \in Nat
  BY StreamLengths DEF IInv
<1>3. /\ stream.length = HeaderLength(Backend) + 1 + Meta + Data
      /\ stream.length <= MaxAduLength(Backend)
  BY WholeStream DEF IInv
<1>4. stream.length \in Nat /\ stream.follow \in Nat
  BY StreamFacts DEF IInv
<1>5. msgLength' = msgLength + n /\ (rest' = rest - n \/ errno' = "EMBBADCRC")
  BY RecvCases
<1>6. ASSUME n = lengthToRead, Asked = stream.length, errno' # "EMBBADDATA"
      PROVE  /\ msgLength' = stream.length /\ errno' # "EMBBADDATA"
             /\ rest' = stream.follow \/ errno' = "EMBBADCRC"
  BY <1>1, <1>4, <1>5, <1>6 DEF Total
<1>7. CheckIntegrity(Asked) => errno' # "EMBBADDATA"
  BY DEF CheckIntegrity, Return
<1>8. AtData => Asked + Data = stream.length
  BY <1>2, <1>3 DEF AtData, Asked
<1>9. ~Expect(step, lengthToRead - n) /\ ~Expect("META", Meta) /\ ~Expect("DATA", Data)
  BY <1>1 DEF Expect
<1>10. CASE n = lengthToRead /\ AtData /\ Asked + Data > MaxAduLength(Backend)
  BY <1>2, <1>3, <1>4, <1>8, <1>10
<1>11. CASE n = lengthToRead /\ AtData /\ Data = 0 /\ CheckIntegrity(Asked)
  <2>1. Asked = stream.length
    BY <1>1, <1>2, <1>8, <1>11 DEF Asked
  <2> QED BY <1>6, <1>7, <1>11, <2>1
<1>12. CASE n = lengthToRead /\ step = "DATA" /\ CheckIntegrity(Asked)
  <2>1. Asked = stream.length
    BY <1>2, <1>3, <1>12 DEF Asked
  <2> QED BY <1>6, <1>7, <1>12, <2>1
<1> QED BY <1>9, <1>10, <1>11, <1>12, RecvCases

\* IInv is inductive.
LEMMA Inductive == IInv /\ [Next]_vars => IInv'
<1> SUFFICES ASSUME IInv, [Next]_vars PROVE IInv'
  OBVIOUS
<1>1. TypeOK'
  BY TypeInvariant DEF IInv
<1>2. CASE Call
  <2>1. /\ stream' = stream /\ ctx' = ctx /\ pc = "idle" /\ pc' = "wait" /\ step' = "FUNCTION"
        /\ msgLength' = msgLength /\ rest' = rest /\ elapsed' = elapsed /\ errno' = errno
        /\ lengthToRead' = HeaderLength(Backend) + 1 /\ tv' = FirstTimer
    BY <1>2 DEF Call
  <2>2. msgLength = 0 /\ rest = Total /\ errno = "none"
    BY <2>1 DEF IInv, LoopInv
  <2>3. Backend' = Backend /\ Total' = Total
    BY <2>1 DEF Backend, Total
  <2>4. Asked' = HeaderLength(Backend) + 1
    BY <2>1, <2>3, StreamLengths DEF Asked, IInv
  <2>5. LoopInv'
    <3>1. /\ HeaderLength(Backend) \in Nat /\ Total \in Nat
          /\ HeaderLength(Backend) + 1 <= MaxAduLength(Backend)
      BY StreamLengths DEF IInv
    <3> QED BY <2>1, <2>2, <2>3, <2>4, <3>1 DEF LoopInv
  <2>7. WholeIsRead'
    BY <2>1 DEF WholeIsRead
  <2> QED BY <1>1, <2>5, <2>7 DEF IInv
<1>3. ASSUME NEW n \in Portions \union {lengthToRead, rest}, Recv(n) PROVE IInv'
  BY <1>1, <1>3, RecvLoop, RecvRead DEF IInv
<1>4. ASSUME NEW error \in IoErrors,
             Return(-1, error) \/ \E where \in {"sleep", "connect"} : Recover(where, error)
      PROVE  IInv'
  <2>1. LoopInv' /\ WholeIsRead'
    BY <1>4 DEF Return, Recover, LoopInv, WholeIsRead
  <2> QED BY <1>1, <2>1 DEF IInv
<1>5. CASE TimedOut \/ WakeUp \/ Connected \/ ConnectTimedOut
  <2>1. WakeUp \/ Connected \/ ConnectTimedOut => errno \in IoErrors
    BY DEF WakeUp, Connected, ConnectTimedOut, IInv, LoopInv
  <2>2. "ETIMEDOUT" \in IoErrors
    BY DEF IoErrors
  <2> QED BY <1>4, <1>5, <2>1, <2>2 DEF TimedOut, WakeUp, Connected, ConnectTimedOut
<1>6. ASSUME NEW e \in {"EBADF", "EIO"}, SelectFails(e) PROVE IInv'
  BY <1>4, <1>6 DEF SelectFails, Reconnect, IoErrors
<1>7. ASSUME NEW e \in {"ECONNRESET", "ECONNREFUSED", "EBADF", "EIO"}, RecvFails(e) PROVE IInv'
  BY <1>4, <1>7 DEF RecvFails, Reconnect, IoErrors
<1>8. CASE Tick
  <2>1. /\ UNCHANGED <<stream, ctx, rest, pc, step, msgLength, lengthToRead, rc, errno, sock>>
        /\ pc \in {"wait", "sleep", "connect"} /\ tv # 0
        /\ tv' = IF tv = NoTimer THEN NoTimer ELSE tv - 1
        /\ elapsed' = IF elapsed < Horizon THEN elapsed + 1 ELSE elapsed
    BY <1>8 DEF Tick
  <2>2. LoopInv' /\ WholeIsRead'
    BY <2>1 DEF IInv, LoopInv, WholeIsRead, Asked, Backend, Meta, Data, Total
  <2> QED BY <1>1, <2>2 DEF IInv
<1>9. CASE UNCHANGED vars
  BY <1>1, <1>9
     DEF vars, IInv, LoopInv, WholeIsRead, Asked, Backend, Meta, Data, Total
<1> QED BY <1>2, <1>3, <1>5, <1>6, <1>7, <1>8, <1>9 DEF Next

LEMMA InitIInv == Init => IInv
<1> SUFFICES ASSUME Init PROVE IInv
  OBVIOUS
<1>1. TypeOK
  BY ModbusReceiveAssumption DEF Init, TypeOK, StreamType, NoTimer, Errors
<1>2. LoopInv /\ WholeIsRead
  BY DEF Init, LoopInv, WholeIsRead, Total
<1> QED BY <1>1, <1>2 DEF IInv

LEMMA AlwaysIInv == Spec => []IInv
BY InitIInv, Inductive, PTL DEF Spec

----------------------------------------------------------------------------
\* The properties.

\* No portion of any stream makes the loop write past max_adu_length bytes.
THEOREM NeverPastBuffer == Spec => []BufferBound
<1>1. IInv => BufferBound
  BY DEF IInv, LoopInv, BufferBound
<1> QED BY <1>1, AlwaysIInv, PTL

\* Of a whole message of any length a builder gives it, no byte behind it is asked for.
THEOREM NeverPastMessage == Spec => []StaysInMessage
<1>1. IInv => StaysInMessage
  <2> SUFFICES ASSUME IInv, stream.whole, pc = "wait"
               PROVE  msgLength + lengthToRead <= stream.length
    BY DEF StaysInMessage
  <2>1. msgLength + lengthToRead = Asked
    BY DEF IInv, LoopInv
  <2>2. /\ HeaderLength(Backend) \in Nat /\ Meta \in Nat /\ Data \in Nat
        /\ stream.length = HeaderLength(Backend) + 1 + Meta + Data
    BY StreamLengths, WholeStream DEF IInv
  <2>3. Asked <= stream.length
    BY <2>2 DEF Asked
  <2> QED BY <2>1, <2>3
<1> QED BY <1>1, AlwaysIInv, PTL

\* A whole message is read to its end and no further, in whatever portions it comes.
THEOREM WholeAlwaysRead == Spec => []WholeIsRead
<1>1. IInv => WholeIsRead
  BY DEF IInv
<1> QED BY <1>1, AlwaysIInv, PTL

----------------------------------------------------------------------------
\* The time a call takes.

\* What the timer and the bytes read so far give a call before its recovery.
Earned == FirstTimer + ctx.byte * msgLength

\* What is left of a timer or of a sleep counts as spent: the sum stays within what is earned, and
\* in the one recovery that a call with LINK has within one response timeout more.
SpanInv ==
    FirstTimer # NoTimer =>
        /\ pc = "idle" => elapsed = 0
        /\ pc = "wait" => tv \in Nat /\ elapsed + tv <= Earned
        /\ pc \in {"sleep", "connect"} => tv \in Nat /\ elapsed + tv <= Earned + RecoveryTime
        /\ elapsed <= Earned + RecoveryTime

\* One byte more, or several, earn one byte timeout at least.
LEMMA BytesEarn ==
    ASSUME NEW b \in Nat, NEW m \in Nat, NEW n \in Nat, n > 0
    PROVE  b * m \in Nat /\ b * (m + n) \in Nat /\ b * m + b <= b * (m + n)
<1> DEFINE k == n - 1
<1>1. k \in Nat /\ m + n = (m + k) + 1
  OBVIOUS
<1> HIDE DEF k
<1>2. b * (m + n) = b * m + b * k + b
  BY <1>1
<1>3. b * m \in Nat /\ b * k \in Nat
  BY <1>1
<1> QED BY <1>2, <1>3

\* A step of the call, or of time, keeps to the sum.
LEMMA SpanStep ==
    ASSUME IInv, SpanInv, [Next]_vars
    PROVE  SpanInv'
<1>1. /\ FirstTimer' = FirstTimer /\ ctx' = ctx /\ RecoveryTime' = RecoveryTime
      /\ FirstTimer \in Nat \union {NoTimer} /\ RecoveryTime \in Nat
      /\ ctx.byte \in Nat /\ msgLength \in Nat /\ elapsed \in Nat /\ Horizon \in Nat
      /\ ctx.response \in Nat /\ (Link => RecoveryTime = ctx.response)
  <2>1. UNCHANGED <<stream, ctx>>
    BY DEF Next, Call, Recv, TimedOut, WakeUp, Connected, ConnectTimedOut, SelectFails,
           RecvFails, Tick, vars
  <2> QED BY <2>1, StreamFacts, ModbusReceiveAssumption
          DEF FirstTimer, RecoveryTime, Link, IInv, TypeOK
<1> SUFFICES ASSUME FirstTimer # NoTimer
             PROVE  /\ pc' = "idle" => elapsed' = 0
                    /\ pc' = "wait" => tv' \in Nat /\ elapsed' + tv' <= Earned'
                    /\ pc' \in {"sleep", "connect"} =>
                         tv' \in Nat /\ elapsed' + tv' <= Earned' + RecoveryTime
                    /\ elapsed' <= Earned' + RecoveryTime
  BY <1>1 DEF SpanInv
<1>2. /\ pc = "idle" => elapsed = 0
      /\ pc = "wait" => tv \in Nat /\ elapsed + tv <= Earned
      /\ pc \in {"sleep", "connect"} => tv \in Nat /\ elapsed + tv <= Earned + RecoveryTime
      /\ elapsed <= Earned + RecoveryTime
  BY DEF SpanInv
<1>3. ctx.byte * msgLength \in Nat /\ FirstTimer \in Nat /\ Earned \in Nat
      /\ Earned = FirstTimer + ctx.byte * msgLength
  BY <1>1 DEF Earned
<1>4. msgLength' = msgLength => Earned' = Earned
  BY <1>1 DEF Earned
<1>5. CASE Call
  <2>1. /\ pc = "idle" /\ pc' = "wait" /\ tv' = FirstTimer
        /\ UNCHANGED <<msgLength, elapsed>>
    BY <1>5 DEF Call
  <2> QED BY <1>1, <1>2, <1>3, <1>4, <2>1
<1>6. ASSUME NEW n \in Portions \union {lengthToRead, rest}, Recv(n)
      PROVE  /\ pc' = "idle" => elapsed' = 0
             /\ pc' = "wait" => tv' \in Nat /\ elapsed' + tv' <= Earned'
             /\ pc' \notin {"sleep", "connect"}
             /\ elapsed' <= Earned' + RecoveryTime
  <2>1. /\ n \in Nat /\ 0 < n /\ pc = "wait" /\ msgLength' = msgLength + n /\ elapsed' = elapsed
    BY <1>6, RecvCases
  <2>2. Earned + ctx.byte <= Earned' /\ Earned' \in Nat
    <3>1. /\ ctx.byte * msgLength + ctx.byte <= ctx.byte * (msgLength + n)
          /\ ctx.byte * (msgLength + n) \in Nat
      BY <1>1, <2>1, BytesEarn
    <3>2. Earned' = FirstTimer + ctx.byte * (msgLength + n)
      BY <1>1, <2>1 DEF Earned
    <3> QED BY <1>1, <1>3, <3>1, <3>2
  <2>3. \A s, len : Expect(s, len) => pc' = "wait" /\ tv' \in {tv, ctx.byte}
    BY <2>1 DEF Expect
  <2>4. \A value, error : Return(value, error) => pc' = "done"
    BY DEF Return
  <2>5. CheckIntegrity(Asked) => pc' = "done"
    BY <2>4 DEF CheckIntegrity
  <2>6. (pc' = "wait" /\ tv' \in {tv, ctx.byte}) \/ pc' = "done"
    BY <1>6, <2>3, <2>4, <2>5, RecvCases
  <2>7. elapsed' <= Earned' + RecoveryTime
    <3>1. elapsed <= Earned + RecoveryTime
      BY <1>2
    <3>2. Earned \in Nat /\ Earned' \in Nat /\ elapsed' = elapsed
      BY <1>3, <2>1, <2>2
    <3>3. Earned <= Earned'
      BY <1>1, <2>2, <3>2
    <3>4. \A e \in Nat, f \in Nat, t \in Nat, d \in Nat : t <= e + d /\ e <= f => t <= f + d
      OBVIOUS
    <3>5. elapsed <= Earned' + RecoveryTime
      BY <1>1, <3>1, <3>2, <3>3, <3>4
    <3> QED BY <3>2, <3>5
  <2>8. ASSUME tv' \in {tv, ctx.byte}
        PROVE  tv' \in Nat /\ elapsed' + tv' <= Earned'
    BY <1>1, <1>2, <1>3, <2>1, <2>2, <2>8
  <2> QED BY <2>6, <2>7, <2>8
<1>7. ASSUME UNCHANGED <<msgLength, elapsed>>, pc' = "done"
      PROVE  pc' \notin {"idle", "wait", "sleep", "connect"} /\ elapsed' <= Earned' + RecoveryTime
  BY <1>2, <1>4, <1>7
<1>8. ASSUME pc = "wait", Link, UNCHANGED <<msgLength, elapsed>>, pc' \in {"sleep", "connect"},
             tv' = ctx.response
      PROVE  tv' \in Nat /\ elapsed' + tv' <= Earned' + RecoveryTime
             /\ elapsed' <= Earned' + RecoveryTime
  BY <1>1, <1>2, <1>3, <1>4, <1>8
<1>9. CASE WakeUp \/ Connected \/ ConnectTimedOut
  BY <1>7, <1>9 DEF WakeUp, Connected, ConnectTimedOut, Return
<1>10. CASE TimedOut \/ (\E e \in {"EBADF", "EIO"} : SelectFails(e))
            \/ (\E e \in {"ECONNRESET", "ECONNREFUSED", "EBADF", "EIO"} : RecvFails(e))
  <2>1. pc = "wait" /\ UNCHANGED <<msgLength, elapsed>>
    BY <1>10 DEF TimedOut, SelectFails, RecvFails
  <2>2. \/ pc' = "done"
        \/ Link /\ pc' \in {"sleep", "connect"} /\ tv' = ctx.response
    BY <1>10 DEF TimedOut, SelectFails, RecvFails, Reconnect, Recover, Return
  <2> QED BY <1>7, <1>8, <2>1, <2>2
<1>11. CASE Tick
  <2>1. /\ pc \in {"wait", "sleep", "connect"} /\ pc' = pc /\ tv # 0 /\ msgLength' = msgLength
        /\ tv' = IF tv = NoTimer THEN NoTimer ELSE tv - 1
        /\ elapsed' = IF elapsed < Horizon THEN elapsed + 1 ELSE elapsed
    BY <1>11 DEF Tick
  <2>2. tv' \in Nat /\ elapsed' + tv' <= elapsed + tv /\ elapsed' <= elapsed + tv /\ elapsed' \in Nat
    BY <1>1, <1>2, <2>1 DEF NoTimer
  <2> QED BY <1>1, <1>2, <1>3, <1>4, <2>1, <2>2
<1>12. CASE UNCHANGED vars
  BY <1>2, <1>4, <1>12 DEF vars
<1> QED BY <1>5, <1>6, <1>9, <1>10, <1>11, <1>12 DEF Next

\* Every byte earns a call one byte timeout and no more, and its recovery one response timeout and
\* no more, for all streams, portions and timeouts; so a call that has a timer from the start ends
\* in time that does not depend on who sends the message.
THEOREM ReceivedInTime == Spec => []ReceiveDeadline
<1>1. Init => SpanInv
  <2> SUFFICES ASSUME Init, FirstTimer # NoTimer PROVE elapsed <= Earned + RecoveryTime
    BY DEF SpanInv, Init
  <2>1. /\ FirstTimer \in Nat /\ ctx.byte \in Nat /\ msgLength = 0 /\ elapsed = 0
        /\ RecoveryTime \in Nat
    BY InitIInv, StreamFacts DEF IInv, FirstTimer, RecoveryTime, Init
  <2> QED BY <2>1 DEF Earned
<1>2. IInv /\ SpanInv /\ [Next]_vars => SpanInv'
  BY SpanStep
<1>3. IInv /\ SpanInv => ReceiveDeadline
  BY DEF SpanInv, ReceiveDeadline, Earned
<1> QED BY <1>1, <1>2, <1>3, AlwaysIInv, PTL DEF Spec
=============================================================================

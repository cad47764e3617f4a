---------------------------- MODULE ModbusServer ----------------------------
(***************************************************************************)
(* A server: requests come in, one after another, perhaps before the       *)
(* earlier ones are answered; the loop around modbus_receive takes them in *)
(* turn and modbus_reply executes each on the tables of a mapping, or      *)
(* builds an exception.  Some exceptions wait the response timeout and     *)
(* flush what has come in.                                                 *)
(***************************************************************************)
EXTENDS ModbusClient

CONSTANTS
    Backend,       \* "RTU" or "TCP"
    Messages,      \* the requests that may come in, see RequestType
    Start, Size,   \* table -> address of its first element, number of elements
    Samples,       \* values the application puts into the input tables
    RefusalCodes,  \* exceptions it answers by itself
    MaxRequests    \* bound: requests that come in

Tables == {"bits", "inputBits", "registers", "inputRegisters"}
BitTables == {"bits", "inputBits"}
InputTables == {"inputBits", "inputRegisters"}

ASSUME ModbusServerAssumption ==
    /\ Backend \in {"RTU", "TCP"}
    /\ Messages \subseteq RequestType
    /\ \A q \in Messages : Len(q.data) \in Byte
    /\ Start \in [Tables -> Nat] /\ Size \in [Tables -> Nat]
    /\ Samples \subseteq [bit : {ON, OFF}, word : Word]
    /\ RefusalCodes \subseteq Byte \ {0}
    /\ MaxRequests \in Nat

VARIABLES
    mapping,   \* table -> index -> value
    line,      \* what has come in and is not read: numbered requests
    pc,        \* "receive", or "sleep" before a flush
    sleeper,   \* the request whose exception waits for the flush
    req,       \* the request handled last
    reply,     \* what was sent for it, NoReply for nothing
    outcome    \* of each request that came in

vars == <<mapping, line, pc, sleeper, req, reply, outcome>>

Broadcast == 0
NoReply == [fc |-> 0]
NoRequest == [n |-> 0]

Outcomes == {"waiting", "served", "refused", "unsupported", "illegal", "dropped"}

----------------------------------------------------------------------------
\* The limits of modbus.h.

MaxReadBits == 2000
MaxReadRegisters == 125
MaxWriteBits == 1968
MaxWriteRegisters == 123
MaxWrWriteRegisters == 121

NotImplementedCode == 7
KnownCodes == ReadBits \union ReadRegisters \union RepeatingCodes \union
              {ReportSlaveId, WriteAndRead, NotImplementedCode}

Table(fc) ==
    IF fc \in {1, 5, WriteBits} THEN "bits"
    ELSE IF fc = 2 THEN "inputBits"
    ELSE IF fc = 4 THEN "inputRegisters"
    ELSE "registers"

\* Values a request reads or, but for code 23, writes from its first address on.
Extent(q) ==
    IF q.fc \in {ReportSlaveId, NotImplementedCode} \/ q.fc \notin KnownCodes THEN 0
    ELSE IF q.fc \in WriteSingle \union {MaskWrite} THEN 1
    ELSE q.nb

\* Seeded fault: the data of a request that writes are not compared with its number.
BadQuantityUnmatched(q) ==
    \/ q.fc \in ReadBits /\ (q.nb < 1 \/ MaxReadBits < q.nb)
    \/ q.fc \in ReadRegisters /\ (q.nb < 1 \/ MaxReadRegisters < q.nb)
    \/ q.fc = WriteBits /\ (q.nb < 1 \/ MaxWriteBits < q.nb)
    \/ q.fc = WriteRegisters /\ (q.nb < 1 \/ MaxWriteRegisters < q.nb)
    \/ /\ q.fc = WriteAndRead
       /\ q.wnb < 1 \/ MaxWrWriteRegisters < q.wnb \/ q.nb < 1 \/ MaxReadRegisters < q.nb

\* Seeded fault: the server, too, checks the upper limits only.
BadQuantityUpper(q) ==
    \/ q.fc \in ReadBits /\ MaxReadBits < q.nb
    \/ q.fc \in ReadRegisters /\ MaxReadRegisters < q.nb
    \/ q.fc = WriteBits /\ (MaxWriteBits < q.nb \/ 8 * Len(q.data) < q.nb)
    \/ q.fc = WriteRegisters /\ (MaxWriteRegisters < q.nb \/ Len(q.data) # 2 * q.nb)
    \/ /\ q.fc = WriteAndRead
       /\ MaxWrWriteRegisters < q.wnb \/ MaxReadRegisters < q.nb \/ Len(q.data) # 2 * q.wnb

\* An illegal number of values, or of bytes for them.
BadQuantity(q) ==
    \/ q.fc \in ReadBits /\ (q.nb < 1 \/ MaxReadBits < q.nb)
    \/ q.fc \in ReadRegisters /\ (q.nb < 1 \/ MaxReadRegisters < q.nb)
    \/ q.fc = WriteBits /\ (q.nb < 1 \/ MaxWriteBits < q.nb \/ 8 * Len(q.data) < q.nb)
    \/ q.fc = WriteRegisters /\ (q.nb < 1 \/ MaxWriteRegisters < q.nb \/ Len(q.data) # 2 * q.nb)
    \/ /\ q.fc = WriteAndRead
       /\ \/ q.wnb < 1 \/ MaxWrWriteRegisters < q.wnb
          \/ q.nb < 1 \/ MaxReadRegisters < q.nb
          \/ Len(q.data) # 2 * q.wnb

\* Seeded fault: the last address is taken for the first one behind the table.
BeyondInclusive(table, address, nb) ==
    address - Start[table] < 0 \/ address - Start[table] + nb >= Size[table]

\* mapping_address and its end are not in the table.
Beyond(table, address, nb) ==
    address - Start[table] < 0 \/ address - Start[table] + nb > Size[table]

BadAddress(q) ==
    \/ Extent(q) > 0 /\ Beyond(Table(q.fc), q.addr, Extent(q))
    \/ q.fc = WriteAndRead /\ Beyond("registers", q.waddr, q.wnb)

\* A coil is set with 0xFF00 and reset with 0.
BadValue(q) == q.fc = 5 /\ q.value \notin {8 .. 15, {}}

\* Seeded fault: codes nobody knows are not answered.
FlushesKnown(q) == BadQuantity(q)

\* Seeded fault: a wrong address flushes, too.
FlushesAddress(q) == q.fc \notin KnownCodes \/ BadQuantity(q) \/ BadAddress(q)

\* The exceptions that flush.
Flushes(q) == q.fc \notin KnownCodes \/ BadQuantity(q)

\* What is executed.
Accepted(q) ==
    /\ q.fc \in KnownCodes \ {NotImplementedCode}
    /\ ~Flushes(q) /\ ~BadAddress(q) /\ ~BadValue(q)

----------------------------------------------------------------------------
\* The tables and the bytes.

\* Seeded fault: the first value of a byte goes to its highest bit.
IoStatusReversed(t, address, nb) ==
    [k \in 1 .. BitBytes(nb) |->
        {b \in 0 .. 7 : 8 * k - 1 - b < nb /\ t[address + 8 * k - 1 - b] = ON}]

\* response_io_status.
IoStatus(t, address, nb) ==
    [k \in 1 .. BitBytes(nb) |->
        {b \in 0 .. 7 : 8 * (k - 1) + b < nb /\ t[address + 8 * (k - 1) + b] = ON}]

\* The bytes of registers, high byte first.
RegisterBytes(t, address, nb) ==
    [k \in 1 .. 2 * nb |->
        IF k % 2 = 1 THEN HiByte(t[address + (k - 1) \div 2]) ELSE LoByte(t[address + (k - 1) \div 2])]

\* modbus_set_bits_from_bytes.
SetBits(t, idx, nb, bytes) ==
    [i \in DOMAIN t |->
        IF idx <= i /\ i < idx + nb
        THEN IF (i - idx) % 8 \in bytes[(i - idx) \div 8 + 1] THEN ON ELSE OFF
        ELSE t[i]]

SetRegisters(t, idx, nb, bytes) ==
    [i \in DOMAIN t |->
        IF idx <= i /\ i < idx + nb
        THEN WordOf(bytes[2 * (i - idx) + 1], bytes[2 * (i - idx) + 2])
        ELSE t[i]]

\* The mask write: and keeps, or fills what and does not keep.
MaskedWord(old, and, or) == (old \cap and) \union (or \ and)

\* Seeded fault: the value of the request is stored as it comes.
CoilRaw(value) == value

\* 0xFF00 is ON.
CoilOf(value) == IF value = {} THEN OFF ELSE ON

\* What request q makes of the table it names.
Executed(q) ==
    LET t == mapping[Table(q.fc)]
        at == q.addr - Start[Table(q.fc)]
    IN  IF q.fc = 5 THEN [t EXCEPT ![at] = CoilOf(q.value)]
        ELSE IF q.fc = 6 THEN [t EXCEPT ![at] = q.value]
        ELSE IF q.fc = WriteBits THEN SetBits(t, at, q.nb, q.data)
        ELSE IF q.fc = WriteRegisters THEN SetRegisters(t, at, q.nb, q.data)
        ELSE IF q.fc = MaskWrite THEN [t EXCEPT ![at] = MaskedWord(t[at], q.value, q.mask)]
        ELSE IF q.fc = WriteAndRead
        THEN SetRegisters(t, q.waddr - Start["registers"], q.wnb, q.data)
        ELSE t

\* "LMB" and the version, behind the id and the run indicator.
SlaveIdBytes == [k \in 1 .. 10 |-> {}]

\* The data of the reply, read from table t.
ReplyData(q, t) ==
    IF q.fc \in ReadBits THEN IoStatus(t, q.addr - Start[Table(q.fc)], q.nb)
    ELSE IF q.fc \in ReadRegisters \union {WriteAndRead}
    THEN RegisterBytes(t, q.addr - Start[Table(q.fc)], q.nb)
    ELSE IF q.fc = ReportSlaveId THEN SlaveIdBytes
    ELSE <<>>

Response(q, t) == [fc |-> q.fc, code |-> 0, echo |-> Repeated(q), data |-> ReplyData(q, t)]

\* response_exception.  The function code is the int of sft_t, sent as a byte.
ResponseException(q, code) ==
    [fc |-> (q.fc + Exception) % 256, code |-> code, echo |-> <<>>, data |-> <<>>]

----------------------------------------------------------------------------

\* modbus_mapping_new_start_address.
Init ==
    /\ mapping = [t \in Tables |-> [i \in 0 .. Size[t] - 1 |-> {}]]
    /\ line = <<>> /\ outcome = <<>>
    /\ pc = "receive"
    /\ sleeper = NoRequest /\ req = NoRequest /\ reply = NoReply

Arrive(q) ==
    /\ Len(outcome) < MaxRequests
    /\ line' = Append(line, [n |-> Len(outcome) + 1, q |-> q])
    /\ outcome' = Append(outcome, "waiting")
    /\ UNCHANGED <<mapping, pc, sleeper, req, reply>>

\* The application sets an element of an input table.
Sample(t, i, v) ==
    /\ mapping' = [mapping EXCEPT ![t][i] = IF t = "inputBits" THEN v.bit ELSE v.word]
    /\ UNCHANGED <<line, pc, sleeper, req, reply, outcome>>

\* The request the loop takes next.
First == Head(line)

\* It is read, and ends as o.
Take(o) ==
    /\ pc = "receive"
    /\ line # <<>>
    /\ line' = Tail(line)
    /\ outcome' = [outcome EXCEPT ![First.n] = o]

\* send_msg of r, which may fail; a broadcast is not answered on a serial line.
Send(entry, r) ==
    /\ req' = entry
    /\ reply' \in IF Backend = "RTU" /\ entry.q.slave = Broadcast THEN {NoReply} ELSE {r, NoReply}

\* modbus_reply: what it executes, ...
Serve ==
    LET q == First.q IN
    /\ Take("served")
    /\ Accepted(q)
    /\ mapping' = [mapping EXCEPT ![Table(q.fc)] = Executed(q)]
    /\ Send(First, Response(q, Executed(q)))
    /\ UNCHANGED <<pc, sleeper>>

\* ... refuses without a flush, ...
Refuse ==
    LET q == First.q IN
    /\ Take("refused")
    /\ ~Flushes(q)
    /\ BadAddress(q) \/ BadValue(q)
    /\ Send(First, ResponseException(q, IF BadAddress(q) THEN IllegalDataAddress ELSE IllegalDataValue))
    /\ UNCHANGED <<mapping, pc, sleeper>>

\* ... does not implement, ...
NotImplemented ==
    /\ Take("unsupported")
    /\ First.q.fc = NotImplementedCode
    /\ req' = First /\ reply' = NoReply
    /\ UNCHANGED <<mapping, pc, sleeper>>

\* ... or refuses with a flush: response_exception sleeps ...
SleepBeforeFlush ==
    /\ Take("waiting")
    /\ Flushes(First.q)
    /\ pc' = "sleep"
    /\ sleeper' = First
    /\ UNCHANGED <<mapping, req, reply>>

\* ... and flushes.
FlushAndRefuse ==
    /\ pc = "sleep"
    /\ pc' = "receive"
    /\ line' = <<>>
    /\ outcome' = [n \in DOMAIN outcome |->
                     IF n = sleeper.n THEN "illegal"
                     ELSE IF \E i \in DOMAIN line : line[i].n = n THEN "dropped"
                     ELSE outcome[n]]
    /\ Send(sleeper, ResponseException(sleeper.q,
                        IF sleeper.q.fc \in KnownCodes THEN IllegalDataValue ELSE IllegalFunction))
    /\ sleeper' = NoRequest
    /\ UNCHANGED mapping

\* The application refuses instead, with modbus_reply_exception; this exception is sent
\* to a broadcast, too.
ReplyException(code) ==
    /\ Take("refused")
    /\ req' = First
    /\ reply' \in IF code < ExceptionMax THEN {ResponseException(First.q, code), NoReply} ELSE {NoReply}
    /\ UNCHANGED <<mapping, pc, sleeper>>

Next ==
    \/ \E q \in Messages : Arrive(q)
    \/ \E t \in InputTables, v \in Samples : 0 \in DOMAIN mapping[t] /\ Sample(t, 0, v)
    \/ Serve
    \/ Refuse
    \/ NotImplemented
    \/ SleepBeforeFlush
    \/ FlushAndRefuse
    \/ \E code \in RefusalCodes : ReplyException(code)

Spec == Init /\ [][Next]_vars

\* The server's loop goes on: it receives and replies, and sleeps end.
Fairness ==
    WF_vars(Serve \/ Refuse \/ NotImplemented \/ SleepBeforeFlush \/ FlushAndRefuse)

FairSpec == Spec /\ Fairness
----------------------------------------------------------------------------
\* Properties.

TypeOK ==
    /\ DOMAIN mapping = Tables
    /\ \A t \in Tables :
        mapping[t] \in [0 .. Size[t] - 1 -> IF t \in BitTables THEN {ON, OFF} ELSE Word]
    /\ pc \in {"receive", "sleep"}
    /\ \A i \in DOMAIN line : line[i].q \in Messages /\ line[i].n \in DOMAIN outcome
    /\ pc = "sleep" <=> sleeper # NoRequest
    /\ \A n \in DOMAIN outcome : outcome[n] \in Outcomes

\* What modbus_reply executes reaches no element outside the table, no byte behind the
\* ones that came in, and its reply fits the longest message of the backend.
InBounds ==
    pc = "receive" /\ line # <<>> /\ Accepted(First.q) =>
        LET q == First.q
            t == mapping[Table(q.fc)]
        IN  /\ \A i \in 0 .. Extent(q) - 1 : q.addr - Start[Table(q.fc)] + i \in DOMAIN t
            /\ q.fc = WriteAndRead =>
                 \A i \in 0 .. q.wnb - 1 : q.waddr - Start["registers"] + i \in DOMAIN t
            /\ q.fc = WriteBits => BitBytes(q.nb) <= Len(q.data)
            /\ q.fc = WriteRegisters => 2 * q.nb <= Len(q.data)
            /\ q.fc = WriteAndRead => 2 * q.wnb <= Len(q.data)
            /\ Adu(Backend, 2 + Len(ReplyData(q, t))) <= MaxAduLength(Backend)

\* What is sent for a request is what its client accepts: of an executed one the very
\* reply it waits for, of a refused one an exception.  A code from 128 on is left out: its
\* exception has a code below 128.
AnswerAccepted ==
    reply # NoReply /\ req.q.fc < Exception =>
        Verdict(Backend, req.q, reply) = (IF outcome[req.n] = "served" THEN "ok" ELSE "exception")

Span(first, nb) == first .. first + nb - 1

ReadingCodes == ReadBits \union ReadRegisters \union {WriteAndRead}

\* Every address the request names is one of the table's.
InStore(q) ==
    /\ Span(q.addr, Extent(q)) \subseteq Span(Start[Table(q.fc)], Size[Table(q.fc)])
    /\ q.fc = WriteAndRead =>
         Span(q.waddr, q.wnb) \subseteq Span(Start["registers"], Size["registers"])

\* The numbers are ones a client's function lets through, which checks the upper limits only,
\* of 0 values or more, and the data are as long as they say.
ClientNumbers(q) ==
    /\ Numbers(q) \in LegalRequests
    /\ q.fc = WriteBits => Len(q.data) = BitBytes(q.nb)
    /\ q.fc = WriteRegisters => Len(q.data) = 2 * q.nb
    /\ q.fc = WriteAndRead => Len(q.data) = 2 * q.wnb

\* A request to read or to write 0 values.
OfNothing(q) ==
    \/ q.fc \in ReadingCodes \union {WriteBits, WriteRegisters} /\ q.nb = 0
    \/ q.fc = WriteAndRead /\ q.wnb = 0

LegalNumbers(q) == ClientNumbers(q) /\ ~OfNothing(q)

\* Of the requests a client's functions build for 0 values or more, only those for 0 values
\* cost the requests behind them their answers, by a flush: a wrong address or value costs
\* nobody else.  And those for 0 values, which a client sends unchecked, are never executed:
\* what is sent for them is an exception.
OnlyEmptyOnesFlush ==
    /\ pc = "sleep" /\ ClientNumbers(sleeper.q) => OfNothing(sleeper.q)
    /\ reply # NoReply /\ OfNothing(req.q) => outcome[req.n] # "served"

\* A request with legal numbers, for addresses that are all in the table, and for a coil
\* with one of its two values, is executed.
LegalIsAccepted ==
    pc = "receive" /\ line # <<>> =>
        LET q == First.q IN
        LegalNumbers(q) /\ InStore(q) /\ (q.fc = 5 => q.value \in {8 .. 15, {}}) => Accepted(q)

\* Whatever comes in is taken, by an answer, in silence or by a flush.
EveryRequestEnds ==
    \A n \in 1 .. MaxRequests :
        n \in DOMAIN outcome ~> n \in DOMAIN outcome /\ outcome[n] # "waiting"

----------------------------------------------------------------------------
\* The store that the server implements.

\* The data hold the values that are to be written.
Understood(q) ==
    /\ q.fc = WriteBits => q.nb <= 8 * Len(q.data)
    /\ q.fc = WriteRegisters => 2 * q.nb <= Len(q.data)
    /\ q.fc = WriteAndRead => 2 * q.wnb <= Len(q.data)

Put(value) == [and |-> {}, or |-> value]

\* The request as the protocol means it: addresses to read, values to write.
Meaning(q) ==
    [area |-> Table(q.fc),
     broadcast |-> Backend = "RTU" /\ q.slave = Broadcast,
     reads |-> IF q.fc \in ReadingCodes THEN Span(q.addr, q.nb) ELSE {},
     writes |->
        IF q.fc = 5 THEN [a \in {q.addr} |-> Put(IF q.value = {} THEN OFF ELSE ON)]
        ELSE IF q.fc = 6 THEN [a \in {q.addr} |-> Put(q.value)]
        ELSE IF q.fc = MaskWrite THEN [a \in {q.addr} |-> [and |-> q.value, or |-> q.mask]]
        ELSE IF q.fc = WriteBits
        THEN [a \in Span(q.addr, q.nb) |-> Put(UnpackBits(q.nb, q.data)[a - q.addr])]
        ELSE IF q.fc = WriteRegisters
        THEN [a \in Span(q.addr, q.nb) |-> Put(UnpackWords(q.nb, q.data)[a - q.addr])]
        ELSE IF q.fc = WriteAndRead
        THEN [a \in Span(q.waddr, q.wnb) |-> Put(UnpackWords(q.wnb, q.data)[a - q.waddr])]
        ELSE <<>>]

\* What the client reads in a reply r to q.
ValuesRead(q, r) ==
    IF q.fc \in ReadBits
    THEN [a \in Span(q.addr, q.nb) |-> UnpackBits(q.nb, r.data)[a - q.addr]]
    ELSE IF q.fc \in ReadingCodes
    THEN [a \in Span(q.addr, q.nb) |-> UnpackWords(q.nb, r.data)[a - q.addr]]
    ELSE <<>>

Store ==
    INSTANCE RegisterStore WITH
        Requests <- {Meaning(q) : q \in {m \in Messages : Understood(m)}},
        Sampled <- InputTables,
        store <- [t \in Tables |->
                    [a \in Span(Start[t], Size[t]) |-> mapping[t][a - Start[t]]]],
        answer <- IF reply = NoReply THEN [status |-> "silent", values |-> <<>>]
                  ELSE IF reply.code # 0 THEN [status |-> "refused", values |-> <<>>]
                  ELSE [status |-> "ok", values |-> ValuesRead(req.q, reply)]

\* Seen by addresses and through the client's functions, every step is one request
\* executed at once and as a whole, one refused without effect, or none.
ImplementsStore == [][Store!Next]_(Store!vars)
=============================================================================

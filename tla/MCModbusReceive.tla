-------------------------- MODULE MCModbusReceive --------------------------
(* Streams of ModbusReceive for TLC: messages of the real lengths at the limits of  *)
(* every function code, with and without a message behind them, and noise.          *)
EXTENDS ModbusReceive

Stream(b, type, fc, count, length, follow, whole, slave, crc) ==
    [backend |-> b, type |-> type, fc |-> fc, count |-> count, length |-> length,
     follow |-> follow, whole |-> whole, slave |-> slave, crc |-> crc]

Request(fc, nb, write) == [fc |-> fc, nb |-> nb, write |-> write]

\* Requests whose messages are short, or as long as they may be.
EdgeRequests ==
    {Request(1, 9, 0), Request(2, 2000, 0), Request(3, 1, 0), Request(4, 125, 0),
     Request(5, 0, 0), Request(6, 0, 0), Request(15, 1, 0), Request(15, 1968, 0),
     Request(16, 1, 0), Request(16, 123, 0), Request(17, 0, 0), Request(22, 0, 0),
     Request(23, 1, 1), Request(23, 125, 121)}

Indications ==
    {Stream(b, "INDICATION", q.fc, RequestCount(q), Adu(b, RequestBytes(q)), 8, TRUE, "own",
            TRUE) : b \in {"RTU", "TCP"}, q \in EdgeRequests}

Replies ==
    {Stream(b, "CONFIRMATION", q.fc, IF q.fc = 17 THEN 4 ELSE ReplyCount(q),
            Adu(b, ReplyBytes(q, 4)), 8, TRUE, "own", TRUE) :
        b \in {"RTU", "TCP"}, q \in EdgeRequests}

Exceptions ==
    {Stream(b, "CONFIRMATION", fc + Exception, 2, Adu(b, 2), 8, TRUE, "own", TRUE) :
        b \in {"RTU", "TCP"}, fc \in {3, 16, 22}}

Devices ==
    {Stream("GOODWE", "CONFIRMATION", 129, count, Adu("GOODWE", 2 + count), 8, TRUE, slave, crc) :
        count \in {0, 30}, slave \in {"own", "other"}, crc \in BOOLEAN}

Foreign ==
    {Stream("RTU", kind[1], 3, kind[2], Adu("RTU", kind[3]), 8, TRUE, slave, FALSE) :
        kind \in {<<"INDICATION", 0, 5>>, <<"CONFIRMATION", 2, 4>>}, slave \in {"own", "other"}}

\* Codes and announced lengths nobody sends, and messages that break off.
Noise ==
    {Stream(b, type, fc, count, length, 0, FALSE, "own", FALSE) :
        b \in {"RTU", "TCP"}, type \in MsgTypes, fc \in {0, 7, 16, 23, 129, 255},
        count \in {0, 3}, length \in {0, 6, 30}}
    \union
    {Stream(b, "CONFIRMATION", fc, 255, 300, 0, FALSE, "own", FALSE) : b \in Backends, fc \in {3, 23}}
    \union
    {Stream("TCP", "INDICATION", fc, 255, 300, 0, FALSE, "own", FALSE) : fc \in {16, 23}}

AllStreams == Indications \union Replies \union Exceptions \union Devices \union Foreign \union Noise

Settings ==
    {[response |-> 2, byte |-> b, indication |-> i, recovery |-> r] :
        <<b, i, r>> \in {<<0, 0, {}>>, <<1, 0, {"LINK", "PROTOCOL"}>>, <<1, 1, {}>>}}

Pieces == {1, 60}
=============================================================================

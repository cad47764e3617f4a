--------------------------- MODULE MCModbusServer ---------------------------
(* Requests and tables of ModbusServer for TLC.                                      *)
EXTENDS ModbusServer

\* Nine bits take more than a byte; 130 input registers are more than a reply holds.
Starts == [bits |-> 1, inputBits |-> 0, registers |-> 2, inputRegisters |-> 0]
Sizes == [bits |-> 9, inputBits |-> 2, registers |-> 3, inputRegisters |-> 130]

Inputs == {[bit |-> ON, word |-> {0, 9}]}

Pattern(nb) == [i \in 0 .. nb - 1 |-> IF i % 3 = 0 THEN ON ELSE OFF]
Words(nb) == [i \in 0 .. nb - 1 |-> {i, 8}]

\* What the client's functions build, within the tables, at their ends and beyond, and for 0
\* values.
Built ==
    {ReadRequest(1, 1, 1, 9), ReadRequest(1, 1, 2, 9), ReadRequest(1, 1, 1, 0),
     ReadRequest(1, 2, 0, 2), ReadRequest(1, 3, 2, 3), ReadRequest(1, 3, 1, 1),
     ReadRequest(1, 4, 0, 125), ReadRequest(1, 4, 0, 126),
     WriteSingleRequest(0, 5, 9, 8 .. 15), WriteSingleRequest(1, 5, 10, {}),
     WriteSingleRequest(1, 5, 9, {}), WriteSingleRequest(1, 6, 4, {1, 8}),
     WriteSingleRequest(0, 6, 2, {0}),
     WriteBitsRequest(1, 1, 9, Pattern(9)), WriteBitsRequest(1, 9, 2, Pattern(2)),
     WriteRegistersRequest(1, 3, 2, Words(2)),
     MaskWriteRequest(1, 4, {1}, {1, 2}), MaskWriteRequest(1, 5, {}, {}),
     WriteAndReadRequest(1, 3, 2, Words(2), 2, 2), WriteAndReadRequest(1, 4, 2, Words(2), 2, 1),
     ReportSlaveIdRequest(1),
     WriteRegistersRequest(1, 3, 0, <<>>), WriteAndReadRequest(1, 3, 0, <<>>, 2, 1)}

\* What they do not: values, numbers and codes that are illegal or unknown.
Raw ==
    {WriteSingleRequest(1, 5, 9, {0}), ReadRequest(1, 7, 0, 0), ReadRequest(1, 43, 0, 0),
     ReadRequest(1, 129, 0, 0),
     [WriteBitsRequest(1, 1, 9, Pattern(9)) EXCEPT !.data = PackBits(8, Pattern(8))],
     [WriteRegistersRequest(1, 3, 2, Words(2)) EXCEPT !.data = PackWords(1, Words(1))],
     [WriteAndReadRequest(0, 3, 2, Words(2), 2, 2) EXCEPT !.data = PackWords(1, Words(1))]}

AllMessages == Built \union Raw

Codes == {4, ExceptionMax}
=============================================================================

---------------------------- MODULE MCModbusLink ----------------------------
(* Calls and settings of ModbusLink for TLC.                                         *)
EXTENDS ModbusLink

\* Reads of two slaves, and two writes that only their value tells apart.
SomeCalls ==
    {ReadRequest(1, 3, 0, 1), ReadRequest(2, 3, 0, 1),
     WriteSingleRequest(1, 6, 0, {0}), WriteSingleRequest(1, 6, 0, {1})}

Setting(b, recovery, delays, budget) ==
    [backend |-> b, recovery |-> recovery, delays |-> delays, faults |-> budget]

\* Late answers with every recovery mode, and none late where OwnAnswer asks for it.
SomeSettings ==
    {Setting(b, r, {Prompt, Late}, 1) : b \in {"TCP", "RTU"}, r \in SUBSET {"LINK", "PROTOCOL"}} \union
    {Setting("TCP", {"LINK"}, {Late}, 2)} \union
    {Setting("GOODWE", r, {Prompt, Late}, 1) : r \in {{}, {"LINK"}}} \union
    {Setting(b, {}, {Prompt}, 1) : b \in {"RTU", "GOODWE"}} \union
    {Setting("RTU", {"PROTOCOL"}, {Prompt}, 1)}
=============================================================================

------------------------------ MODULE MCRtuBus ------------------------------
(* Settings of RtuBus for TLC.                                                       *)
EXTENDS RtuBus

Setting(master, silent, start, kinds) ==
    [master |-> master, slave |-> 2, byte |-> 1, delay |-> 1, silent |-> silent,
     start |-> start, kinds |-> kinds]

\* The slaves' response timeout is 2, the master's 2 or 3; up to two slaves are off.  In
\* one setting, with all of them on, they have no byte timeout.
SomeSettings ==
    {[Setting(2, {}, "listen", {"read"}) EXCEPT !.byte = 0]} \union
    {Setting(m, silent, start, kinds) :
        m \in {2, 3}, silent \in {{}, {2}, {1, 3}}, start \in {"listen", "ignore"},
        kinds \in {{"write"}, {"read", "write"}}}

\* All in step at first; the slaves' timeout, which starts later, ends after the master's.
LateSettings ==
    {[Setting(2, silent, "listen", {"write"}) EXCEPT !.slave = 3] : silent \in {{}, {2}}}
=============================================================================

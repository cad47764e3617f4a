----------------------------- MODULE MCStartup -----------------------------
(* Files and command lines of Startup for TLC.                                        *)
EXTENDS Startup

Dev(mppt) == [whole |-> TRUE, mppt |-> mppt, serial |-> 14]

\* Devices at the limits of mppt and serial, beyond them, and one that has no member.
SomeDevices ==
    {<<>>, <<Dev(2)>>, <<Dev(12), Dev(3)>>, <<Dev(13)>>, <<Dev(257)>>,
     <<[Dev(2) EXCEPT !.serial = 23]>>, <<[Dev(2) EXCEPT !.serial = 24]>>,
     <<Dev(2), [Dev(2) EXCEPT !.whole = FALSE]>>}

SomePlants ==
    {[form |-> "list", devices |-> d] : d \in SomeDevices}
    \union {[form |-> f, devices |-> <<>>] : f \in {"no list", "no object"}}

File(plants) == [form |-> "json", hasDuration |-> TRUE, isArray |-> TRUE, plants |-> plants]

SomeFiles ==
    {File(p) : p \in BoundedSeq(SomePlants, 2)}
    \union {[File(<<>>) EXCEPT !.form = f] : f \in {"absent", "malformed"}}
    \union {[File(<<>>) EXCEPT !.hasDuration = FALSE], [File(<<>>) EXCEPT !.isArray = FALSE]}

Numbers ==
    [t \in {"-v", "-T", "-c", "-h", "3", "-1"} |-> IF t = "3" THEN 3 ELSE IF t = "-1" THEN -1 ELSE 0]

SomeCommands == BoundedSeq(DOMAIN Numbers, 3)
=============================================================================

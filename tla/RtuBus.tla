------------------------------- MODULE RtuBus -------------------------------
(***************************************************************************)
(* Several slaves on one serial line.  Each hears everything the master    *)
(* and the other slaves send.  _modbus_rtu_receive takes a request for     *)
(* another slave for a sign that the next message is that slave's answer,  *)
(* and skips it, whatever it is, unless the response timeout comes first.  *)
(* The master polls the slaves in turn.                                    *)
(***************************************************************************)
EXTENDS Integers

CONSTANTS
    N,           \* how many slaves the master polls
    Settings,    \* see SettingType
    MaxFaults    \* bound: messages lost

Slaves == 1 .. N

\* master and slave are the response timeouts at the two ends, byte the byte timeout, 0 for
\* none, delay the longest time a slave takes to answer; a slave in `silent' is switched off.
SettingType ==
    [master : Nat \ {0}, slave : Nat \ {0}, byte : Nat, delay : Nat, silent : SUBSET Slaves,
     start : {"listen", "ignore"}, kinds : SUBSET {"read", "write"}]

ASSUME RtuBusAssumption ==
    /\ N \in Nat \ {0}
    /\ Settings \subseteq SettingType
    /\ \A c \in Settings : c.kinds # {} /\ c.delay < c.master
    /\ MaxFaults \in Nat

VARIABLES
    ctx,       \* a setting
    target,    \* the slave polled, or to be polled next
    asking,    \* the master waits for its answer
    tm,        \* what is left of the master's timer
    kind,      \* of the request under way
    mode,      \* slave -> "listen", "ignore" the next message, "junk" when amid one
    ts,        \* slave -> what is left of its timer, NoTimer
    due,       \* slave -> what is left until it answers, NotDue
    answered,  \* the last poll was answered
    swallowed, \* the last request came to a slave that took it for something else
    faults     \* faults left

vars == <<ctx, target, asking, tm, kind, mode, ts, due, answered, swallowed, faults>>

NotDue == -1
NoTimer == -1
Kinds == {"read", "write"}
Modes == {"listen", "ignore", "junk"}
Live == Slaves \ ctx.silent

\* Seeded fault: the round does not come to an end.
NextSlavePast(s) == s + 1

\* The slave after s in the master's round.
NextSlave(s) == IF s + 1 \in Slaves THEN s + 1 ELSE 1

Init ==
    /\ ctx \in Settings
    /\ target = 1 /\ asking = FALSE /\ tm = 0 /\ kind \in ctx.kinds
    /\ mode \in [Slaves -> {"listen", ctx.start}]
    /\ ts = [x \in Slaves |-> IF mode[x] = "ignore" THEN ctx.slave ELSE NoTimer]
    /\ due = [x \in Slaves |-> NotDue]
    /\ answered = FALSE /\ swallowed = FALSE
    /\ faults = MaxFaults

----------------------------------------------------------------------------
\* What a slave makes of a message.  The request and the answer of a "write", of one coil or
\* register, have one length; those of a "read" have not: taken for the other, they leave
\* bytes behind or miss some, and what these give with the next message is open.

\* Seeded fault: a request for another slave is just skipped.
AfterRequestSkipped(x, s, k) ==
    IF mode[x] = "junk" THEN Modes
    ELSE IF mode[x] = "ignore" THEN IF k = "write" THEN {"listen"} ELSE {"listen", "junk"}
    ELSE {"listen"}

\* The modes of slave x after a request of kind k to slave s.
AfterRequest(x, s, k) ==
    IF mode[x] = "junk" THEN Modes
    ELSE IF mode[x] = "ignore" THEN IF k = "write" THEN {"listen"} ELSE {"listen", "junk"}
    ELSE IF x = s THEN {"listen"}
    ELSE {"ignore"}

\* The modes of slave x after an answer of kind k to the master.
AfterAnswer(x, k) ==
    IF mode[x] = "junk" THEN Modes
    ELSE IF mode[x] = "ignore" THEN {"listen"}
    ELSE IF k = "write" THEN {"ignore"}
    ELSE {"ignore", "junk"}

\* The timers that may run in slaves left amid a message: without a byte timeout, that of its
\* start, which an indication has not.  Amid junk, another message of either kind may begin.
JunkTimers ==
    IF ctx.byte > 0 THEN [Slaves -> {ctx.byte}]
    ELSE {t \in [Slaves -> {NoTimer} \union 0 .. ctx.slave] :
            \A x \in Slaves :
                \/ mode[x] \in {"ignore", "junk"} /\ t[x] = ts[x]
                \/ mode[x] \in {"listen", "junk"} /\ t[x] = NoTimer
                \/ mode[x] = "junk" /\ t[x] = ctx.slave}

\* Seeded fault: the confirmation to ignore is waited for as long as the master waits.
TimerOfMaster(m, amid) == IF m = "junk" THEN amid ELSE IF m = "ignore" THEN ctx.master ELSE NoTimer

\* The timer that runs in mode m, amid that of a slave amid a message: an indication has none.
Timer(m, amid) == IF m = "junk" THEN amid ELSE IF m = "ignore" THEN ctx.slave ELSE NoTimer

\* The slaves in `ears' get a message and are left in one of the modes After[x].
Heard(ears, After) ==
    /\ mode' \in [Slaves -> Modes]
    /\ \A x \in Slaves : mode'[x] \in IF x \in ears THEN After[x] ELSE {mode[x]}
    /\ \E t \in JunkTimers :
        ts' = [x \in Slaves |-> IF x \in ears THEN Timer(mode'[x], t[x]) ELSE ts[x]]

\* The line fails to carry a message to the slaves in `deaf'.
Fault(deaf) ==
    IF deaf = {} THEN UNCHANGED faults ELSE faults > 0 /\ faults' = faults - 1

----------------------------------------------------------------------------

\* The master asks slave target, which answers if the request is for what it listens to.
Request(k, deaf) ==
    /\ ~asking /\ k \in ctx.kinds
    /\ asking' = TRUE /\ tm' = ctx.master /\ kind' = k
    /\ answered' = FALSE
    /\ Heard(Live \ deaf, [x \in Slaves |-> AfterRequest(x, target, k)])
    /\ due' = IF target \in Live \ deaf /\ mode[target] = "listen"
              THEN [due EXCEPT ![target] = ctx.delay] ELSE due
    /\ swallowed' = (target \in Live \ deaf /\ mode[target] # "listen")
    /\ Fault(deaf)
    /\ UNCHANGED <<ctx, target>>

\* A slave answers: the master, if it still waits for it, has done, and the others hear it.
Answer(x, deaf) ==
    /\ due[x] # NotDue
    /\ due' = [due EXCEPT ![x] = NotDue]
    /\ Heard(Live \ (deaf \union {x}), [y \in Slaves |-> AfterAnswer(y, kind)])
    /\ IF asking /\ target = x /\ x \notin deaf
         THEN asking' = FALSE /\ tm' = 0 /\ answered' = TRUE /\ target' = NextSlave(target)
         ELSE UNCHANGED <<asking, tm, answered, target>>
    /\ Fault(deaf)
    /\ UNCHANGED <<ctx, kind, swallowed>>

\* The master gives up.
GiveUp ==
    /\ asking /\ tm = 0
    /\ asking' = FALSE
    /\ target' = NextSlave(target)
    /\ UNCHANGED <<ctx, tm, kind, mode, ts, due, answered, swallowed, faults>>

\* _modbus_receive_msg of slave x times out: "ignore errors and reset the flag".
StopIgnoring(x) ==
    /\ mode[x] = "ignore" /\ ts[x] = 0
    /\ mode' = [mode EXCEPT ![x] = "listen"]
    /\ ts' = [ts EXCEPT ![x] = NoTimer]
    /\ UNCHANGED <<ctx, target, asking, tm, kind, due, answered, swallowed, faults>>

\* The rest of the junk does not come in time.
DropJunk(x) ==
    /\ mode[x] = "junk" /\ ts[x] = 0
    /\ mode' = [mode EXCEPT ![x] = "listen"]
    /\ ts' = [ts EXCEPT ![x] = NoTimer]
    /\ UNCHANGED <<ctx, target, asking, tm, kind, due, answered, swallowed, faults>>

Less(t) == IF t > 0 THEN t - 1 ELSE t

\* Time passes; no answer is later than due.
Tick ==
    /\ asking => tm > 0
    /\ \A x \in Slaves : (mode[x] # "listen" => ts[x] # 0) /\ due[x] # 0
    /\ tm' = Less(tm)
    /\ ts' = [x \in Slaves |-> Less(ts[x])]
    /\ due' = [x \in Slaves |-> Less(due[x])]
    /\ UNCHANGED <<ctx, target, asking, kind, mode, answered, swallowed, faults>>

Next ==
    \/ \E k \in Kinds, deaf \in SUBSET Slaves : Request(k, deaf)
    \/ \E x \in Slaves, deaf \in SUBSET Slaves : Answer(x, deaf)
    \/ GiveUp
    \/ \E x \in Slaves : StopIgnoring(x) \/ DropJunk(x)
    \/ Tick

Spec == Init /\ [][Next]_vars

\* The master goes on polling, time passes, and slaves answer and time out.
FairSpec ==
    /\ Spec
    /\ WF_vars(\E k \in Kinds : Request(k, {}))
    /\ WF_vars(GiveUp) /\ WF_vars(Tick)
    /\ \A x \in Slaves : WF_vars(Answer(x, {})) /\ WF_vars(StopIgnoring(x) \/ DropJunk(x))

----------------------------------------------------------------------------
\* Properties.

TypeOK ==
    /\ ctx \in Settings /\ target \in Slaves /\ asking \in BOOLEAN /\ tm \in 0 .. ctx.master /\ kind \in Kinds
    /\ mode \in [Slaves -> Modes] /\ ts \in [Slaves -> {NoTimer} \union Nat] /\ due \in [Slaves -> {NotDue} \union Nat]
    /\ answered \in BOOLEAN /\ swallowed \in BOOLEAN /\ faults \in 0 .. MaxFaults

\* A slave still takes a message for the confirmation after the last answer can have come,
\* and has done with it before the master gives up.  There is a byte timeout: without one a
\* slave may stay amid an indication for ever.
Regular(c) ==
    /\ c.delay < c.slave /\ c.byte \in 1 .. c.slave
    /\ c.slave < c.master /\ c.delay + c.slave <= c.master

\* Slaves that are in step at first, and lose no message, take no request for the answer to
\* another: whatever the timeouts if all of them are on, with such timeouts if some are off.
NoneSwallowed ==
    ctx.start = "listen" /\ faults = MaxFaults
        /\ (Regular(ctx) \/ (ctx.silent = {} /\ ctx.delay < ctx.slave)) => ~swallowed

\* Whatever was lost and however the slaves stood, with such timeouts a poll that nobody
\* answers puts them in step: when the master gives up none is amid a message or skips one,
\* but those whose time is over.
SilenceRealigns ==
    Regular(ctx) /\ asking /\ tm = 0 => \A x \in Live : mode[x] # "listen" => ts[x] = 0

\* With such timeouts every slave that is on answers the master again and again, however
\* they stand at first: one that is out of step is not so for ever.
EverySlaveServed ==
    \A x \in Slaves : []<>(Regular(ctx) /\ x \in Live => answered /\ target = NextSlave(x))

\* "The next expected message is a confirmation to ignore", modbus-rtu.c:323: what slave x
\* skips, unless its time is over, is what comes while the master waits for an answer.
NextIsConfirmation ==
    [][\A x \in Live : mode[x] = "ignore" /\ mode'[x] # "ignore" => asking \/ ts[x] = 0]_vars
=============================================================================

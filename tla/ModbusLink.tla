----------------------------- MODULE ModbusLink -----------------------------
(***************************************************************************)
(* A client's calls over a link that loses, damages and delays messages.   *)
(* A call sends a request, waits for a message no longer than the response *)
(* timeout, and takes the first one that comes for the answer, after the   *)
(* checks of its backend.  Answers of calls given up may still come, and   *)
(* are met by later calls.  Error recovery sleeps, flushes and connects    *)
(* anew.  Messages come whole: portions are the matter of ModbusReceive.   *)
(***************************************************************************)
EXTENDS ModbusClient

CONSTANTS
    Settings,         \* backends and recovery modes, see SettingType
    Calls,            \* requests of the application, see ModbusClient
    ResponseTimeout,
    Prompt, Late,     \* times within which an answer comes, if it comes
    TidMax,           \* bound: UINT16_MAX
    MaxCalls,         \* bound: calls
    MaxFaults         \* bound: failures of the link

SettingType ==
    [backend : Backends, recovery : SUBSET {"LINK", "PROTOCOL"}, delays : SUBSET {Prompt, Late},
     faults : 0 .. MaxFaults]

ASSUME ModbusLinkAssumption ==
    /\ Settings \subseteq SettingType
    /\ Calls \subseteq RequestType /\ \A c \in Calls : Numbers(c) \in LegalRequests
    /\ ResponseTimeout \in Nat \ {0} /\ Prompt \in Nat /\ Late \in Nat
    /\ Prompt < ResponseTimeout /\ Late < 2 * ResponseTimeout
    /\ TidMax \in Nat /\ MaxCalls \in Nat /\ MaxFaults \in Nat

VARIABLES
    ctx,       \* a setting
    pc,        \* "idle", "send", "wait" for the answer, "sleep", "connect"
    q,         \* the request under way
    n,         \* its number
    tid,       \* ctx_tcp->t_id
    tv,        \* what is left of the timer, of the sleep or of the wait for a connection
    next,      \* what follows the sleep or the wait, see WakeUp and GoOn
    sock,      \* "open", "broken" by the peer, "closed"
    net,       \* exchanges under way: requests, and their answers
    rx,        \* messages that have come in
    results,   \* of the calls that returned
    spent,     \* time since the call began, 0 between calls
    faults     \* failures left

vars == <<ctx, pc, q, n, tid, tv, next, sock, net, rx, results, spent, faults>>

Backend == ctx.backend
Link == "LINK" \in ctx.recovery
Protocol == "PROTOCOL" \in ctx.recovery

NoRequest == [fc |-> 0]

Init ==
    /\ ctx \in Settings
    /\ pc = "idle" /\ q = NoRequest /\ n = 0
    /\ tid \in IF Backend = "TCP" THEN {0, TidMax} ELSE {0}
    /\ tv = 0 /\ next = "none" /\ sock = "open"
    /\ net = <<>> /\ rx = <<>> /\ results = <<>>
    /\ spent = 0 /\ faults = ctx.faults

----------------------------------------------------------------------------
\* The call.

Return(verdict, from) ==
    /\ pc' = "idle"
    /\ results' = Append(results, [q |-> q, verdict |-> verdict, from |-> from])
    /\ tv' = 0 /\ next' = "none"
    /\ q' = NoRequest /\ spent' = 0

\* Seeded fault: the sleep is as long as two timeouts.
SleepTwice(then) ==
    /\ pc' = "sleep" /\ tv' = 2 * ResponseTimeout /\ next' = then
    /\ UNCHANGED <<q, results, spent>>

\* _sleep_response_timeout, and then what `then' says.
Sleep(then) ==
    /\ pc' = "sleep" /\ tv' = ResponseTimeout /\ next' = then
    /\ UNCHANGED <<q, results, spent>>

\* Seeded fault: only the first request gets an identifier.
NextTidOnce(t) == IF n = 0 /\ t < TidMax THEN t + 1 ELSE t

\* Seeded fault: UINT16_MAX is passed.
NextTidPast(t) == IF t <= TidMax THEN t + 1 ELSE 0

NextTid(t) == IF t < TidMax THEN t + 1 ELSE 0

\* Seeded fault: a second connection is waited for as long when the first has failed.
ConnectTwice(then) ==
    /\ pc' = "connect" /\ tv' = 2 * ResponseTimeout /\ next' = then
    /\ UNCHANGED <<q, results, spent>>

\* modbus_connect: select waits for the new socket no longer than the response timeout.  A
\* serial line is never lost, so all connections are TCP's.
Connect(then) ==
    /\ pc' = "connect" /\ tv' = ResponseTimeout /\ next' = then
    /\ UNCHANGED <<q, results, spent>>

\* A function of the client is called and builds its request.
Begin(call) ==
    /\ pc = "idle" /\ n < MaxCalls
    /\ pc' = "send"
    /\ q' = call /\ n' = n + 1
    /\ tid' = IF Backend = "TCP" THEN NextTid(tid) ELSE tid
    /\ UNCHANGED <<ctx, tv, next, sock, net, rx, results, spent, faults>>

\* send_msg, and the wait begins; that the peer has closed is not known yet.
Send(delay) ==
    /\ pc = "send" /\ sock # "closed"
    /\ pc' = "wait" /\ tv' = ResponseTimeout
    /\ net' = IF sock = "open"
              THEN Append(net, [n |-> n, q |-> q, tid |-> tid, age |-> 0, due |-> delay])
              ELSE net
    /\ UNCHANGED <<ctx, q, n, tid, next, sock, rx, results, spent, faults>>

\* Nothing of an old connection reaches a new one; a serial line goes on.
Hangup ==
    /\ sock' = "closed"
    /\ IF Backend = "TCP" THEN net' = <<>> /\ rx' = <<>> ELSE UNCHANGED <<net, rx>>

\* send returns -1, after which LINK closes, or not, sleeps and sends again.
SendFails(lost) ==
    /\ pc = "send"
    /\ IF sock = "open" THEN ~lost /\ faults > 0 /\ faults' = faults - 1 ELSE lost /\ UNCHANGED faults
    /\ IF Link THEN Sleep(IF lost THEN "connect and send" ELSE "flush and send")
               ELSE Return("EIO", 0)
    /\ IF Link /\ lost THEN Hangup ELSE UNCHANGED <<sock, net, rx>>
    /\ UNCHANGED <<ctx, n, tid>>

\* The recovery is over: the request is sent again, or the call returns its error.
GoOn ==
    IF next \in {"connect and send", "flush and send"}
    THEN pc' = "send" /\ next' = "none" /\ tv' = 0 /\ UNCHANGED <<q, results, spent>>
    ELSE Return(next, 0)

\* The end of a sleep: modbus_connect, or modbus_flush.
WakeUp ==
    /\ pc = "sleep" /\ tv = 0
    /\ \/ next = "connect and send" /\ Connect(next) /\ UNCHANGED rx
       \/ next # "connect and send" /\ GoOn /\ rx' = <<>>
    /\ UNCHANGED <<ctx, n, tid, sock, net, faults>>

\* The new socket is connected, at any time of the wait, or it is closed again, refused or
\* not ready when the time is up.
Connected ==
    /\ pc = "connect"
    /\ \/ sock' = "open" /\ UNCHANGED faults
       \/ UNCHANGED sock /\ faults > 0 /\ faults' = faults - 1
    /\ GoOn
    /\ UNCHANGED <<ctx, n, tid, net, rx>>

\* select returns 0.
TimedOut ==
    /\ pc = "wait" /\ tv = 0 /\ rx = <<>>
    /\ IF Link THEN Sleep("ETIMEDOUT") ELSE Return("ETIMEDOUT", 0)
    /\ UNCHANGED <<ctx, n, tid, sock, net, rx, faults>>

\* Seeded fault: 0 bytes are taken for a portion of the message.
PeerClosedUnseen ==
    /\ pc = "wait" /\ rx = <<>> /\ sock = "broken"
    /\ UNCHANGED vars

\* recv returns 0: LINK closes and connects anew, without a sleep.
PeerClosed ==
    /\ pc = "wait" /\ rx = <<>> /\ sock = "broken"
    /\ IF Link THEN Connect("ECONNRESET") /\ sock' = "closed"
       ELSE Return("ECONNRESET", 0) /\ UNCHANGED sock
    /\ UNCHANGED <<ctx, n, tid, net, rx, faults>>

\* Seeded fault: the transaction identifier is not compared.
OwnUntold(m) == Backend = "TCP" \/ m.q.slave = q.slave

\* The message is of the slave, or has the identifier, of the request.
Own(m) == IF Backend = "TCP" THEN m.tid = tid ELSE m.q.slave = q.slave

\* Seeded fault: the flush does not wait for what is still to come.
RejectAtOnce(verdict) == Return(verdict, 0) /\ rx' = IF Protocol THEN <<>> ELSE Tail(rx)

\* check_confirmation refuses: PROTOCOL sleeps and flushes first.
Reject(verdict) ==
    /\ IF Protocol THEN Sleep(verdict) ELSE Return(verdict, 0)
    /\ rx' = Tail(rx)

\* The first message that has come in is read and checked.
Receive ==
    LET m == Head(rx)
        verdict == IF Backend = "GOODWE" THEN "ok" ELSE Verdict(Backend, q, m.reply)
    IN
    /\ pc = "wait" /\ rx # <<>>
    /\ \/ /\ Own(m) /\ m.damaged
          /\ Return("EMBBADCRC", 0)
          /\ rx' = IF Protocol THEN <<>> ELSE Tail(rx)
       \/ /\ ~Own(m) /\ Backend = "GOODWE"
          /\ Return("EMBBADSLAVE", 0)
          /\ rx' = Tail(rx)
       \/ /\ ~Own(m) /\ Backend # "GOODWE"
          /\ Reject(IF Backend = "TCP" THEN "EMBBADDATA" ELSE "EMBBADSLAVE")
       \/ /\ Own(m) /\ ~m.damaged /\ verdict = "EMBBADDATA"
          /\ Reject(verdict)
       \/ /\ Own(m) /\ ~m.damaged /\ verdict # "EMBBADDATA"
          /\ Return(verdict, m.n)
          /\ rx' = Tail(rx)
    /\ UNCHANGED <<ctx, n, tid, sock, net, faults>>

\* The application closes and connects after a failure.
Reopen ==
    /\ pc = "idle" /\ sock # "open"
    /\ sock' = "open"
    /\ IF Backend = "TCP" THEN net' = <<>> /\ rx' = <<>> ELSE UNCHANGED <<net, rx>>
    /\ UNCHANGED <<ctx, pc, q, n, tid, tv, next, results, spent, faults>>

----------------------------------------------------------------------------
\* The link and the servers.

\* The reply of a server that has executed request c, or refuses its address.
ReplyTo(c, executed) ==
    IF executed
    THEN [fc |-> c.fc, code |-> 0, echo |-> Repeated(c),
          data |-> [k \in 1 .. ReplyCount(Numbers(c)) |-> {}]]
    ELSE [fc |-> c.fc + Exception, code |-> IllegalDataAddress, echo |-> <<>>, data |-> <<>>]

Without(i) == [j \in 1 .. Len(net) - 1 |-> IF j < i THEN net[j] ELSE net[j + 1]]

\* A server answers; each one answers in turn.
Arrive(i, executed) ==
    LET e == net[i] IN
    /\ \A j \in 1 .. i - 1 : net[j].q.slave # e.q.slave
    /\ executed \/ Backend # "GOODWE"
    /\ net' = Without(i)
    /\ sock = "open"
    /\ \E damaged \in IF Backend # "TCP" /\ faults > 0 THEN BOOLEAN ELSE {FALSE} :
        /\ rx' = Append(rx, [n |-> e.n, q |-> e.q, tid |-> e.tid, due |-> e.due,
                             reply |-> ReplyTo(e.q, executed), damaged |-> damaged])
        /\ faults' = IF damaged THEN faults - 1 ELSE faults
    /\ UNCHANGED <<ctx, pc, q, n, tid, tv, next, sock, results, spent>>

\* A request or its answer is lost, by a line, by a server that has stopped, or because
\* nobody listens any more.
Lose(i) ==
    /\ IF sock = "open" THEN faults > 0 /\ faults' = faults - 1 ELSE UNCHANGED faults
    /\ net' = Without(i)
    /\ UNCHANGED <<ctx, pc, q, n, tid, tv, next, sock, rx, results, spent>>

PeerCloses ==
    /\ Backend = "TCP" /\ sock = "open" /\ faults > 0
    /\ sock' = "broken" /\ faults' = faults - 1
    /\ net' = <<>>
    /\ UNCHANGED <<ctx, pc, q, n, tid, tv, next, rx, results, spent>>

\* Time passes, in select, in a sleep, in a wait for a connection and between calls; an
\* answer is not later than due.
Tick ==
    /\ \/ pc = "wait" /\ tv > 0 /\ rx = <<>> /\ sock # "broken"
       \/ pc \in {"sleep", "connect"} /\ tv > 0
       \/ pc = "idle" /\ net # <<>>
    /\ \A i \in DOMAIN net : net[i].age < net[i].due
    /\ net' = [i \in DOMAIN net |-> [net[i] EXCEPT !.age = @ + 1]]
    /\ tv' = IF tv > 0 THEN tv - 1 ELSE 0
    /\ spent' = IF pc = "idle" THEN spent ELSE spent + 1
    /\ UNCHANGED <<ctx, pc, q, n, tid, next, sock, rx, results, faults>>

ClientStep ==
    \/ \E delay \in ctx.delays : Send(delay)
    \/ \E lost \in BOOLEAN : SendFails(lost)
    \/ WakeUp
    \/ Connected
    \/ TimedOut
    \/ PeerClosed
    \/ Receive

LinkStep == \E i \in DOMAIN net : Lose(i) \/ \E executed \in BOOLEAN : Arrive(i, executed)

Next ==
    \/ \E call \in Calls : Begin(call)
    \/ ClientStep
    \/ Reopen
    \/ LinkStep
    \/ PeerCloses
    \/ Tick

Spec == Init /\ [][Next]_vars

\* The client goes on, time passes, and what is under way comes or is lost.
FairSpec == Spec /\ WF_vars(ClientStep) /\ WF_vars(LinkStep) /\ WF_vars(Tick)
----------------------------------------------------------------------------
\* Properties.

ExchangeType ==
    [n : 1 .. MaxCalls, q : Calls, tid : 0 .. TidMax, age : Nat, due : {Prompt, Late}]

TypeOK ==
    /\ pc \in {"idle", "send", "wait", "sleep", "connect"}
    /\ q \in Calls \union {NoRequest} /\ n \in 0 .. MaxCalls /\ tid \in 0 .. TidMax
    /\ tv \in 0 .. ResponseTimeout /\ spent \in Nat /\ faults \in 0 .. MaxFaults
    /\ pc \in {"sleep", "connect"} <=> next # "none"
    /\ \A i \in DOMAIN net : net[i] \in ExchangeType
    /\ Len(results) = IF pc = "idle" THEN n ELSE n - 1

\* A call that reports a reply, an exception included, reports the one to its own
\* request: always over TCP, by the identifiers; on a serial line, where replies have none,
\* if all come within the response timeout, or within two with LINK.
OwnAnswer ==
    Backend = "TCP" \/ Link \/ ctx.delays = {Prompt} =>
        \A i \in DOMAIN results : results[i].from \in {0, i}

\* The two requests ask for the same as far as a reply tells.
Alike(a, b) ==
    /\ a.slave = b.slave /\ a.fc = b.fc
    /\ a.fc \in ReadBits => BitBytes(a.nb) = BitBytes(b.nb)
    /\ a.fc \in ReadRegisters \union {WriteAndRead} => a.nb = b.nb
    /\ a.fc \in WriteSingle => a.addr = b.addr /\ a.value = b.value
    /\ a.fc \in {WriteBits, WriteRegisters} => a.addr = b.addr /\ a.nb = b.nb

\* A late reply that an RTU client takes for its own is one of the same slave to a request
\* like its own: a single write that succeeds has been executed with its value.
AcceptedIsAlike ==
    Backend # "GOODWE" =>
        \A i \in DOMAIN results :
            results[i].verdict = "ok" => Alike(results[i].q, results[results[i].from].q)

\* PROTOCOL does not sleep and flush after a refused exception (EMBBADEXC).  Such an exception
\* is never the answer to the call's own request, but one to an earlier call: a server's
\* exception to the request under way is reported as what it is.
RefusedExceptionIsStale ==
    \A i \in DOMAIN results :
        results[i].verdict = "EMBBADEXC" => results[i].from \in 1 .. i - 1

\* What a call takes of an answer to another call.
StaleIsAlike == AcceptedIsAlike /\ RefusedExceptionIsStale

\* After a message that does not fit, PROTOCOL leaves no answer that was in time to
\* disturb the next call.
Recovered ==
    /\ pc = "idle" /\ Protocol /\ results # <<>>
    /\ results[Len(results)].verdict \in {"EMBBADDATA", "EMBBADSLAVE"} /\ Backend # "GOODWE"
    =>
    /\ \A i \in DOMAIN net : net[i].due = Late
    /\ \A i \in DOMAIN rx : rx[i].due = Late

\* What a failure of the link may cost a call with LINK: a sleep, and over TCP the wait for a
\* new connection.
FailureTime == IF Backend = "TCP" THEN 2 * ResponseTimeout ELSE ResponseTimeout

\* A call returns within the response timeout; within two if an error may make it sleep or
\* connect; with LINK, within one FailureTime more for each failure of the link.
CallDeadline ==
    spent <= (IF ctx.recovery = {} THEN ResponseTimeout ELSE 2 * ResponseTimeout)
                + (IF Link THEN ctx.faults * FailureTime ELSE 0)

\* Every call returns, whatever the link does, as long as it does not fail for ever.
CallEnds == pc # "idle" ~> pc = "idle"
=============================================================================

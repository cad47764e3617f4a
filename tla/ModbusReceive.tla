--------------------------- MODULE ModbusReceive ---------------------------
(***************************************************************************)
(* One call of _modbus_receive_msg: it reads a message from a stream in    *)
(* three steps, up to the function code, up to the byte that announces the *)
(* data, and up to the end, under a timer, and checks the whole.  The      *)
(* stream is a message and what follows it, or noise.  Bytes come in any   *)
(* portions, late or never.                                                *)
(***************************************************************************)
EXTENDS ModbusFrame

CONSTANTS
    Streams,    \* what may come in, see InputType
    Contexts,   \* settings of a modbus_t: timeouts, 0 for none, and error recovery
    Portions,   \* bound: what recv may return short of all, and a flush may leave
    Horizon     \* bound: elapsed saturates here

StreamType ==
    [backend : Backends, type : MsgTypes, fc : Byte, count : Byte, length : Nat, follow : Nat,
     whole : BOOLEAN, slave : {"own", "other"}, crc : BOOLEAN]
ContextType ==
    [response : Nat \ {0}, byte : Nat, indication : Nat,
     recovery : SUBSET {"LINK", "PROTOCOL"}]

ASSUME ModbusReceiveAssumption ==
    /\ Streams \subseteq StreamType
    /\ \A m \in Streams : m.whole => WholeMessage(m)
    /\ Contexts \subseteq ContextType
    /\ Portions \subseteq Nat
    /\ Horizon \in Nat

VARIABLES
    stream,        \* the message under way
    ctx,           \* settings
    rest,          \* bytes of the stream nobody has read
    pc,            \* "idle", "wait" in select, "sleep" and "connect" of the recovery, "done"
    step,          \* _STEP_*
    msgLength, lengthToRead,
    tv,            \* what is left of the timer or the sleep, NoTimer for a null pointer
    elapsed,       \* time since the call
    rc, errno,     \* outcome; errno is saved_errno during a recovery
    sock           \* ctx->s

vars == <<stream, ctx, rest, pc, step, msgLength, lengthToRead, tv, elapsed, rc, errno, sock>>

NoTimer == -1
IoErrors == {"ETIMEDOUT", "ECONNRESET", "ECONNREFUSED", "EBADF", "EIO"}
Errors == IoErrors \union {"none", "EMBBADDATA", "EMBBADCRC", "EMBBADSLAVE"}

Backend == stream.backend
Link == "LINK" \in ctx.recovery

TypeOK ==
    /\ stream \in Streams
    /\ ctx \in Contexts
    /\ rest \in 0 .. stream.length + stream.follow
    /\ pc \in {"idle", "wait", "sleep", "connect", "done"}
    /\ step \in {"FUNCTION", "META", "DATA"}
    /\ msgLength \in Nat
    /\ lengthToRead \in Nat
    /\ tv \in Nat \union {NoTimer}
    /\ elapsed \in 0 .. Horizon
    /\ rc \in Int
    /\ errno \in Errors
    /\ sock \in {"open", "closed"}

Init ==
    /\ stream \in Streams
    /\ ctx \in Contexts
    /\ rest = stream.length + stream.follow
    /\ pc = "idle" /\ step = "FUNCTION"
    /\ msgLength = 0 /\ lengthToRead = 0
    /\ tv = NoTimer /\ elapsed = 0
    /\ rc = 0 /\ errno = "none"
    /\ sock = "open"

----------------------------------------------------------------------------

\* Seeded fault: a client, too, waits for the first byte as long as a server does.
FirstTimerOfServer == IF ctx.indication = 0 THEN NoTimer ELSE ctx.indication

\* p_tv and tv before the loop.
FirstTimer ==
    IF stream.type = "CONFIRMATION" THEN ctx.response
    ELSE IF ctx.indication = 0 THEN NoTimer ELSE ctx.indication

Call ==
    /\ pc = "idle"
    /\ pc' = "wait"
    /\ step' = "FUNCTION"
    /\ lengthToRead' = HeaderLength(Backend) + 1
    /\ tv' = FirstTimer
    /\ UNCHANGED <<stream, ctx, rest, msgLength, elapsed, rc, errno, sock>>

\* Seeded fault: the timer starts again with every portion.
ExpectAfresh(s, len) ==
    /\ step' = s
    /\ lengthToRead' = len
    /\ tv' = IF ctx.byte > 0 THEN ctx.byte ELSE ctx.response
    /\ UNCHANGED <<pc, rc, errno>>

\* Seeded fault: the pointer to the timer stays null when the byte timer is set.
ExpectNull(s, len) ==
    /\ step' = s
    /\ lengthToRead' = len
    /\ tv' = IF ctx.byte > 0 /\ tv # NoTimer THEN ctx.byte ELSE tv
    /\ UNCHANGED <<pc, rc, errno>>

\* Seeded fault: reading takes from the timer, through a null pointer too.
ExpectCharged(s, len) ==
    /\ step' = s
    /\ lengthToRead' = len
    /\ tv' = IF ctx.byte > 0 THEN ctx.byte ELSE tv - 1
    /\ UNCHANGED <<pc, rc, errno>>

\* Seeded fault: between bytes, the response timeout is set again.
ExpectResponse(s, len) ==
    /\ step' = s
    /\ lengthToRead' = len
    /\ tv' = IF ctx.byte > 0 THEN ctx.response ELSE tv
    /\ UNCHANGED <<pc, rc, errno>>

\* The loop goes on with s: len bytes to read, and the byte timer set if there is one.
Expect(s, len) ==
    /\ step' = s
    /\ lengthToRead' = len
    /\ tv' = IF ctx.byte > 0 THEN ctx.byte ELSE tv
    /\ UNCHANGED <<pc, rc, errno>>

Return(value, error) ==
    /\ pc' = "done"
    /\ rc' = value /\ errno' = error
    /\ lengthToRead' = 0
    /\ UNCHANGED <<step, tv>>

\* check_integrity of the backend: another slave's message is ignored by RTU and
\* refused by GoodWe, TCP checks nothing.
CheckIntegrity(length) ==
    IF Backend = "TCP" \/ (stream.slave = "own" /\ stream.crc) THEN Return(length, "none")
    ELSE IF stream.slave = "own" THEN Return(-1, "EMBBADCRC")
    ELSE IF Backend = "RTU" THEN Return(0, "none")
    ELSE Return(-1, "EMBBADSLAVE")

\* What a flush may leave of r bytes: those that have not come in yet.
Flushed(r) == {k \in Portions \union {0, r} : k <= r}

\* Seeded fault: only the data has to fit, whatever is read already.
FitsAlone(length, data) == data <= MaxAduLength(Backend)

\* The check of "too many data".
Fits(length, data) == length + data <= MaxAduLength(Backend)

\* recv returns n bytes.
Recv(n) ==
    LET left == lengthToRead - n
        length == msgLength + n
        meta == MetaLength(stream.type, stream.fc)
        data == DataLength(Backend, stream.type, stream.fc, stream.count)
        atData == step = "META" \/ (step = "FUNCTION" /\ meta = 0)
        fits == Fits(length, data)
    IN
    /\ pc = "wait"
    /\ n > 0 /\ n <= lengthToRead /\ n <= rest
    /\ msgLength' = length
    /\ \/ left > 0 /\ Expect(step, left)
       \/ left = 0 /\ step = "FUNCTION" /\ meta # 0 /\ Expect("META", meta)
       \/ left = 0 /\ atData /\ ~fits /\ Return(-1, "EMBBADDATA")
       \/ left = 0 /\ atData /\ fits /\ data # 0 /\ Expect("DATA", data)
       \/ left = 0 /\ atData /\ fits /\ data = 0 /\ CheckIntegrity(length)
       \/ left = 0 /\ step = "DATA" /\ CheckIntegrity(length)
    /\ IF errno' = "EMBBADCRC" /\ "PROTOCOL" \in ctx.recovery
         THEN rest' \in Flushed(rest - n)
         ELSE rest' = rest - n
    /\ UNCHANGED <<stream, ctx, elapsed, sock>>

\* The recovery of a failure begins: the call will return error, after a sleep or a wait of
\* select that both last a response timeout.
Recover(where, error) ==
    /\ pc' = where
    /\ tv' = ctx.response
    /\ errno' = error
    /\ UNCHANGED <<step, lengthToRead, rc>>

\* modbus_close, then modbus_connect: a serial line is opened at once, or not, and may still
\* carry the rest of the message; a new connection has nothing of the old one and has to be
\* waited for.
Reconnect(error) ==
    IF Backend = "TCP"
      THEN Recover("connect", error) /\ rest' = 0 /\ sock' = "closed"
      ELSE Return(-1, error) /\ rest' \in Flushed(rest) /\ sock' \in {"open", "closed"}

\* select returns 0, which the backends make ETIMEDOUT; with LINK a whole response timeout
\* is slept before the call flushes and returns.
TimedOut ==
    /\ pc = "wait" /\ tv = 0
    /\ IF Link THEN Recover("sleep", "ETIMEDOUT") ELSE Return(-1, "ETIMEDOUT")
    /\ UNCHANGED <<stream, ctx, rest, msgLength, elapsed, sock>>

\* Seeded fault: the call does not return after its sleep and waits for the message again.
WakeUpGoesOn ==
    /\ pc = "sleep" /\ tv = 0
    /\ rest' \in Flushed(rest)
    /\ pc' = "wait" /\ tv' = ctx.response
    /\ UNCHANGED <<stream, ctx, step, msgLength, lengthToRead, elapsed, rc, errno, sock>>

\* _sleep_response_timeout is over: modbus_flush drops what has come in, and not what is
\* still to come.
WakeUp ==
    /\ pc = "sleep" /\ tv = 0
    /\ rest' \in Flushed(rest)
    /\ Return(-1, errno)
    /\ UNCHANGED <<stream, ctx, msgLength, elapsed, sock>>

\* The new socket is connected or refused, before the time of _connect is up.
Connected ==
    /\ pc = "connect"
    /\ sock' \in {"open", "closed"}
    /\ Return(-1, errno)
    /\ UNCHANGED <<stream, ctx, rest, msgLength, elapsed>>

\* The time of _connect is up: the new socket is closed.
ConnectTimedOut ==
    /\ pc = "connect" /\ tv = 0
    /\ Return(-1, errno)
    /\ UNCHANGED <<stream, ctx, rest, msgLength, elapsed, sock>>

\* select returns -1.
SelectFails(error) ==
    /\ pc = "wait"
    /\ IF Link /\ error = "EBADF" THEN Reconnect(error)
       ELSE Return(-1, error) /\ UNCHANGED <<rest, sock>>
    /\ UNCHANGED <<stream, ctx, msgLength, elapsed>>

\* recv returns -1, or 0 where the peer has closed (ECONNRESET).
RecvFails(error) ==
    /\ pc = "wait"
    /\ IF Link /\ Backend = "TCP" /\ error \in {"ECONNRESET", "ECONNREFUSED", "EBADF"}
         THEN Reconnect(error)
       ELSE Return(-1, error) /\ UNCHANGED <<rest, sock>>
    /\ UNCHANGED <<stream, ctx, msgLength, elapsed>>

\* Time passes in select, which writes back what is left of the timer, or in the sleep.
Tick ==
    /\ pc \in {"wait", "sleep", "connect"} /\ tv # 0
    /\ tv' = IF tv = NoTimer THEN NoTimer ELSE tv - 1
    /\ elapsed' = IF elapsed < Horizon THEN elapsed + 1 ELSE elapsed
    /\ UNCHANGED <<stream, ctx, rest, pc, step, msgLength, lengthToRead, rc, errno, sock>>

Next ==
    \/ Call
    \/ \E n \in Portions \union {lengthToRead, rest} : Recv(n)
    \/ TimedOut \/ WakeUp \/ Connected \/ ConnectTimedOut
    \/ \E e \in {"EBADF", "EIO"} : SelectFails(e)
    \/ \E e \in {"ECONNRESET", "ECONNREFUSED", "EBADF", "EIO"} : RecvFails(e)
    \/ Tick

Spec == Init /\ [][Next]_vars

\* A call is made, time passes, select and nanosleep return when it is over; nothing says
\* that a byte or a connection comes.
Fairness ==
    WF_vars(Call) /\ WF_vars(Tick) /\ WF_vars(TimedOut) /\ WF_vars(WakeUp) /\ WF_vars(ConnectTimedOut)

FairSpec == Spec /\ Fairness

----------------------------------------------------------------------------
\* Properties.

\* Whatever comes in, recv is never asked to write past max_adu_length bytes of msg.
BufferBound ==
    pc = "wait" => msgLength + lengthToRead <= MaxAduLength(Backend)

\* Of a whole message, the loop asks for its bytes only and never for one of the
\* message that follows: every builder's length is what the two length tables add up to.
StaysInMessage ==
    stream.whole /\ pc = "wait" => msgLength + lengthToRead <= stream.length

\* A whole message is read to its end, unless the line fails or is late, and is never
\* refused as too long; the message that follows is left whole, but for a flush.
WholeIsRead ==
    stream.whole /\ pc = "done" /\ errno \notin IoErrors =>
        /\ msgLength = stream.length
        /\ errno # "EMBBADDATA"
        /\ rest = stream.follow \/ errno = "EMBBADCRC"

\* What the recovery of a call may take: one sleep, or one wait for a connection.
RecoveryTime == IF Link THEN ctx.response ELSE 0

\* A call that has a timer from the start takes no longer than this timer and one byte timeout
\* for each byte it has read, in whatever portions and however late they come, and, with LINK
\* only, one response timeout for its recovery: "the allowed timeout interval between two
\* consecutive bytes is defined by byte_timeout", and without one "the full response must be
\* read before expiration of response timeout", modbus.c:506.
ReceiveDeadline ==
    FirstTimer # NoTimer => elapsed <= FirstTimer + ctx.byte * msgLength + RecoveryTime

\* A client's wait ends, whatever comes or fails to come.
ConfirmationEnds ==
    stream.type = "CONFIRMATION" ~> pc = "done"

\* With a byte timeout, a server does not wait for ever for the rest of a message, though
\* it waits for ever for the first byte.
HalfMessageEnds ==
    ctx.byte > 0 /\ msgLength > 0 ~> pc = "done"

\* modbus_receive_confirmation "shall store the read response in rsp and return the number of
\* values (bits or words)", modbus.c:535: of a reply to a read of words, half the bytes.
ReturnsNumberOfValues ==
    stream.whole /\ stream.type = "CONFIRMATION" /\ stream.fc \in {3, 4} /\ pc = "done" /\ rc # -1
        => 2 * rc = stream.count
=============================================================================

-------------------------- MODULE ModbusLinkProofs --------------------------
(***************************************************************************)
(* What holds of a client's calls over a link that loses, damages and      *)
(* delays messages, for every backend, recovery mode, timeout, set of      *)
(* requests and number of failures.                                        *)
(***************************************************************************)
EXTENDS ModbusLink, TLAPS

Verdicts ==
    {"ok", "exception", "EMBBADEXC", "EMBBADDATA", "EMBBADSLAVE", "EMBBADCRC",
     "EIO", "ETIMEDOUT", "ECONNRESET"}

\* What a sleep or a wait for a connection is followed by.
SendsAgain == {"connect and send", "flush and send"}
Rejects == {"EMBBADDATA", "EMBBADSLAVE"}
Connects == {"connect and send", "ECONNRESET"}
Nexts == {"none", "ETIMEDOUT", "ECONNRESET"} \union SendsAgain \union Rejects

MessageFields ==
    [n : 1 .. MaxCalls, q : Calls, tid : 0 .. TidMax, due : {Prompt, Late},
     reply : {ReplyTo(c, executed) : c \in Calls, executed \in BOOLEAN}, damaged : BOOLEAN]

Message == {m \in MessageFields : \E executed \in BOOLEAN : m.reply = ReplyTo(m.q, executed)}

Result == [q : Calls, verdict : Verdicts, from : 0 .. MaxCalls]

TypeInv ==
    /\ ctx \in Settings
    /\ pc \in {"idle", "send", "wait", "sleep", "connect"}
    /\ q \in Calls \union {NoRequest} /\ (pc # "idle" => q \in Calls)
    /\ n \in 0 .. MaxCalls /\ tid \in 0 .. TidMax
    /\ tv \in 0 .. ResponseTimeout
    /\ next \in Nexts /\ (pc \in {"sleep", "connect"} <=> next # "none")
    /\ pc = "connect" => next \in Connects
    /\ sock \in {"open", "broken", "closed"}
    /\ net \in Seq(ExchangeType) /\ rx \in Seq(Message) /\ results \in Seq(Result)
    /\ Len(results) = (IF pc = "idle" THEN n ELSE n - 1)
    /\ spent \in Nat /\ faults \in 0 .. MaxFaults

\* Verdicts on a message that is taken for the answer.
Taken == {"ok", "exception", "EMBBADEXC"}

LEMMA Sizes ==
    /\ ResponseTimeout \in Nat /\ ResponseTimeout > 0 /\ Prompt \in Nat /\ Late \in Nat
    /\ Prompt < ResponseTimeout /\ Late < 2 * ResponseTimeout
    /\ TidMax \in Nat /\ MaxCalls \in Nat /\ MaxFaults \in Nat
  BY ModbusLinkAssumption

LEMMA SettingFields ==
    ASSUME NEW c \in Settings
    PROVE  /\ c.backend \in Backends /\ c.delays \subseteq {Prompt, Late}
           /\ c.recovery \subseteq {"LINK", "PROTOCOL"} /\ c.faults \in 0 .. MaxFaults
  BY ModbusLinkAssumption DEF SettingType

----------------------------------------------------------------------------
\* Sequences.

LEMMA TailElements ==
    ASSUME NEW S, NEW s \in Seq(S), s # <<>>
    PROVE  /\ Tail(s) \in Seq(S) /\ Len(Tail(s)) = Len(s) - 1
           /\ Len(s) \in Nat \ {0} /\ 1 \in DOMAIN s /\ Head(s) = s[1] /\ Head(s) \in S
           /\ \A i \in DOMAIN Tail(s) : i + 1 \in DOMAIN s /\ Tail(s)[i] = s[i + 1]
  OBVIOUS

LEMMA AppendElements ==
    ASSUME NEW S, NEW s \in Seq(S), NEW e \in S
    PROVE  /\ Append(s, e) \in Seq(S) /\ Len(Append(s, e)) = Len(s) + 1
           /\ \A i \in DOMAIN Append(s, e) :
                \/ i \in DOMAIN s /\ i <= Len(s) /\ Append(s, e)[i] = s[i]
                \/ i = Len(s) + 1 /\ Append(s, e)[i] = e
  OBVIOUS

LEMMA WithoutElements ==
    ASSUME net \in Seq(ExchangeType), NEW i \in DOMAIN net
    PROVE  /\ Without(i) \in Seq(ExchangeType) /\ Len(Without(i)) = Len(net) - 1
           /\ \A j \in DOMAIN Without(i) : \E k \in DOMAIN net : Without(i)[j] = net[k]
  <1>1. Len(net) \in Nat /\ i \in 1 .. Len(net)
    OBVIOUS
  <1>2. \A j \in 1 .. Len(net) - 1 :
          \E k \in DOMAIN net : (IF j < i THEN net[j] ELSE net[j + 1]) = net[k]
    <2> SUFFICES ASSUME NEW j \in 1 .. Len(net) - 1
                 PROVE  \E k \in DOMAIN net : (IF j < i THEN net[j] ELSE net[j + 1]) = net[k]
      OBVIOUS
    <2>1. j \in DOMAIN net /\ j + 1 \in DOMAIN net
      BY <1>1
    <2> QED
      BY <2>1
  <1>3. \A k \in DOMAIN net : net[k] \in ExchangeType
    OBVIOUS
  <1>4. Without(i) \in [1 .. Len(net) - 1 -> ExchangeType]
    BY <1>1, <1>2, <1>3 DEF Without
  <1>5. Len(net) - 1 \in Nat
    BY <1>1
  <1>6. Without(i) \in Seq(ExchangeType) /\ Len(Without(i)) = Len(net) - 1
    BY <1>4, <1>5
  <1>7. \A j \in DOMAIN Without(i) : \E k \in DOMAIN net : Without(i)[j] = net[k]
    BY <1>2 DEF Without
  <1> QED
    BY <1>6, <1>7

LEMMA EmptyElements == ASSUME NEW S PROVE <<>> \in Seq(S) /\ Len(<<>>) = 0 /\ DOMAIN <<>> = {}
  OBVIOUS

----------------------------------------------------------------------------
\* Where what is under way, and what has come in, comes from.

Same(a, b) == a.n = b.n /\ a.q = b.q /\ a.tid = b.tid /\ a.due = b.due

Sent(e) == e.n = n /\ e.q = q /\ e.tid = tid /\ e.due \in ctx.delays /\ e.age = 0

\* The same exchange, later.
Older(a, b) == Same(a, b) /\ a.age = b.age + 1

LEMMA NetKept ==
    ASSUME net \in Seq(ExchangeType), net' = net \/ net' = <<>>
    PROVE  /\ net' \in Seq(ExchangeType)
           /\ \A i \in DOMAIN net' : \E j \in DOMAIN net : net'[i] = net[j]
  BY EmptyElements

LEMMA NetStep ==
    ASSUME TypeInv, Next
    PROVE  /\ net' \in Seq(ExchangeType)
           /\ \A i \in DOMAIN net' :
                \/ \E j \in DOMAIN net : net'[i] = net[j]
                \/ Tick /\ \E j \in DOMAIN net : Older(net'[i], net[j])
                \/ pc = "send" /\ pc' = "wait" /\ Sent(net'[i])
  <1>t. net \in Seq(ExchangeType)
    BY DEF TypeInv
  <1>1. ASSUME NEW call \in Calls, Begin(call) PROVE net' = net \/ net' = <<>>
    BY <1>1 DEF Begin
  <1>2. ASSUME NEW delay \in ctx.delays, Send(delay)
        PROVE  /\ net' \in Seq(ExchangeType)
               /\ \A i \in DOMAIN net' :
                    \/ \E j \in DOMAIN net : net'[i] = net[j]
                    \/ pc = "send" /\ pc' = "wait" /\ Sent(net'[i])
    <2>1. CASE sock = "open"
      <3> DEFINE e == [n |-> n, q |-> q, tid |-> tid, age |-> 0, due |-> delay]
      <3>1. delay \in {Prompt, Late}
        BY SettingFields DEF TypeInv
      <3>2. n \in 1 .. MaxCalls
        <4>1. Len(results) = n - 1 /\ Len(results) \in Nat
          BY <1>2 DEF Send, TypeInv
        <4> QED
          BY <4>1, Sizes DEF TypeInv
      <3>3. e \in ExchangeType
        BY <1>2, <3>1, <3>2 DEF Send, TypeInv, ExchangeType
      <3>4. Sent(e)
        BY DEF Sent
      <3>5. net' = Append(net, e) /\ pc = "send" /\ pc' = "wait"
        BY <1>2, <2>1 DEF Send
      <3> HIDE DEF e
      <3> QED
        BY <1>t, <3>3, <3>4, <3>5, AppendElements
    <2>2. CASE sock # "open"
      <3>1. net' = net
        BY <1>2, <2>2 DEF Send
      <3> QED
        BY <1>t, <3>1, NetKept
    <2> QED
      BY <2>1, <2>2
  <1>3. ASSUME NEW lost \in BOOLEAN, SendFails(lost) PROVE net' = net \/ net' = <<>>
    BY <1>3 DEF SendFails, Hangup
  <1>4. ASSUME WakeUp \/ Connected \/ TimedOut \/ PeerClosed \/ Receive
        PROVE  net' = net \/ net' = <<>>
    BY <1>4 DEF WakeUp, Connected, TimedOut, PeerClosed, Receive
  <1>5. ASSUME Reopen \/ PeerCloses PROVE net' = net \/ net' = <<>>
    BY <1>5 DEF Reopen, PeerCloses
  <1>6. ASSUME NEW i \in DOMAIN net,
               Lose(i) \/ (\E executed \in BOOLEAN : Arrive(i, executed))
        PROVE  /\ net' \in Seq(ExchangeType)
               /\ \A k \in DOMAIN net' : \E j \in DOMAIN net : net'[k] = net[j]
    <2>1. net' = Without(i)
      BY <1>6 DEF Lose, Arrive
    <2> QED
      BY <1>t, <2>1, WithoutElements
  <1>7. ASSUME Tick
        PROVE  /\ net' \in Seq(ExchangeType)
               /\ \A k \in DOMAIN net' : \E j \in DOMAIN net : Older(net'[k], net[j])
    <2>1. net' = [i \in DOMAIN net |-> [net[i] EXCEPT !.age = @ + 1]]
      BY <1>7 DEF Tick
    <2>2. \A i \in DOMAIN net : net[i] \in ExchangeType
      BY <1>t
    <2>3. \A e \in ExchangeType :
            [e EXCEPT !.age = @ + 1] \in ExchangeType /\ Older([e EXCEPT !.age = @ + 1], e)
      BY DEF ExchangeType, Same, Older
    <2>4. DOMAIN net = 1 .. Len(net) /\ Len(net) \in Nat
      BY <1>t
    <2>5. net' \in [1 .. Len(net) -> ExchangeType]
      BY <2>1, <2>2, <2>3, <2>4
    <2>6. \A k \in DOMAIN net' : Older(net'[k], net[k])
      BY <2>1, <2>2, <2>3
    <2> QED
      BY <2>1, <2>4, <2>5, <2>6
  <1> QED
    BY <1>t, <1>1, <1>2, <1>3, <1>4, <1>5, <1>6, <1>7, NetKept DEF Next, ClientStep, LinkStep

\* A message is the answer of an exchange.
AnswerOf(m, e) == m.n = e.n /\ m.q = e.q /\ m.tid = e.tid /\ m.due = e.due

LEMMA RxFewer ==
    ASSUME rx \in Seq(Message), rx' = rx \/ rx' = <<>> \/ (rx # <<>> /\ rx' = Tail(rx))
    PROVE  rx' \in Seq(Message) /\ \A i \in DOMAIN rx' : \E j \in DOMAIN rx : rx'[i] = rx[j]
  <1>1. CASE rx' = rx
    BY <1>1
  <1>2. CASE rx' = <<>>
    BY <1>2, EmptyElements
  <1>3. CASE rx # <<>> /\ rx' = Tail(rx)
    <2>1. /\ Tail(rx) \in Seq(Message)
          /\ \A i \in DOMAIN Tail(rx) : i + 1 \in DOMAIN rx /\ Tail(rx)[i] = rx[i + 1]
      BY <1>3, TailElements
    <2> QED
      BY <1>3, <2>1
  <1> QED
    BY <1>1, <1>2, <1>3

LEMMA RxStep ==
    ASSUME TypeInv, Next
    PROVE  /\ rx' \in Seq(Message)
           /\ \A i \in DOMAIN rx' :
                \/ \E j \in DOMAIN rx : rx'[i] = rx[j]
                \/ \E j \in DOMAIN net : AnswerOf(rx'[i], net[j])
  <1> DEFINE Fewer == rx' = rx \/ rx' = <<>> \/ (rx # <<>> /\ rx' = Tail(rx))
  <1>t. rx \in Seq(Message)
    BY DEF TypeInv
  <1>1. ASSUME NEW call \in Calls, Begin(call) PROVE Fewer
    BY <1>1 DEF Begin
  <1>2. ASSUME NEW delay \in ctx.delays, Send(delay) PROVE Fewer
    BY <1>2 DEF Send
  <1>3. ASSUME NEW lost \in BOOLEAN, SendFails(lost) PROVE Fewer
    BY <1>3 DEF SendFails, Hangup
  <1>4. ASSUME WakeUp \/ Connected \/ TimedOut \/ PeerClosed PROVE Fewer
    BY <1>4 DEF WakeUp, Connected, TimedOut, PeerClosed
  <1>5. ASSUME Receive PROVE Fewer
    BY <1>5 DEF Receive, Reject
  <1>6. ASSUME Reopen \/ PeerCloses \/ Tick PROVE Fewer
    BY <1>6 DEF Reopen, PeerCloses, Tick
  <1>7. ASSUME NEW i \in DOMAIN net, Lose(i) PROVE Fewer
    BY <1>7 DEF Lose
  <1>8. ASSUME NEW i \in DOMAIN net, NEW executed \in BOOLEAN, Arrive(i, executed)
        PROVE  /\ rx' \in Seq(Message)
               /\ \A k \in DOMAIN rx' :
                    \/ \E j \in DOMAIN rx : rx'[k] = rx[j]
                    \/ \E j \in DOMAIN net : AnswerOf(rx'[k], net[j])
    <2>1. PICK damaged \in BOOLEAN :
            rx' = Append(rx, [n |-> net[i].n, q |-> net[i].q, tid |-> net[i].tid,
                              due |-> net[i].due, reply |-> ReplyTo(net[i].q, executed),
                              damaged |-> damaged])
      BY <1>8 DEF Arrive
    <2> DEFINE m == [n |-> net[i].n, q |-> net[i].q, tid |-> net[i].tid, due |-> net[i].due,
                     reply |-> ReplyTo(net[i].q, executed), damaged |-> damaged]
    <2>2. net[i] \in ExchangeType
      BY DEF TypeInv
    <2>3. m \in Message
      BY <2>2 DEF ExchangeType, Message, MessageFields
    <2>4. AnswerOf(m, net[i])
      BY DEF AnswerOf
    <2>5. rx' = Append(rx, m)
      BY <2>1
    <2> HIDE DEF m
    <2> QED
      BY <1>t, <2>3, <2>4, <2>5, AppendElements
  <1>9. Fewer => /\ rx' \in Seq(Message)
                 /\ \A i \in DOMAIN rx' : \E j \in DOMAIN rx : rx'[i] = rx[j]
    BY <1>t, RxFewer
  <1> HIDE DEF Fewer
  <1> QED
    BY <1>1, <1>2, <1>3, <1>4, <1>5, <1>6, <1>7, <1>8, <1>9 DEF Next, ClientStep, LinkStep

----------------------------------------------------------------------------
\* What a step does to the call: one begins, goes on or returns.

Begins ==
    /\ pc = "idle" /\ pc' = "send"
    /\ n < MaxCalls /\ n' = n + 1 /\ q' \in Calls
    /\ tid' = (IF Backend = "TCP" THEN NextTid(tid) ELSE tid)
    /\ results' = results /\ net' = net /\ rx' = rx

GoesOn ==
    /\ pc = "idle" <=> pc' = "idle"
    /\ n' = n /\ q' = q /\ tid' = tid /\ results' = results

\* The call takes the first message that has come in.
TakesFirst(verdict, from) ==
    /\ pc = "wait" /\ rx # <<>> /\ Own(Head(rx))
    /\ from = Head(rx).n
    /\ verdict = IF Backend = "GOODWE" THEN "ok" ELSE Verdict(Backend, q, Head(rx).reply)

Returns(verdict, from) ==
    /\ pc # "idle" /\ pc' = "idle"
    /\ n' = n /\ tid' = tid
    /\ results' = Append(results, [q |-> q, verdict |-> verdict, from |-> from])
    /\ \/ from = 0 /\ verdict \in Verdicts \ Taken
       \/ TakesFirst(verdict, from)

LEMMA VerdictType ==
    ASSUME NEW b, NEW request, NEW r
    PROVE  Verdict(b, request, r) \in {"ok", "exception", "EMBBADEXC", "EMBBADDATA"}
  BY DEF Verdict

LEMMA CallStep ==
    ASSUME TypeInv, Next
    PROVE  /\ ctx' = ctx
           /\ Begins \/ GoesOn \/ \E verdict \in Verdicts, from \in 0 .. MaxCalls : Returns(verdict, from)
  <1> DEFINE Ends == \E verdict \in Verdicts, from \in 0 .. MaxCalls : Returns(verdict, from)
  <1>z. 0 \in 0 .. MaxCalls
    BY Sizes
  <1>0. ASSUME NEW verdict \in Verdicts \ Taken, Return(verdict, 0),
               pc # "idle", n' = n, tid' = tid
        PROVE  Ends
    <2>1. Returns(verdict, 0)
      BY <1>0 DEF Return, Returns
    <2> QED
      BY <1>0, <1>z, <2>1
  <1> HIDE DEF Ends
  <1>1. ASSUME NEW call \in Calls, Begin(call) PROVE ctx' = ctx /\ Begins
    BY <1>1 DEF Begin, Begins, Backend
  <1>2. ASSUME NEW delay \in ctx.delays, Send(delay) PROVE ctx' = ctx /\ GoesOn
    BY <1>2 DEF Send, GoesOn
  <1>3. ASSUME NEW lost \in BOOLEAN, SendFails(lost) PROVE ctx' = ctx /\ (GoesOn \/ Ends)
    <2>0. ctx' = ctx /\ pc = "send" /\ n' = n /\ tid' = tid
      BY <1>3 DEF SendFails
    <2>1. CASE Link
      <3>1. Sleep(IF lost THEN "connect and send" ELSE "flush and send")
        BY <1>3, <2>1 DEF SendFails
      <3> QED
        BY <2>0, <3>1 DEF Sleep, GoesOn
    <2>2. CASE ~Link
      <3>1. Return("EIO", 0)
        BY <1>3, <2>2 DEF SendFails
      <3> QED
        BY <2>0, <3>1, <1>0 DEF Verdicts, Taken
    <2> QED
      BY <2>1, <2>2
  <1>4. ASSUME WakeUp \/ Connected PROVE ctx' = ctx /\ (GoesOn \/ Ends)
    <2>0. ctx' = ctx /\ pc \in {"sleep", "connect"} /\ n' = n /\ tid' = tid
      BY <1>4 DEF WakeUp, Connected
    <2>1. CASE Connect(next)
      BY <2>0, <2>1 DEF Connect, GoesOn
    <2>2. CASE GoOn /\ next \in SendsAgain
      <3>1. pc' = "send" /\ UNCHANGED <<q, results>>
        BY <2>2 DEF GoOn, SendsAgain
      <3> QED
        BY <2>0, <3>1 DEF GoesOn
    <2>3. CASE GoOn /\ next \notin SendsAgain
      <3>1. Return(next, 0)
        BY <2>3 DEF GoOn, SendsAgain
      <3>2. next \in Verdicts \ Taken
        BY <2>0, <2>3 DEF TypeInv, Nexts, Rejects, Verdicts, Taken
      <3> QED
        BY <2>0, <3>1, <3>2, <1>0
    <2> QED
      BY <1>4, <2>1, <2>2, <2>3 DEF WakeUp, Connected
  <1>5. ASSUME TimedOut PROVE ctx' = ctx /\ (GoesOn \/ Ends)
    <2>0. ctx' = ctx /\ pc = "wait" /\ n' = n /\ tid' = tid
      BY <1>5 DEF TimedOut
    <2>1. CASE Link
      BY <1>5, <2>0, <2>1 DEF TimedOut, Sleep, GoesOn
    <2>2. CASE ~Link
      <3>1. Return("ETIMEDOUT", 0)
        BY <1>5, <2>2 DEF TimedOut
      <3> QED
        BY <2>0, <3>1, <1>0 DEF Verdicts, Taken
    <2> QED
      BY <2>1, <2>2
  <1>6. ASSUME PeerClosed PROVE ctx' = ctx /\ (GoesOn \/ Ends)
    <2>0. ctx' = ctx /\ pc = "wait" /\ n' = n /\ tid' = tid
      BY <1>6 DEF PeerClosed
    <2>1. CASE Connect("ECONNRESET")
      BY <2>0, <2>1 DEF Connect, GoesOn
    <2>2. CASE Return("ECONNRESET", 0)
      BY <2>0, <2>2, <1>0 DEF Verdicts, Taken
    <2> QED
      BY <1>6, <2>1, <2>2 DEF PeerClosed
  <1>7. ASSUME Receive PROVE ctx' = ctx /\ (GoesOn \/ Ends)
    <2> DEFINE m == Head(rx)
               verdict == IF Backend = "GOODWE" THEN "ok" ELSE Verdict(Backend, q, m.reply)
    <2>0. ctx' = ctx /\ pc = "wait" /\ rx # <<>> /\ n' = n /\ tid' = tid
      BY <1>7 DEF Receive
    <2>1. m \in Message /\ m.n \in 0 .. MaxCalls
      <3>1. m \in Message
        BY <2>0, TailElements DEF TypeInv
      <3> QED
        BY <3>1, Sizes DEF Message, MessageFields
    <2>2. verdict \in {"ok", "exception", "EMBBADEXC", "EMBBADDATA"}
      BY VerdictType
    <2>3. ASSUME NEW v \in Rejects, Reject(v) PROVE GoesOn \/ Ends
      <3>1. CASE Protocol
        BY <2>0, <2>3, <3>1 DEF Reject, Sleep, GoesOn
      <3>2. CASE ~Protocol
        <4>1. Return(v, 0)
          BY <2>3, <3>2 DEF Reject
        <4> QED
          BY <2>0, <2>3, <4>1, <1>0 DEF Verdicts, Taken, Rejects
      <3> QED
        BY <3>1, <3>2
    <2>4. \/ Return("EMBBADCRC", 0)
          \/ Return("EMBBADSLAVE", 0)
          \/ Reject(IF Backend = "TCP" THEN "EMBBADDATA" ELSE "EMBBADSLAVE")
          \/ verdict = "EMBBADDATA" /\ Reject(verdict)
          \/ Own(m) /\ Return(verdict, m.n)
      BY <1>7 DEF Receive
    <2>5. ASSUME Own(m), Return(verdict, m.n) PROVE Ends
      <3>1. TakesFirst(verdict, m.n)
        BY <2>0, <2>5 DEF TakesFirst
      <3>2. Returns(verdict, m.n)
        BY <2>0, <2>5, <3>1 DEF Returns, Return
      <3>3. verdict \in Verdicts
        BY <2>2 DEF Verdicts, Taken
      <3> QED
        BY <2>1, <3>2, <3>3 DEF Ends
    <2> HIDE DEF verdict, m
    <2>6. (IF Backend = "TCP" THEN "EMBBADDATA" ELSE "EMBBADSLAVE") \in Rejects /\ "EMBBADDATA" \in Rejects
      BY DEF Rejects
    <2>7. Return("EMBBADCRC", 0) \/ Return("EMBBADSLAVE", 0) => Ends
      BY <2>0, <1>0 DEF Verdicts, Taken
    <2> QED
      BY <2>0, <2>3, <2>4, <2>5, <2>6, <2>7
  <1>8. ASSUME Reopen \/ PeerCloses \/ Tick PROVE ctx' = ctx /\ GoesOn
    BY <1>8 DEF Reopen, PeerCloses, Tick, GoesOn
  <1>9. ASSUME LinkStep PROVE ctx' = ctx /\ GoesOn
    BY <1>9 DEF LinkStep, Lose, Arrive, GoesOn
  <1> QED
    BY <1>1, <1>2, <1>3, <1>4, <1>5, <1>6, <1>7, <1>8, <1>9 DEF Next, ClientStep, Ends

----------------------------------------------------------------------------
\* Types.

LEMMA NextTidType ==
    ASSUME NEW t \in 0 .. TidMax
    PROVE  NextTid(t) \in 0 .. TidMax
  BY Sizes DEF NextTid

LEMMA InitType == Init => TypeInv
  <1> SUFFICES ASSUME Init PROVE TypeInv
    OBVIOUS
  <1>1. ctx \in Settings /\ faults \in 0 .. MaxFaults
    BY SettingFields DEF Init
  <1>2. n \in 0 .. MaxCalls /\ tid \in 0 .. TidMax /\ tv \in 0 .. ResponseTimeout /\ spent \in Nat
    BY Sizes DEF Init
  <1>3. net \in Seq(ExchangeType) /\ rx \in Seq(Message) /\ results \in Seq(Result) /\ Len(results) = 0
    BY EmptyElements DEF Init
  <1> QED
    BY <1>1, <1>2, <1>3 DEF Init, TypeInv, Nexts

\* The request, its number and the results.
LEMMA CallType ==
    ASSUME TypeInv, Next
    PROVE  /\ n' \in 0 .. MaxCalls /\ tid' \in 0 .. TidMax
           /\ results' \in Seq(Result)
           /\ Len(results') = (IF pc' = "idle" THEN n' ELSE n' - 1)
  <1>t. n \in 0 .. MaxCalls /\ tid \in 0 .. TidMax /\ results \in Seq(Result)
    BY DEF TypeInv
  <1>1. CASE Begins
    <2>1. n' \in 0 .. MaxCalls /\ n' - 1 = n
      BY <1>1, <1>t, Sizes DEF Begins
    <2> QED
      BY <1>1, <1>t, <2>1, NextTidType DEF Begins, TypeInv
  <1>2. CASE GoesOn
    BY <1>2 DEF GoesOn, TypeInv
  <1>3. ASSUME NEW verdict \in Verdicts, NEW from \in 0 .. MaxCalls, Returns(verdict, from)
        PROVE  /\ n' \in 0 .. MaxCalls /\ tid' \in 0 .. TidMax
               /\ results' \in Seq(Result)
               /\ Len(results') = (IF pc' = "idle" THEN n' ELSE n' - 1)
    <2> DEFINE r == [q |-> q, verdict |-> verdict, from |-> from]
    <2>1. q \in Calls /\ Len(results) = n - 1
      BY <1>3 DEF Returns, TypeInv
    <2>2. r \in Result
      BY <2>1 DEF Result
    <2>3. results' = Append(results, r) /\ n' = n /\ tid' = tid /\ pc' = "idle"
      BY <1>3 DEF Returns
    <2> HIDE DEF r
    <2> QED
      BY <1>t, <2>1, <2>2, <2>3, AppendElements
  <1> QED
    BY <1>1, <1>2, <1>3, CallStep

Sockets == {"open", "broken", "closed"}

\* What a step does to the timer, the failures and the rest.
Scalars ==
    /\ pc' \in {"idle", "send", "wait", "sleep", "connect"}
    /\ q' \in Calls \union {NoRequest} /\ (pc' # "idle" => q' \in Calls)
    /\ tv' \in 0 .. ResponseTimeout
    /\ next' \in Nexts /\ (pc' \in {"sleep", "connect"} <=> next' # "none")
    /\ pc' = "connect" => next' \in Connects
    /\ sock' \in Sockets
    /\ spent' \in Nat /\ faults' \in 0 .. MaxFaults

LEMMA SleepScalars ==
    ASSUME TypeInv, NEW then \in Nexts \ {"none"}, pc # "idle", Sleep(then),
           sock' \in Sockets, faults' \in 0 .. MaxFaults
    PROVE  Scalars
  BY Sizes DEF Sleep, Scalars, TypeInv

LEMMA ConnectScalars ==
    ASSUME TypeInv, NEW then \in Connects, pc # "idle", Connect(then),
           sock' \in Sockets, faults' \in 0 .. MaxFaults
    PROVE  Scalars
  <1>1. /\ pc' = "connect" /\ tv' = ResponseTimeout /\ next' = then
        /\ UNCHANGED <<q, results, spent>>
    BY DEF Connect
  <1>2. then \in Nexts /\ then # "none"
    BY DEF Connects, Nexts, SendsAgain
  <1>3. ResponseTimeout \in 0 .. ResponseTimeout
    BY Sizes
  <1>4. q \in Calls /\ spent \in Nat
    BY DEF TypeInv
  <1> QED
    BY <1>1, <1>2, <1>3, <1>4 DEF Scalars

LEMMA GoOnScalars ==
    ASSUME TypeInv, pc # "idle", GoOn, sock' \in Sockets, faults' \in 0 .. MaxFaults
    PROVE  Scalars
  <1>1. CASE next \in SendsAgain
    <2>1. pc' = "send" /\ next' = "none" /\ tv' = 0 /\ UNCHANGED <<q, results, spent>>
      BY <1>1 DEF GoOn, SendsAgain
    <2>2. q \in Calls /\ spent \in Nat /\ 0 \in 0 .. ResponseTimeout
      BY Sizes DEF TypeInv
    <2> QED
      BY <2>1, <2>2 DEF Scalars, Nexts
  <1>2. CASE next \notin SendsAgain
    <2>1. Return(next, 0)
      BY <1>2 DEF GoOn, SendsAgain
    <2> QED
      BY <2>1, Sizes DEF Return, Scalars, TypeInv, Nexts
  <1> QED
    BY <1>1, <1>2

LEMMA ReturnScalars ==
    ASSUME TypeInv, NEW verdict, NEW from, Return(verdict, from),
           sock' \in Sockets, faults' \in 0 .. MaxFaults
    PROVE  Scalars
  BY Sizes DEF Return, Scalars, TypeInv, Nexts

LEMMA StayScalars ==
    ASSUME TypeInv, UNCHANGED <<pc, q, tv, next, spent>>,
           sock' \in Sockets, faults' \in 0 .. MaxFaults
    PROVE  Scalars
  BY DEF Scalars, TypeInv

LEMMA ScalarsStep ==
    ASSUME TypeInv, Next
    PROVE  Scalars
  <1>t. sock \in Sockets /\ faults \in 0 .. MaxFaults /\ (faults > 0 => faults - 1 \in 0 .. MaxFaults)
    BY Sizes DEF TypeInv, Sockets
  <1>1. ASSUME NEW call \in Calls, Begin(call) PROVE Scalars
    BY <1>1, <1>t DEF Begin, Scalars, TypeInv
  <1>2. ASSUME NEW delay \in ctx.delays, Send(delay) PROVE Scalars
    BY <1>2, <1>t, Sizes DEF Send, Scalars, TypeInv
  <1>3. ASSUME NEW lost \in BOOLEAN, SendFails(lost) PROVE Scalars
    <2>1. sock' \in Sockets /\ faults' \in 0 .. MaxFaults /\ pc # "idle"
      BY <1>3, <1>t DEF SendFails, Hangup, Sockets
    <2>2. CASE Link
      <3>1. Sleep(IF lost THEN "connect and send" ELSE "flush and send")
        BY <1>3, <2>2 DEF SendFails
      <3>2. (IF lost THEN "connect and send" ELSE "flush and send") \in Nexts \ {"none"}
        BY DEF Nexts, SendsAgain
      <3> QED
        BY <2>1, <3>1, <3>2, SleepScalars
    <2>3. CASE ~Link
      <3>1. Return("EIO", 0)
        BY <1>3, <2>3 DEF SendFails
      <3> QED
        BY <2>1, <3>1, ReturnScalars
    <2> QED
      BY <2>2, <2>3
  <1>4. ASSUME WakeUp \/ Connected PROVE Scalars
    <2>1. sock' \in Sockets /\ faults' \in 0 .. MaxFaults /\ pc # "idle"
      BY <1>4, <1>t DEF WakeUp, Connected, Sockets
    <2>2. GoOn \/ (next = "connect and send" /\ Connect(next))
      BY <1>4 DEF WakeUp, Connected
    <2>3. "connect and send" \in Connects
      BY DEF Connects
    <2> QED
      BY <2>1, <2>2, <2>3, GoOnScalars, ConnectScalars
  <1>5. ASSUME TimedOut PROVE Scalars
    <2>1. UNCHANGED <<sock, faults>> /\ pc # "idle"
      BY <1>5 DEF TimedOut
    <2>2. Sleep("ETIMEDOUT") \/ Return("ETIMEDOUT", 0)
      BY <1>5 DEF TimedOut
    <2>3. "ETIMEDOUT" \in Nexts \ {"none"}
      BY DEF Nexts
    <2> QED
      BY <1>t, <2>1, <2>2, <2>3, SleepScalars, ReturnScalars
  <1>6. ASSUME PeerClosed PROVE Scalars
    <2>1. sock' \in Sockets /\ faults' \in 0 .. MaxFaults /\ pc # "idle"
      BY <1>6, <1>t DEF PeerClosed, Sockets
    <2>2. Connect("ECONNRESET") \/ Return("ECONNRESET", 0)
      BY <1>6 DEF PeerClosed
    <2>3. "ECONNRESET" \in Connects
      BY DEF Connects
    <2> QED
      BY <2>1, <2>2, <2>3, ConnectScalars, ReturnScalars
  <1>7. ASSUME Receive PROVE Scalars
    <2> DEFINE m == Head(rx)
               verdict == IF Backend = "GOODWE" THEN "ok" ELSE Verdict(Backend, q, m.reply)
    <2>1. UNCHANGED <<sock, faults>> /\ pc # "idle"
      BY <1>7 DEF Receive
    <2>2. \/ Return("EMBBADCRC", 0)
          \/ Return("EMBBADSLAVE", 0)
          \/ Reject(IF Backend = "TCP" THEN "EMBBADDATA" ELSE "EMBBADSLAVE")
          \/ verdict = "EMBBADDATA" /\ Reject(verdict)
          \/ Return(verdict, m.n)
      BY <1>7 DEF Receive
    <2>3. ASSUME NEW v \in Rejects, Reject(v) PROVE Scalars
      <3>1. Sleep(v) \/ Return(v, 0)
        BY <2>3 DEF Reject
      <3>2. v \in Nexts \ {"none"}
        BY <2>3 DEF Nexts, Rejects
      <3> QED
        BY <1>t, <2>1, <3>1, <3>2, SleepScalars, ReturnScalars
    <2>4. (IF Backend = "TCP" THEN "EMBBADDATA" ELSE "EMBBADSLAVE") \in Rejects /\ "EMBBADDATA" \in Rejects
      BY DEF Rejects
    <2> HIDE DEF verdict, m
    <2>5. ASSUME NEW v, NEW f, Return(v, f) PROVE Scalars
      BY <1>t, <2>1, <2>5, ReturnScalars
    <2> QED
      BY <2>2, <2>3, <2>4, <2>5
  <1>8. ASSUME Reopen \/ PeerCloses PROVE Scalars
    <2>1. UNCHANGED <<pc, q, tv, next, spent>> /\ sock' \in Sockets /\ faults' \in 0 .. MaxFaults
      BY <1>8, <1>t DEF Reopen, PeerCloses, Sockets
    <2> QED
      BY <2>1, StayScalars
  <1>9. ASSUME LinkStep PROVE Scalars
    <2>1. UNCHANGED <<pc, q, tv, next, spent, sock>>
      BY <1>9 DEF LinkStep, Lose, Arrive
    <2>2. faults' = faults \/ (faults > 0 /\ faults' = faults - 1)
      BY <1>9 DEF LinkStep, Lose, Arrive
    <2> QED
      BY <1>t, <2>1, <2>2, StayScalars
  <1>10. ASSUME Tick PROVE Scalars
    <2>1. tv' \in 0 .. ResponseTimeout
      BY <1>10, Sizes DEF Tick, TypeInv
    <2>2. spent' \in Nat
      BY <1>10 DEF Tick, TypeInv
    <2>3. UNCHANGED <<pc, q, next, sock, faults>>
      BY <1>10 DEF Tick
    <2> QED
      BY <1>t, <2>1, <2>2, <2>3 DEF Scalars, TypeInv
  <1> QED
    BY <1>1, <1>2, <1>3, <1>4, <1>5, <1>6, <1>7, <1>8, <1>9, <1>10 DEF Next, ClientStep

LEMMA NextType == TypeInv /\ [Next]_vars => TypeInv'
  <1>1. ASSUME TypeInv, Next PROVE TypeInv'
    <2>1. ctx' \in Settings
      BY <1>1, CallStep DEF TypeInv
    <2> QED
      BY <1>1, <2>1, NetStep, RxStep, CallType, ScalarsStep DEF Scalars, Sockets, TypeInv
  <1>2. ASSUME TypeInv, UNCHANGED vars PROVE TypeInv'
    BY <1>2 DEF TypeInv, vars
  <1> QED
    BY <1>1, <1>2

LEMMA TypeInvHolds == Spec => []TypeInv
  BY InitType, NextType, PTL DEF Spec

\* Every reachable state of the client and its link is well typed.
THEOREM TypeCorrect == Spec => []TypeOK
  <1>1. TypeInv => TypeOK
    <2> SUFFICES ASSUME TypeInv PROVE TypeOK
      OBVIOUS
    <2>1. \A i \in DOMAIN net : net[i] \in ExchangeType
      BY DEF TypeInv
    <2> QED
      BY <2>1 DEF TypeInv, TypeOK
  <1> QED
    BY <1>1, TypeInvHolds, PTL

----------------------------------------------------------------------------
\* Each message under way, or come in, is of a call that was made, and over TCP the
\* identifier has gone on by one with each call since then.

\* The identifier d calls after t.
Advanced(t, d) == IF t + d <= TidMax THEN t + d ELSE t + d - (TidMax + 1)

\* Identifiers do not come back within the calls that are made.
NoReuse == MaxCalls <= TidMax + 1

Origin(k, c, t) ==
    /\ k \in 1 .. n
    /\ c = IF k = n /\ pc # "idle" THEN q ELSE results[k].q
    /\ Backend = "TCP" /\ NoReuse => tid = Advanced(t, n - k)

\* The same of the state after a step.
OriginAfter(k, c, t) ==
    /\ k \in 1 .. n'
    /\ c = IF k = n' /\ pc' # "idle" THEN q' ELSE results'[k].q
    /\ Backend = "TCP" /\ NoReuse => tid' = Advanced(t, n' - k)

OriginInv ==
    /\ \A i \in DOMAIN net : Origin(net[i].n, net[i].q, net[i].tid)
    /\ \A i \in DOMAIN rx : Origin(rx[i].n, rx[i].q, rx[i].tid)

LEMMA AdvancedNext ==
    ASSUME NEW t \in 0 .. TidMax, NEW d \in Nat, d < TidMax
    PROVE  NextTid(Advanced(t, d)) = Advanced(t, d + 1)
  BY Sizes DEF NextTid, Advanced

LEMMA AdvancedSame ==
    ASSUME NEW t \in 0 .. TidMax, NEW d \in Nat, d <= TidMax
    PROVE  Advanced(t, d) = t <=> d = 0
  BY Sizes DEF Advanced

LEMMA OriginKept ==
    ASSUME TypeInv, Next
    PROVE  \A k, c : \A t \in 0 .. TidMax : Origin(k, c, t) => OriginAfter(k, c, t)
  <1> SUFFICES ASSUME NEW k, NEW c, NEW t \in 0 .. TidMax, Origin(k, c, t)
               PROVE  OriginAfter(k, c, t)
    OBVIOUS
  <1>t. n \in Nat /\ n <= MaxCalls /\ k \in 1 .. n /\ results \in Seq(Result)
    BY DEF TypeInv, Origin
  <1>1. CASE Begins
    <2>1. n' = n + 1 /\ pc = "idle" /\ results' = results /\ n + 1 <= MaxCalls
      BY <1>1, <1>t, Sizes DEF Begins
    <2>2. k \in 1 .. n' /\ k # n'
      BY <1>t, <2>1
    <2>3. c = results'[k].q
      BY <2>1 DEF Origin
    <2>4. ASSUME Backend = "TCP", NoReuse PROVE tid' = Advanced(t, n' - k)
      <3>1. tid = Advanced(t, n - k) /\ tid' = NextTid(tid)
        BY <1>1, <2>4 DEF Begins, Origin
      <3>2. n - k \in Nat /\ n - k < TidMax
        BY <1>t, <2>1, <2>4, Sizes DEF NoReuse
      <3>3. (n - k) + 1 = n' - k
        BY <1>t, <2>1
      <3> QED
        BY <3>1, <3>2, <3>3, AdvancedNext
    <2> QED
      BY <2>2, <2>3, <2>4 DEF OriginAfter
  <1>2. CASE GoesOn
    BY <1>2 DEF GoesOn, Origin, OriginAfter
  <1>3. ASSUME NEW verdict \in Verdicts, NEW from \in 0 .. MaxCalls, Returns(verdict, from)
        PROVE  OriginAfter(k, c, t)
    <2> DEFINE r == [q |-> q, verdict |-> verdict, from |-> from]
    <2>1. /\ pc # "idle" /\ pc' = "idle" /\ n' = n /\ tid' = tid
          /\ results' = Append(results, r) /\ Len(results) = n - 1
      BY <1>3 DEF Returns, TypeInv
    <2>2. r.q = q
      OBVIOUS
    <2> HIDE DEF r
    <2>3. results'[k].q = IF k = n THEN q ELSE results[k].q
      BY <1>t, <2>1, <2>2
    <2> QED
      BY <2>1, <2>3 DEF Origin, OriginAfter
  <1> QED
    BY <1>1, <1>2, <1>3, CallStep

LEMMA OriginStep ==
    ASSUME TypeInv, Next, OriginInv
    PROVE  OriginInv'
  <1>c. Backend' = Backend
    BY CallStep DEF Backend
  <1>n. \A i \in DOMAIN net : net[i] \in ExchangeType
    BY DEF TypeInv
  <1>r. \A i \in DOMAIN rx : rx[i] \in Message
    BY DEF TypeInv
  <1>1. ASSUME NEW i \in DOMAIN net'
        PROVE  OriginAfter(net'[i].n, net'[i].q, net'[i].tid)
    <2>1. ASSUME NEW j \in DOMAIN net, Same(net'[i], net[j])
          PROVE  OriginAfter(net'[i].n, net'[i].q, net'[i].tid)
      <3>1. net[j].tid \in 0 .. TidMax
        BY <1>n DEF ExchangeType
      <3>2. Origin(net[j].n, net[j].q, net[j].tid)
        BY DEF OriginInv
      <3>3. OriginAfter(net[j].n, net[j].q, net[j].tid)
        BY <3>1, <3>2, OriginKept
      <3> QED
        BY <2>1, <3>3 DEF Same
    <2>2. ASSUME pc = "send", pc' = "wait", Sent(net'[i])
          PROVE  OriginAfter(net'[i].n, net'[i].q, net'[i].tid)
      <3>1. n' = n /\ q' = q /\ tid' = tid
        BY <2>2, CallStep DEF Begins, GoesOn, Returns
      <3>2. n \in 1 .. n
        <4>1. Len(results) = n - 1 /\ Len(results) \in Nat
          BY <2>2 DEF TypeInv
        <4> QED
          BY <4>1 DEF TypeInv
      <3>3. tid = Advanced(tid, n - n)
        <4>1. tid \in 0 .. TidMax /\ n - n = 0
          BY <3>2 DEF TypeInv
        <4> QED
          BY <4>1, Sizes DEF Advanced
      <3> QED
        BY <2>2, <3>1, <3>2, <3>3 DEF Sent, OriginAfter
    <2> QED
      BY <2>1, <2>2, NetStep DEF Older, Same
  <1>2. ASSUME NEW i \in DOMAIN rx'
        PROVE  OriginAfter(rx'[i].n, rx'[i].q, rx'[i].tid)
    <2>1. ASSUME NEW j \in DOMAIN rx, rx'[i] = rx[j]
          PROVE  OriginAfter(rx'[i].n, rx'[i].q, rx'[i].tid)
      <3>1. rx[j].tid \in 0 .. TidMax
        BY <1>r DEF Message, MessageFields
      <3>2. Origin(rx[j].n, rx[j].q, rx[j].tid)
        BY DEF OriginInv
      <3>3. OriginAfter(rx[j].n, rx[j].q, rx[j].tid)
        BY <3>1, <3>2, OriginKept
      <3> QED
        BY <2>1, <3>3
    <2>2. ASSUME NEW j \in DOMAIN net, AnswerOf(rx'[i], net[j])
          PROVE  OriginAfter(rx'[i].n, rx'[i].q, rx'[i].tid)
      <3>1. net[j].tid \in 0 .. TidMax
        BY <1>n DEF ExchangeType
      <3>2. Origin(net[j].n, net[j].q, net[j].tid)
        BY DEF OriginInv
      <3>3. OriginAfter(net[j].n, net[j].q, net[j].tid)
        BY <3>1, <3>2, OriginKept
      <3> QED
        BY <2>2, <3>3 DEF AnswerOf
    <2> QED
      BY <2>1, <2>2, RxStep
  <1> QED
    BY <1>c, <1>1, <1>2 DEF OriginInv, Origin, OriginAfter

----------------------------------------------------------------------------
\* Times: no answer is later than due, and who sleeps sleeps out the response timeout.

Aged(e, p, left) ==
    /\ e.due \in ctx.delays /\ e.age <= e.due
    /\ p = "sleep" => e.age + left >= ResponseTimeout

AgeInv == \A i \in DOMAIN net : Aged(net[i], pc, tv)

\* A sleep begins with the whole timeout, and only time shortens it.
LEMMA SleepTimer ==
    ASSUME TypeInv, Next, ~Tick, pc' = "sleep"
    PROVE  tv' = ResponseTimeout \/ (pc = "sleep" /\ tv' = tv)
  <1>1. ASSUME NEW call \in Calls, Begin(call) PROVE FALSE
    BY <1>1 DEF Begin
  <1>2. ASSUME NEW delay \in ctx.delays, Send(delay) PROVE FALSE
    BY <1>2 DEF Send
  <1>3. ASSUME NEW lost \in BOOLEAN, SendFails(lost) PROVE tv' = ResponseTimeout
    BY <1>3 DEF SendFails, Sleep, Return
  <1>4. ASSUME WakeUp \/ Connected \/ PeerClosed PROVE FALSE
    BY <1>4 DEF WakeUp, Connected, PeerClosed, Connect, GoOn, Return
  <1>5. ASSUME TimedOut PROVE tv' = ResponseTimeout
    BY <1>5 DEF TimedOut, Sleep, Return
  <1>6. ASSUME Receive PROVE tv' = ResponseTimeout
    BY <1>6 DEF Receive, Reject, Sleep, Return
  <1>7. ASSUME Reopen \/ PeerCloses \/ LinkStep PROVE pc = "sleep" /\ tv' = tv
    BY <1>7 DEF Reopen, PeerCloses, LinkStep, Lose, Arrive
  <1> QED
    BY <1>1, <1>2, <1>3, <1>4, <1>5, <1>6, <1>7 DEF Next, ClientStep

LEMMA DelaysNat ==
    ASSUME TypeInv, NEW d \in ctx.delays
    PROVE  d \in Nat /\ d < 2 * ResponseTimeout /\ d \in {Prompt, Late}
  BY SettingFields, Sizes DEF TypeInv

LEMMA AgeStep ==
    ASSUME TypeInv, Next, AgeInv
    PROVE  AgeInv'
  <1>c. ctx' = ctx
    BY CallStep
  <1>t. tv \in Nat /\ ResponseTimeout \in Nat /\ \A i \in DOMAIN net : net[i].age \in Nat
    <2>1. \A i \in DOMAIN net : net[i] \in ExchangeType
      BY DEF TypeInv
    <2> QED
      BY <2>1, Sizes DEF TypeInv, ExchangeType
  <1> SUFFICES ASSUME NEW i \in DOMAIN net' PROVE Aged(net'[i], pc', tv')
    BY <1>c DEF AgeInv, Aged
  <1>1. CASE Tick
    <2>1. PICK j \in DOMAIN net : Older(net'[i], net[j])
      <3>1. net' = [k \in DOMAIN net |-> [net[k] EXCEPT !.age = @ + 1]]
        BY <1>1 DEF Tick
      <3>2. \A e \in ExchangeType : Older([e EXCEPT !.age = @ + 1], e)
        BY DEF ExchangeType, Same, Older
      <3>3. i \in DOMAIN net /\ net[i] \in ExchangeType
        BY <3>1 DEF TypeInv
      <3> QED
        BY <3>1, <3>2, <3>3
    <2>2. net[j].age < net[j].due /\ pc' = pc /\ (pc = "sleep" => tv > 0 /\ tv' = tv - 1)
      BY <1>1 DEF Tick
    <2>3. net[j].age \in Nat /\ net[j].due \in ctx.delays /\ net[j].due \in Nat
      BY <1>t, DelaysNat DEF AgeInv, Aged
    <2>4. net'[i].due = net[j].due /\ net'[i].age = net[j].age + 1
      BY <2>1 DEF Older, Same
    <2>5. pc = "sleep" => net[j].age + tv >= ResponseTimeout
      BY DEF AgeInv, Aged
    <2> QED
      BY <1>t, <2>2, <2>3, <2>4, <2>5 DEF Aged
  <1>2. CASE ~Tick
    <2>1. ASSUME NEW j \in DOMAIN net, net'[i] = net[j] PROVE Aged(net'[i], pc', tv')
      <3>1. net[j].age \in Nat /\ Aged(net[j], pc, tv)
        BY <1>t DEF AgeInv
      <3> QED
        BY <1>2, <1>t, <2>1, <3>1, SleepTimer DEF Aged
    <2>2. ASSUME pc' = "wait", Sent(net'[i]) PROVE Aged(net'[i], pc', tv')
      <3>1. net'[i].due \in ctx.delays /\ net'[i].age = 0
        BY <2>2 DEF Sent
      <3> QED
        BY <2>2, <3>1, DelaysNat DEF Aged
    <2> QED
      BY <1>2, <2>1, <2>2, NetStep
  <1> QED
    BY <1>1, <1>2

----------------------------------------------------------------------------
\* A serial line is never closed, and if no answer outlasts its call, at most one message
\* is on it: that of the call under way.

SerialInv == Backend # "TCP" => sock = "open" /\ next # "connect and send" /\ pc # "connect"

Timely == Backend # "TCP" /\ (Link \/ ctx.delays = {Prompt})

Quiet == net = <<>> /\ rx = <<>>

AloneInv ==
    Timely =>
        /\ Len(net) + Len(rx) <= 1
        /\ pc \in {"idle", "send"} => Quiet
        /\ pc = "wait" =>
             /\ \A i \in DOMAIN net : net[i].n = n /\ net[i].age + tv = ResponseTimeout
             /\ \A i \in DOMAIN rx : rx[i].n = n
        /\ pc = "sleep" =>
             \/ Quiet
             \/ /\ next = "ETIMEDOUT" /\ Link
                /\ \A i \in DOMAIN net : net[i].age + tv = 2 * ResponseTimeout

LEMMA SerialStep ==
    ASSUME TypeInv, Next, SerialInv
    PROVE  SerialInv'
  <1> DEFINE Goal == sock' = "open" /\ next' # "connect and send" /\ pc' # "connect"
  <1> SUFFICES ASSUME Backend # "TCP", sock = "open", next # "connect and send", pc # "connect"
               PROVE  Goal
    BY CallStep DEF SerialInv, Backend
  <1>1. ASSUME NEW call \in Calls, Begin(call) PROVE Goal
    BY <1>1 DEF Begin
  <1>2. ASSUME NEW delay \in ctx.delays, Send(delay) PROVE Goal
    BY <1>2 DEF Send
  <1>3. ASSUME NEW lost \in BOOLEAN, SendFails(lost) PROVE Goal
    BY <1>3 DEF SendFails, Sleep, Return
  <1>4. ASSUME WakeUp PROVE Goal
    BY <1>4 DEF WakeUp, GoOn, Return
  <1>5. ASSUME TimedOut PROVE Goal
    BY <1>5 DEF TimedOut, Sleep, Return
  <1>6. ASSUME Receive PROVE Goal
    <2>1. sock' = sock
      BY <1>6 DEF Receive
    <2>2. \/ \E verdict, from : Return(verdict, from)
          \/ \E verdict : Reject(verdict) /\ verdict # "connect and send"
      <3> DEFINE m == Head(rx)
                 verdict == IF Backend = "GOODWE" THEN "ok" ELSE Verdict(Backend, q, m.reply)
      <3>1. \/ Return("EMBBADCRC", 0)
            \/ Return("EMBBADSLAVE", 0)
            \/ Reject(IF Backend = "TCP" THEN "EMBBADDATA" ELSE "EMBBADSLAVE")
            \/ verdict = "EMBBADDATA" /\ Reject(verdict)
            \/ Return(verdict, m.n)
        BY <1>6 DEF Receive
      <3> HIDE DEF verdict, m
      <3>2. "EMBBADDATA" # "connect and send" /\ "EMBBADSLAVE" # "connect and send"
        OBVIOUS
      <3>3. ASSUME NEW v, Return(v, 0) PROVE \E w, from : Return(w, from)
        BY <3>3
      <3>4. Return(verdict, m.n) => \E w, from : Return(w, from)
        OBVIOUS
      <3> QED
        BY <3>1, <3>2, <3>3, <3>4
    <2> QED
      BY <2>1, <2>2 DEF Reject, Sleep, Return
  <1>7. ASSUME Connected \/ PeerClosed \/ Reopen \/ PeerCloses PROVE FALSE
    BY <1>7 DEF Connected, PeerClosed, Reopen, PeerCloses
  <1>8. ASSUME LinkStep \/ Tick PROVE Goal
    BY <1>8 DEF LinkStep, Lose, Arrive, Tick
  <1> HIDE DEF Goal
  <1> QED
    BY <1>1, <1>2, <1>3, <1>4, <1>5, <1>6, <1>7, <1>8 DEF Next, ClientStep

LEMMA EmptyByLength ==
    ASSUME NEW S, NEW s \in Seq(S)
    PROVE  Len(s) \in Nat /\ (Len(s) = 0 <=> s = <<>>) /\ (s = <<>> <=> DOMAIN s = {})
  OBVIOUS

LEMMA AtMostOne ==
    ASSUME NEW a \in Nat, NEW b \in Nat, a + b <= 1
    PROVE  (a # 0 => a = 1 /\ b = 0) /\ (b # 0 => b = 1 /\ a = 0)
  OBVIOUS

\* Nothing on the line keeps AloneInv, whatever the call does.
LEMMA QuietAlone == ASSUME Quiet' PROVE AloneInv'
  BY EmptyElements DEF Quiet, AloneInv

LEMMA AloneStep ==
    ASSUME TypeInv, Next, AgeInv, SerialInv, AloneInv
    PROVE  AloneInv'
  <1>c. Timely' <=> Timely
    BY CallStep DEF Timely, Backend, Link
  <1> SUFFICES ASSUME Timely PROVE AloneInv'
    BY <1>c DEF AloneInv
  <1>t. /\ net \in Seq(ExchangeType) /\ rx \in Seq(Message)
        /\ Len(net) \in Nat /\ Len(rx) \in Nat /\ tv \in Nat
        /\ ResponseTimeout \in Nat /\ ResponseTimeout > 0
        /\ \A i \in DOMAIN net : net[i].age \in Nat
    <2>1. \A i \in DOMAIN net : net[i] \in ExchangeType
      BY DEF TypeInv
    <2> QED
      BY <2>1, Sizes DEF TypeInv, ExchangeType
  <1>s. sock = "open" /\ next # "connect and send" /\ pc # "connect"
    BY DEF SerialInv, Timely
  <1>1. ASSUME NEW call \in Calls, Begin(call) PROVE Quiet'
    BY <1>1 DEF Begin, AloneInv, Quiet
  <1>2. ASSUME NEW delay \in ctx.delays, Send(delay) PROVE AloneInv'
    <2>1. net = <<>> /\ rx = <<>>
      BY <1>2 DEF Send, AloneInv, Quiet
    <2> DEFINE e == [n |-> n, q |-> q, tid |-> tid, age |-> 0, due |-> delay]
    <2>2. net' = Append(<<>>, e) /\ rx' = <<>> /\ pc' = "wait" /\ tv' = ResponseTimeout /\ n' = n
      BY <1>2, <1>s, <2>1 DEF Send
    <2>3. e.n = n /\ e.age = 0
      OBVIOUS
    <2> HIDE DEF e
    <2>4. Len(net') = 1 /\ Len(rx') = 0 /\ DOMAIN rx' = {} /\ \A i \in DOMAIN net' : net'[i] = e
      BY <2>2
    <2> QED
      BY <1>t, <2>2, <2>3, <2>4 DEF AloneInv
  <1>3. ASSUME NEW lost \in BOOLEAN, SendFails(lost) PROVE Quiet'
    <2>1. net = <<>> /\ rx = <<>>
      BY <1>3 DEF SendFails, AloneInv, Quiet
    <2> QED
      BY <1>3, <2>1 DEF SendFails, Hangup, Quiet
  <1>4. ASSUME WakeUp PROVE Quiet'
    <2>1. pc = "sleep" /\ tv = 0 /\ net' = net /\ rx' = <<>>
      BY <1>4, <1>s DEF WakeUp
    <2>2. ASSUME NEW i \in DOMAIN net, net[i].age + tv = 2 * ResponseTimeout PROVE FALSE
      <3>1. net[i].age <= net[i].due /\ net[i].due \in ctx.delays
        BY DEF AgeInv, Aged
      <3>2. net[i].due \in Nat /\ net[i].due < 2 * ResponseTimeout
        BY <3>1, DelaysNat
      <3> QED
        BY <1>t, <2>1, <2>2, <3>1, <3>2
    <2>3. net = <<>>
      <3>1. CASE Quiet
        BY <3>1 DEF Quiet
      <3>2. CASE \A i \in DOMAIN net : net[i].age + tv = 2 * ResponseTimeout
        <4>1. DOMAIN net = {}
          BY <2>2, <3>2
        <4> QED
          BY <4>1, <1>t, EmptyByLength
      <3> QED
        BY <2>1, <3>1, <3>2 DEF AloneInv
    <2> QED
      BY <2>1, <2>3 DEF Quiet
  <1>5. ASSUME TimedOut PROVE AloneInv'
    <2>1. pc = "wait" /\ tv = 0 /\ rx = <<>> /\ UNCHANGED <<ctx, n, net, rx>>
      BY <1>5 DEF TimedOut
    <2>2. \A i \in DOMAIN net : net[i].age + tv = ResponseTimeout
      BY <2>1 DEF AloneInv
    <2>3. CASE Link
      <3>1. pc' = "sleep" /\ tv' = ResponseTimeout /\ next' = "ETIMEDOUT"
        BY <1>5, <2>3 DEF TimedOut, Sleep
      <3>2. \A i \in DOMAIN net' : net'[i].age + tv' = 2 * ResponseTimeout
        BY <1>t, <2>1, <2>2, <3>1
      <3>3. Link' /\ Len(net') + Len(rx') <= 1
        BY <2>1, <2>3 DEF Link, AloneInv
      <3> QED
        BY <3>1, <3>2, <3>3 DEF AloneInv
    <2>4. CASE ~Link
      <3>1. ASSUME NEW i \in DOMAIN net PROVE FALSE
        <4>1. net[i].age <= net[i].due /\ net[i].due \in ctx.delays /\ ctx.delays = {Prompt}
          BY <2>4 DEF AgeInv, Aged, Timely
        <4> QED
          BY <1>t, <2>1, <2>2, <4>1, Sizes
      <3>2. net = <<>>
        BY <3>1, <1>t, EmptyByLength
      <3>3. Quiet'
        BY <2>1, <3>2 DEF Quiet
      <3> QED
        BY <3>3, QuietAlone
    <2> QED
      BY <2>3, <2>4
  <1>6. ASSUME Receive PROVE Quiet'
    <2>1. rx # <<>> /\ net' = net /\ (rx' = <<>> \/ rx' = Tail(rx))
      BY <1>6 DEF Receive, Reject
    <2>2. Len(rx) # 0 /\ Len(net) + Len(rx) <= 1
      BY <1>t, <2>1, EmptyByLength DEF AloneInv
    <2>3. Len(rx) = 1 /\ Len(net) = 0
      <3>1. Len(net) \in Nat /\ Len(rx) \in Nat
        BY <1>t
      <3> QED
        BY <2>2, <3>1, AtMostOne
    <2>4. Tail(rx) = <<>>
      <3>1. Tail(rx) \in Seq(Message) /\ Len(Tail(rx)) = 0
        BY <1>t, <2>1, <2>3, TailElements
      <3> QED
        BY <3>1, EmptyByLength
    <2>5. net = <<>>
      BY <1>t, <2>3, EmptyByLength
    <2> QED
      BY <2>1, <2>4, <2>5 DEF Quiet
  <1>7. ASSUME Connected \/ PeerClosed \/ Reopen \/ PeerCloses PROVE FALSE
    BY <1>7, <1>s DEF Connected, PeerClosed, Reopen, PeerCloses, Timely
  <1>8. ASSUME NEW i \in DOMAIN net,
               Lose(i) \/ (\E executed \in BOOLEAN : Arrive(i, executed))
        PROVE  AloneInv'
    <2>1. net' = Without(i) /\ UNCHANGED <<ctx, pc, n, tv, next>>
      BY <1>8 DEF Lose, Arrive
    <2>2. Len(net) # 0
      BY <1>t, EmptyByLength
    <2>3. Len(net) = 1 /\ Len(rx) = 0
      <3>1. Len(net) \in Nat /\ Len(rx) \in Nat
        BY <1>t
      <3>2. Len(net) + Len(rx) <= 1
        BY DEF AloneInv
      <3> QED
        BY <2>2, <3>1, <3>2, AtMostOne
    <2>4. rx = <<>>
      BY <1>t, <2>3, EmptyByLength
    <2>5. net' = <<>>
      <3>1. Without(i) \in Seq(ExchangeType) /\ Len(Without(i)) = 0
        BY <1>t, <2>3, WithoutElements
      <3> QED
        BY <2>1, <3>1, EmptyByLength
    <2>6. CASE rx' = <<>>
      BY <2>5, <2>6, QuietAlone DEF Quiet
    <2>7. CASE rx' # <<>>
      <3>1. PICK m : rx' = Append(rx, m) /\ m.n = net[i].n
        <4>1. ~Lose(i)
          BY <2>4, <2>7 DEF Lose
        <4>2. PICK executed \in BOOLEAN : Arrive(i, executed)
          BY <1>8, <4>1
        <4>3. PICK damaged \in BOOLEAN :
                rx' = Append(rx, [n |-> net[i].n, q |-> net[i].q, tid |-> net[i].tid,
                                  due |-> net[i].due, reply |-> ReplyTo(net[i].q, executed),
                                  damaged |-> damaged])
          BY <4>2 DEF Arrive
        <4> DEFINE m == [n |-> net[i].n, q |-> net[i].q, tid |-> net[i].tid,
                         due |-> net[i].due, reply |-> ReplyTo(net[i].q, executed),
                         damaged |-> damaged]
        <4>4. m.n = net[i].n /\ rx' = Append(rx, m)
          BY <4>3
        <4> HIDE DEF m
        <4> QED
          BY <4>4
      <3>2. Len(rx') = 1 /\ \A k \in DOMAIN rx' : rx'[k].n = net[i].n
        BY <2>4, <3>1
      <3>3. Len(net') = 0 /\ DOMAIN net' = {}
        BY <2>5, EmptyElements
      <3>4. net # <<>>
        BY <2>3, EmptyElements
      <3>5. pc = "wait" => net[i].n = n
        BY DEF AloneInv
      <3>6. pc \notin {"idle", "send"} /\ (pc = "sleep" => next = "ETIMEDOUT" /\ Link)
        BY <3>4 DEF AloneInv, Quiet
      <3>7. Link' <=> Link
        BY <2>1 DEF Link
      <3> QED
        BY <2>1, <3>2, <3>3, <3>5, <3>6, <3>7 DEF AloneInv
    <2> QED
      BY <2>6, <2>7
  <1>9. ASSUME Tick PROVE AloneInv'
    <2>1. /\ net' = [i \in DOMAIN net |-> [net[i] EXCEPT !.age = @ + 1]]
          /\ UNCHANGED <<ctx, pc, n, next, rx>>
      BY <1>9 DEF Tick
    <2>2. CASE net = <<>> /\ rx = <<>>
      <3>1. net' = <<>>
        BY <2>1, <2>2
      <3> QED
        BY <2>1, <2>2, <3>1, QuietAlone DEF Quiet
    <2>3. CASE ~Quiet
      <3>1. pc \in {"wait", "sleep"} /\ tv > 0 /\ tv' = tv - 1
        BY <1>9, <1>s, <2>3 DEF Tick, AloneInv, TypeInv
      <3>2. DOMAIN net' = DOMAIN net /\ Len(net') = Len(net)
        <4>1. DOMAIN net' = DOMAIN net
          BY <2>1
        <4>2. net' \in Seq(ExchangeType)
          BY NetStep
        <4> QED
          BY <1>t, <4>1, <4>2
      <3>3. \A i \in DOMAIN net : net'[i].age + tv' = net[i].age + tv /\ net'[i].n = net[i].n
        <4> SUFFICES ASSUME NEW i \in DOMAIN net
                     PROVE  net'[i].age + tv' = net[i].age + tv /\ net'[i].n = net[i].n
          OBVIOUS
        <4>1. \A e \in ExchangeType : Older([e EXCEPT !.age = @ + 1], e)
          BY DEF ExchangeType, Same, Older
        <4>2. net[i] \in ExchangeType
          BY <1>t
        <4>3. net'[i].age = net[i].age + 1 /\ net'[i].n = net[i].n
          BY <2>1, <4>1, <4>2 DEF Older, Same
        <4> QED
          BY <1>t, <3>1, <4>3
      <3>4. Link' <=> Link
        BY <2>1 DEF Link
      <3>5. CASE pc = "wait"
        BY <2>1, <3>2, <3>3, <3>5 DEF AloneInv
      <3>6. CASE pc = "sleep"
        BY <2>1, <2>3, <3>2, <3>3, <3>4, <3>6 DEF AloneInv
      <3> QED
        BY <3>1, <3>5, <3>6
    <2> QED
      BY <2>2, <2>3 DEF Quiet
  <1> QED
    BY <1>1, <1>2, <1>3, <1>4, <1>5, <1>6, <1>7, <1>8, <1>9, QuietAlone DEF Next, ClientStep, LinkStep

----------------------------------------------------------------------------
\* Whose answer a call takes.

AnsweredInv ==
    \A i \in DOMAIN results :
        /\ results[i].from \in 0 .. i
        /\ (Backend = "TCP" /\ NoReuse) \/ Timely => results[i].from \in {0, i}
        /\ results[i].verdict = "ok" =>
             /\ results[i].from # 0
             /\ Backend = "RTU" \/ (Backend = "TCP" /\ NoReuse) =>
                  Alike(results[i].q, results[results[i].from].q)
        /\ results[i].verdict = "EMBBADEXC" => results[i].from \notin {0, i}

\* The fields a reply tells of.
AlikeButSlave(a, b) ==
    /\ a.fc = b.fc
    /\ a.fc \in ReadBits => BitBytes(a.nb) = BitBytes(b.nb)
    /\ a.fc \in ReadRegisters \union {WriteAndRead} => a.nb = b.nb
    /\ a.fc \in WriteSingle => a.addr = b.addr /\ a.value = b.value
    /\ a.fc \in {WriteBits, WriteRegisters} => a.addr = b.addr /\ a.nb = b.nb

LEMMA LegalFields ==
    ASSUME NEW c \in Calls
    PROVE  /\ c.fc \in Nat /\ c.nb \in Nat
           /\ c.fc \in ReadBits => c.nb <= 2000
           /\ c.fc \in ReadRegisters \union {WriteAndRead} => c.nb <= 125
  <1>1. Numbers(c) \in LegalRequests
    BY ModbusLinkAssumption
  <1>2. c.fc = Numbers(c).fc /\ c.nb = Numbers(c).nb
    BY DEF Numbers
  <1>3. \A r \in LegalRequests :
          /\ r.fc \in Nat /\ r.nb \in Nat
          /\ r.fc \in ReadBits => r.nb <= 2000
          /\ r.fc \in ReadRegisters \union {WriteAndRead} => r.nb <= 125
    BY DEF LegalRequests, ReadBits, ReadRegisters, WriteSingle, ReportSlaveId, MaskWrite, WriteBits,
           WriteRegisters, WriteAndRead
  <1> QED
    BY <1>1, <1>2, <1>3

LEMMA ReplyLengths ==
    ASSUME NEW c \in Calls
    PROVE  /\ ReplyCount(Numbers(c)) \in Nat
           /\ c.fc \in ReadBits => ReplyCount(Numbers(c)) = BitBytes(c.nb)
           /\ c.fc \in ReadRegisters \union {WriteAndRead} => ReplyCount(Numbers(c)) = 2 * c.nb
  <1>1. Numbers(c).fc = c.fc /\ Numbers(c).nb = c.nb
    BY DEF Numbers
  <1>2. ASSUME NEW x \in Nat, x <= 2000
        PROVE  BitBytes(x) \in Nat /\ BitBytes(x) % 256 = BitBytes(x)
    <2>1. BitBytes(x) \in Nat /\ BitBytes(x) <= 250
      BY <1>2 DEF BitBytes
    <2> QED
      BY <2>1
  <1>3. ASSUME NEW x \in Nat, x <= 125 PROVE (2 * x) % 256 = 2 * x /\ 2 * x \in Nat
    BY <1>3
  <1>4. CASE c.fc \in ReadBits
    <2>1. c.fc \notin ReadRegisters \union {WriteAndRead}
      BY <1>4 DEF ReadBits, ReadRegisters, WriteAndRead
    <2> QED
      BY <1>1, <1>2, <1>4, <2>1, LegalFields DEF ReplyCount
  <1>5. CASE c.fc \in ReadRegisters \union {WriteAndRead}
    <2>1. c.fc \notin ReadBits
      BY <1>5 DEF ReadBits, ReadRegisters, WriteAndRead
    <2> QED
      BY <1>1, <1>3, <1>5, <2>1, LegalFields DEF ReplyCount
  <1>6. CASE c.fc \notin ReadBits \union ReadRegisters \union {WriteAndRead}
    BY <1>1, <1>6 DEF ReplyCount
  <1> QED
    BY <1>4, <1>5, <1>6

\* check_confirmation takes no reply for good that differs where it looks.
LEMMA AcceptedAlike ==
    ASSUME NEW b \in Backends, NEW a \in Calls, NEW c \in Calls, NEW executed \in BOOLEAN,
           Verdict(b, a, ReplyTo(c, executed)) = "ok"
    PROVE  AlikeButSlave(a, c)
  <1> DEFINE r == ReplyTo(c, executed)
  <1>1. ~(r.fc >= Exception) /\ r.fc = a.fc /\ SameNumbers(a, r)
    BY DEF Verdict
  <1>2. c.fc \in Nat /\ a.nb \in Nat /\ c.nb \in Nat
    BY LegalFields
  <1>3. executed = TRUE
    <2>1. ASSUME executed = FALSE PROVE FALSE
      <3>1. r.fc = c.fc + Exception
        BY <2>1 DEF ReplyTo
      <3> QED
        BY <1>1, <1>2, <3>1 DEF Exception
    <2> QED
      BY <2>1
  <1>4. /\ r.fc = c.fc /\ r.echo = Repeated(c)
        /\ r.data = [k \in 1 .. ReplyCount(Numbers(c)) |-> {}]
    BY <1>3 DEF ReplyTo
  <1>5. Len(r.data) = ReplyCount(Numbers(c))
    BY <1>4, ReplyLengths
  <1> HIDE DEF r
  <1>6. a.fc = c.fc
    BY <1>1, <1>4
  <1>7. ASSUME a.fc \in ReadBits PROVE BitBytes(a.nb) = BitBytes(c.nb)
    BY <1>1, <1>5, <1>6, <1>7, ReplyLengths DEF SameNumbers
  <1>8. ASSUME a.fc \in ReadRegisters \union {WriteAndRead} PROVE a.nb = c.nb
    <2>1. a.fc \notin ReadBits
      BY <1>8 DEF ReadBits, ReadRegisters, WriteAndRead
    <2>2. Len(r.data) \div 2 = a.nb
      BY <1>1, <1>8, <2>1 DEF SameNumbers
    <2>3. Len(r.data) = 2 * c.nb
      BY <1>5, <1>6, <1>8, ReplyLengths
    <2> QED
      BY <1>2, <2>2, <2>3
  <1>9. ASSUME a.fc \in RepeatingCodes
        PROVE  r.echo[1] = c.addr /\ r.echo[2] = c.nb /\ r.echo[3] = c.value
    BY <1>4, <1>6, <1>9 DEF Repeated
  <1>10. ASSUME a.fc \in WriteSingle PROVE a.addr = c.addr /\ a.value = c.value
    <2>1. /\ a.fc \notin ReadBits /\ a.fc \notin ReadRegisters \union {WriteAndRead}
          /\ a.fc \in RepeatingCodes
      BY <1>10 DEF ReadBits, ReadRegisters, WriteAndRead, WriteSingle, RepeatingCodes
    <2>2. r.echo[1] = a.addr /\ r.echo[3] = a.value
      BY <1>1, <1>10, <2>1 DEF SameNumbers
    <2> QED
      BY <1>9, <2>1, <2>2
  <1>11. ASSUME a.fc \in {WriteBits, WriteRegisters} PROVE a.addr = c.addr /\ a.nb = c.nb
    <2>1. /\ a.fc \notin ReadBits /\ a.fc \notin ReadRegisters \union {WriteAndRead}
          /\ a.fc \notin WriteSingle /\ a.fc \in RepeatingCodes
      BY <1>11 DEF ReadBits, ReadRegisters, WriteAndRead, WriteSingle, RepeatingCodes, WriteBits,
                   WriteRegisters
    <2>2. r.echo[1] = a.addr /\ r.echo[2] = a.nb
      BY <1>1, <1>11, <2>1 DEF SameNumbers
    <2> QED
      BY <1>9, <2>1, <2>2
  <1> QED
    BY <1>6, <1>7, <1>8, <1>10, <1>11 DEF AlikeButSlave

\* check_confirmation never refuses the exception of the request's own reply.
LEMMA OwnExceptionFits ==
    ASSUME NEW b \in Backends, NEW c \in Calls, NEW executed \in BOOLEAN
    PROVE  Verdict(b, c, ReplyTo(c, executed)) # "EMBBADEXC"
  <1> DEFINE r == ReplyTo(c, executed)
  <1>1. c.fc \in Nat /\ c.fc < Exception
    <2>1. Numbers(c) \in LegalRequests /\ c.fc = Numbers(c).fc
      BY ModbusLinkAssumption DEF Numbers
    <2>2. \A q0 \in LegalRequests : q0.fc \in Nat /\ q0.fc < Exception
      BY DEF LegalRequests, Exception, ReadBits, ReadRegisters, WriteSingle, ReportSlaveId,
             MaskWrite, WriteBits, WriteRegisters, WriteAndRead
    <2> QED
      BY <2>1, <2>2
  <1>2. CASE executed = TRUE
    <2>1. r.fc = c.fc
      BY <1>2 DEF ReplyTo
    <2>2. ~(r.fc >= Exception)
      BY <1>1, <2>1 DEF Exception
    <2> QED
      BY <2>2 DEF Verdict
  <1>3. CASE executed = FALSE
    <2>1. r.fc = c.fc + Exception /\ r.code = IllegalDataAddress
      BY <1>3 DEF ReplyTo
    <2>2. r.fc >= Exception
      BY <1>1, <2>1 DEF Exception
    <2>3. LengthOfReply(r) = 2 /\ r.code < ExceptionMax
      BY <2>1 DEF LengthOfReply, IllegalDataAddress, ExceptionMax
    <2> QED
      BY <2>1, <2>2, <2>3 DEF Verdict
  <1> QED
    BY <1>2, <1>3

LEMMA AnsweredStep ==
    ASSUME TypeInv, Next, OriginInv, AloneInv, AnsweredInv
    PROVE  AnsweredInv'
  <1>c. (Backend' = Backend) /\ (Timely' <=> Timely)
    BY CallStep DEF Timely, Backend, Link
  <1>b. Backend \in Backends
    BY SettingFields DEF TypeInv, Backend
  <1>1. CASE Begins \/ GoesOn
    <2>1. results' = results
      BY <1>1 DEF Begins, GoesOn
    <2> QED
      BY <1>c, <2>1 DEF AnsweredInv
  <1>2. ASSUME NEW verdict \in Verdicts, NEW from \in 0 .. MaxCalls, Returns(verdict, from)
        PROVE  AnsweredInv'
    <2> DEFINE r == [q |-> q, verdict |-> verdict, from |-> from]
    <2>1. r.q = q /\ r.verdict = verdict /\ r.from = from
      OBVIOUS
    <2>2. /\ results' = Append(results, r) /\ results \in Seq(Result) /\ Len(results) + 1 = n
          /\ n \in Nat \ {0}
      <3>1. results' = Append(results, r) /\ Len(results) = n - 1
        BY <1>2 DEF Returns, TypeInv
      <3>2. results \in Seq(Result) /\ Len(results) \in Nat /\ n \in Nat
        BY DEF TypeInv
      <3> QED
        BY <3>1, <3>2
    <2> HIDE DEF r
    <2>3. /\ DOMAIN results' = 1 .. n /\ results'[n] = r
          /\ \A i \in 1 .. n - 1 : i \in DOMAIN results /\ results'[i] = results[i]
      BY <2>2
    <2>4. ASSUME NEW i \in 1 .. n - 1
          PROVE  /\ results'[i].from \in 0 .. i
                 /\ (Backend = "TCP" /\ NoReuse) \/ Timely => results'[i].from \in {0, i}
                 /\ results'[i].verdict = "ok" =>
                      /\ results'[i].from # 0
                      /\ Backend = "RTU" \/ (Backend = "TCP" /\ NoReuse) =>
                           Alike(results'[i].q, results'[results'[i].from].q)
                 /\ results'[i].verdict = "EMBBADEXC" => results'[i].from \notin {0, i}
      <3>1. i \in DOMAIN results /\ results'[i] = results[i] /\ results[i].from \in 0 .. i
        BY <2>3 DEF AnsweredInv
      <3>2. results[i].from # 0 => results[i].from \in 1 .. n - 1
        BY <3>1, <2>2
      <3>3. results[i].from # 0 => results'[results[i].from] = results[results[i].from]
        BY <3>2, <2>3
      <3> QED
        BY <3>1, <3>3 DEF AnsweredInv
    <2>5. ASSUME TakesFirst(verdict, from)
          PROVE  /\ from \in 1 .. n
                 /\ (Backend = "TCP" /\ NoReuse) \/ Timely => from = n
                 /\ verdict = "ok" /\ (Backend = "RTU" \/ (Backend = "TCP" /\ NoReuse)) =>
                      Alike(q, results'[from].q)
                 /\ verdict = "EMBBADEXC" => from # n
      <3>1. PICK m \in Message : m = Head(rx) /\ m = rx[1] /\ 1 \in DOMAIN rx
        BY <2>5, TailElements DEF TakesFirst, TypeInv
      <3>2. Origin(m.n, m.q, m.tid) /\ from = m.n /\ pc = "wait"
        BY <2>5, <3>1 DEF TakesFirst, OriginInv
      <3>3. from \in 1 .. n /\ m.q = (IF from = n THEN q ELSE results[from].q)
        BY <3>2 DEF Origin
      <3>4. m.q = results'[from].q
        BY <2>1, <2>2, <2>3, <3>3
      <3>5. ASSUME Backend = "TCP", NoReuse PROVE from = n
        <4>1. m.tid = tid /\ tid = Advanced(m.tid, n - from)
          BY <2>5, <3>1, <3>2, <3>5 DEF TakesFirst, Own, Origin
        <4>2. m.tid \in 0 .. TidMax
          BY DEF Message, MessageFields
        <4>3. n <= MaxCalls
          BY DEF TypeInv
        <4>4. n - from \in Nat /\ n - from <= TidMax
          BY <2>2, <3>3, <3>5, <4>3, Sizes DEF NoReuse
        <4>5. n - from = 0
          BY <4>1, <4>2, <4>4, AdvancedSame
        <4> QED
          BY <2>2, <3>3, <4>5
      <3>6. ASSUME Timely PROVE from = n
        BY <3>1, <3>2, <3>6 DEF AloneInv
      <3>7. q \in Calls /\ m.q \in Calls
        BY <3>2 DEF TypeInv, Message, MessageFields
      <3>8. ASSUME verdict = "ok", Backend = "RTU" PROVE Alike(q, m.q)
        <4>1. q.slave = m.q.slave
          BY <2>5, <3>1, <3>8 DEF TakesFirst, Own
        <4>2. PICK executed \in BOOLEAN : m.reply = ReplyTo(m.q, executed)
          BY DEF Message
        <4>3. Verdict(Backend, q, ReplyTo(m.q, executed)) = "ok"
          BY <2>5, <3>1, <3>8, <4>2 DEF TakesFirst
        <4>4. AlikeButSlave(q, m.q)
          <5>1. PICK c \in Calls : c = q
            BY <3>7
          <5>2. PICK b \in Backends : b = Backend
            BY <1>b
          <5>3. Verdict(b, c, ReplyTo(m.q, executed)) = "ok"
            BY <4>3, <5>1, <5>2
          <5>4. AlikeButSlave(c, m.q)
            BY <3>7, <5>3, AcceptedAlike
          <5> QED
            BY <5>1, <5>4
        <4> QED
          BY <4>1, <4>4 DEF Alike, AlikeButSlave
      <3>9. Alike(q, q)
        BY DEF Alike
      <3>10. ASSUME Backend = "TCP", NoReuse PROVE m.q = q
        BY <3>3, <3>5, <3>10
      <3>11. ASSUME from = n PROVE verdict # "EMBBADEXC"
        <4>1. PICK executed \in BOOLEAN : m.reply = ReplyTo(m.q, executed)
          BY DEF Message
        <4>2. m.q = q
          BY <3>3, <3>11
        <4>3. CASE Backend = "GOODWE"
          BY <2>5, <4>3 DEF TakesFirst
        <4>4. CASE Backend # "GOODWE"
          <5>1. verdict = Verdict(Backend, q, ReplyTo(q, executed))
            BY <2>5, <3>1, <4>1, <4>2, <4>4 DEF TakesFirst
          <5>2. PICK c \in Calls : c = q
            BY <3>7
          <5>3. PICK b \in Backends : b = Backend
            BY <1>b
          <5>4. Verdict(b, c, ReplyTo(c, executed)) # "EMBBADEXC"
            BY OwnExceptionFits
          <5> QED
            BY <5>1, <5>2, <5>3, <5>4
        <4> QED
          BY <4>3, <4>4
      <3> QED
        BY <3>3, <3>4, <3>5, <3>6, <3>8, <3>9, <3>10, <3>11
    <2>6. /\ results'[n].from \in 0 .. n
          /\ (Backend = "TCP" /\ NoReuse) \/ Timely => results'[n].from \in {0, n}
          /\ results'[n].verdict = "ok" =>
               /\ results'[n].from # 0
               /\ Backend = "RTU" \/ (Backend = "TCP" /\ NoReuse) =>
                    Alike(results'[n].q, results'[results'[n].from].q)
          /\ results'[n].verdict = "EMBBADEXC" => results'[n].from \notin {0, n}
      <3>1. results'[n].from = from /\ results'[n].verdict = verdict /\ results'[n].q = q
        BY <2>1, <2>3
      <3>2. CASE from = 0 /\ verdict \in Verdicts \ Taken
        BY <2>2, <3>1, <3>2 DEF Taken
      <3>3. CASE TakesFirst(verdict, from)
        BY <2>2, <2>5, <3>1, <3>3
      <3> QED
        BY <1>2, <3>2, <3>3 DEF Returns
    <2>7. \A i \in 1 .. n : i \in 1 .. n - 1 \/ i = n
      BY <2>2
    <2> QED
      BY <1>c, <2>3, <2>4, <2>6, <2>7 DEF AnsweredInv
  <1> QED
    BY <1>1, <1>2, CallStep

----------------------------------------------------------------------------
\* What PROTOCOL leaves of answers that were in time.

LEMMA LastVerdict ==
    ASSUME TypeInv, NEW verdict, NEW from, Return(verdict, from)
    PROVE  pc' = "idle" /\ results'[Len(results')].verdict = verdict
  <1> DEFINE r == [q |-> q, verdict |-> verdict, from |-> from]
  <1>1. r.verdict = verdict
    OBVIOUS
  <1>2. results' = Append(results, r) /\ pc' = "idle" /\ results \in Seq(Result)
    BY DEF Return, TypeInv
  <1> HIDE DEF r
  <1>3. results'[Len(results')] = r
    BY <1>2
  <1> QED
    BY <1>1, <1>2, <1>3

LEMMA RecoveredStep ==
    ASSUME TypeInv, Next, AgeInv, Recovered
    PROVE  Recovered'
  <1>c. ctx' = ctx
    BY CallStep
  <1> SUFFICES ASSUME pc' = "idle", Protocol, results' # <<>>, Backend # "GOODWE",
                      results'[Len(results')].verdict \in Rejects
               PROVE  /\ \A i \in DOMAIN net' : net'[i].due = Late
                      /\ \A i \in DOMAIN rx' : rx'[i].due = Late
    BY <1>c DEF Recovered, Protocol, Backend, Rejects
  <1>n. \A i \in DOMAIN net : net[i] \in ExchangeType
    BY DEF TypeInv
  <1>1. CASE pc = "idle"
    <2>1. results' = results
      BY <1>1, CallStep DEF Begins, GoesOn, Returns
    <2>2. /\ \A i \in DOMAIN net : net[i].due = Late
          /\ \A i \in DOMAIN rx : rx[i].due = Late
      BY <1>1, <2>1 DEF Recovered, Rejects
    <2>3. \A i \in DOMAIN net' : \E j \in DOMAIN net : net'[i].due = net[j].due
      BY <1>1, NetStep DEF Older, Same
    <2>4. \A i \in DOMAIN rx' :
            \/ \E j \in DOMAIN rx : rx'[i] = rx[j]
            \/ \E j \in DOMAIN net : rx'[i].due = net[j].due
      BY RxStep DEF AnswerOf
    <2> QED
      BY <2>2, <2>3, <2>4
  <1>2. CASE pc # "idle"
    <2>0. ASSUME NEW v, v \notin Rejects, Return(v, 0) PROVE FALSE
      BY <2>0, LastVerdict
    <2>1. ASSUME NEW call \in Calls, Begin(call) PROVE FALSE
      BY <1>2, <2>1 DEF Begin
    <2>2. ASSUME NEW delay \in ctx.delays, Send(delay) PROVE FALSE
      BY <2>2 DEF Send
    <2>3. ASSUME NEW lost \in BOOLEAN, SendFails(lost) PROVE FALSE
      <3>1. Return("EIO", 0)
        BY <2>3 DEF SendFails, Sleep
      <3>2. "EIO" \notin Rejects
        BY DEF Rejects
      <3> QED
        BY <2>0, <3>1, <3>2
    <2>4. ASSUME TimedOut \/ PeerClosed \/ Connected PROVE FALSE
      <3>1. Return("ETIMEDOUT", 0) \/ Return("ECONNRESET", 0)
        <4>1. TimedOut \/ PeerClosed => Return("ETIMEDOUT", 0) \/ Return("ECONNRESET", 0)
          BY DEF TimedOut, PeerClosed, Sleep, Connect
        <4>2. Connected => Return("ECONNRESET", 0)
          BY DEF Connected, GoOn, TypeInv, Connects
        <4> QED
          BY <2>4, <4>1, <4>2
      <3>2. "ETIMEDOUT" \notin Rejects /\ "ECONNRESET" \notin Rejects
        BY DEF Rejects
      <3> QED
        BY <2>0, <3>1, <3>2
    <2>5. ASSUME Receive PROVE FALSE
      <3> DEFINE m == Head(rx)
                 verdict == IF Backend = "GOODWE" THEN "ok" ELSE Verdict(Backend, q, m.reply)
      <3>1. ASSUME NEW v, Reject(v) PROVE FALSE
        BY <3>1 DEF Reject, Sleep
      <3>2. \/ Return("EMBBADCRC", 0)
            \/ Reject(IF Backend = "TCP" THEN "EMBBADDATA" ELSE "EMBBADSLAVE")
            \/ Reject(verdict)
            \/ verdict # "EMBBADDATA" /\ Return(verdict, m.n)
        BY <2>5 DEF Receive
      <3>3. verdict \in {"ok", "exception", "EMBBADEXC", "EMBBADDATA"}
        BY VerdictType
      <3> HIDE DEF verdict, m
      <3>4. "EMBBADCRC" \notin Rejects /\ (verdict # "EMBBADDATA" => verdict \notin Rejects)
        BY <3>3 DEF Rejects
      <3>5. ASSUME verdict # "EMBBADDATA", Return(verdict, m.n) PROVE FALSE
        BY <3>4, <3>5, LastVerdict
      <3> QED
        BY <2>0, <3>1, <3>2, <3>4, <3>5
    <2>6. ASSUME Reopen \/ PeerCloses \/ LinkStep \/ Tick PROVE FALSE
      BY <1>2, <2>6 DEF Reopen, PeerCloses, LinkStep, Lose, Arrive, Tick
    <2>7. ASSUME WakeUp
          PROVE  /\ \A i \in DOMAIN net' : net'[i].due = Late
                 /\ \A i \in DOMAIN rx' : rx'[i].due = Late
      <3>1. pc = "sleep" /\ tv = 0 /\ net' = net
        BY <2>7 DEF WakeUp
      <3>2. rx' = <<>>
        BY <2>7 DEF WakeUp, Connect
      <3>3. ASSUME NEW i \in DOMAIN net PROVE net[i].due = Late
        <4>1. net[i].age + tv >= ResponseTimeout /\ net[i].age <= net[i].due
              /\ net[i].due \in ctx.delays
          BY <3>1 DEF AgeInv, Aged
        <4>2. net[i].age \in Nat
          BY <1>n DEF ExchangeType
        <4>3. net[i].due # Prompt
          BY <3>1, <4>1, <4>2, Sizes
        <4> QED
          BY <4>1, <4>3, DelaysNat
      <3> QED
        BY <3>1, <3>2, <3>3, EmptyElements
    <2> QED
      BY <2>1, <2>2, <2>3, <2>4, <2>5, <2>6, <2>7 DEF Next, ClientStep
  <1> QED
    BY <1>1, <1>2

----------------------------------------------------------------------------
\* How long a call takes.

\* The failures that a call may still meet: those to come, and the connection that is gone.
Failures == faults + (IF sock = "open" THEN 0 ELSE 1)

\* What the failures met so far allow a call with LINK.
Allowance == (ctx.faults - Failures) * FailureTime

\* How long a call with LINK may have taken, with what is left of its timer t, by the
\* allowance a of the failures it has met.
InTime(p, then, s, t, a) ==
    /\ p = "send" => s <= a
    /\ p = "wait" => s + t <= a + ResponseTimeout
    /\ p \in {"sleep", "connect"} => s + t <= a + 2 * ResponseTimeout
    /\ p = "sleep" /\ then \in SendsAgain => s + t <= a + ResponseTimeout
    /\ p = "sleep" /\ then = "flush and send" => s + t <= a

\* The same without LINK, where a call sleeps once, after it has waited.
InTimeOnce(p, s, t) ==
    /\ p = "send" => s = 0
    /\ p = "wait" => s + t <= ResponseTimeout
    /\ p = "sleep" => s + t <= 2 * ResponseTimeout

DeadlineInv ==
    /\ Failures \in 0 .. ctx.faults
    /\ pc = "idle" => spent = 0
    /\ pc = "sleep" => ctx.recovery # {}
    /\ next \in SendsAgain \/ pc = "connect" => Link
    /\ next = "connect and send" \/ pc = "connect" => sock = "closed"
    /\ ~Link => InTimeOnce(pc, spent, tv)
    /\ Link => InTime(pc, next, spent, tv, Allowance)

LEMMA TimesGrow ==
    ASSUME NEW t \in Nat, NEW k \in Nat, NEW l \in Nat, k <= l
    PROVE  k * t \in Nat /\ k * t <= l * t /\ (k + 1) * t = k * t + t
  <1>1. PICK d \in Nat : l = k + d
    <2>1. l - k \in Nat /\ l = k + (l - k)
      OBVIOUS
    <2> QED
      BY <2>1
  <1>2. l * t = k * t + d * t /\ d * t \in Nat /\ k * t \in Nat /\ (k + 1) * t = k * t + t
    BY <1>1
  <1> QED
    BY <1>2

\* More failures met allow more time, each one its own.
LEMMA Allowed ==
    ASSUME NEW N \in Nat, NEW t \in Nat, NEW f \in 0 .. N, NEW g \in 0 .. f
    PROVE  /\ (N - f) * t \in Nat /\ (N - g) * t \in Nat
           /\ (N - f) * t <= (N - g) * t /\ (N - g) * t <= N * t
           /\ f = g + 1 => (N - g) * t = (N - f) * t + t
  <1>1. N - f \in Nat /\ N - g \in Nat /\ N - f <= N - g /\ N - g <= N
    OBVIOUS
  <1>2. /\ (N - f) * t \in Nat /\ (N - f) * t <= (N - g) * t
        /\ ((N - f) + 1) * t = (N - f) * t + t
    BY <1>1, TimesGrow
  <1>3. (N - g) * t \in Nat /\ (N - g) * t <= N * t
    BY <1>1, TimesGrow
  <1>4. f = g + 1 => N - g = (N - f) + 1
    OBVIOUS
  <1> QED
    BY <1>2, <1>3, <1>4

\* Time taken, and the time that a new allowance leaves.
LEMMA Sums ==
    ASSUME NEW a \in Nat, NEW b \in Nat, NEW R \in Nat, NEW s \in Nat, NEW t \in Nat, a <= b
    PROVE  /\ s <= a => s <= b /\ s + R <= a + R /\ s + R <= a + 2 * R
           /\ s + t <= a => s + t <= b
           /\ s + t <= a + R => s + t <= b + R
           /\ s + t <= a + 2 * R => s + t <= b + 2 * R
           /\ s + R <= b => s + R <= b + R /\ s + R <= b + 2 * R
  OBVIOUS

LEMMA FailureTimes ==
    ASSUME TypeInv
    PROVE  /\ FailureTime \in Nat /\ FailureTime >= ResponseTimeout
           /\ Backend = "TCP" => FailureTime = 2 * ResponseTimeout
           /\ ctx.faults \in 0 .. MaxFaults /\ ctx.faults \in Nat
  <1>1. ctx.faults \in 0 .. MaxFaults /\ MaxFaults \in Nat
    BY Sizes, SettingFields DEF TypeInv
  <1> QED
    BY <1>1, Sizes DEF FailureTime

LEMMA DeadlineBound == TypeInv /\ DeadlineInv => CallDeadline
  <1> SUFFICES ASSUME TypeInv, DeadlineInv PROVE CallDeadline
    OBVIOUS
  <1>t. /\ spent \in Nat /\ tv \in Nat /\ ResponseTimeout \in Nat
        /\ pc \in {"idle", "send", "wait", "sleep", "connect"}
    BY Sizes DEF TypeInv
  <1>1. CASE Link
    <2>1. PICK a \in Nat : a = Allowance /\ a <= ctx.faults * FailureTime
      <3>1. PICK f \in 0 .. ctx.faults : f = Failures
        BY DEF DeadlineInv
      <3>2. /\ (ctx.faults - f) * FailureTime \in Nat
            /\ (ctx.faults - f) * FailureTime <= ctx.faults * FailureTime
        <4>1. f \in 0 .. f
          BY <3>1, FailureTimes
        <4> QED
          BY <3>1, <4>1, FailureTimes, Allowed
      <3> QED
        BY <3>1, <3>2 DEF Allowance
    <2>2. InTime(pc, next, spent, tv, a) /\ (pc = "idle" => spent = 0)
      BY <1>1, <2>1 DEF DeadlineInv
    <2>3. spent <= a + 2 * ResponseTimeout
      <3>1. /\ pc = "send" => spent <= a
            /\ pc = "wait" => spent + tv <= a + ResponseTimeout
            /\ pc \in {"sleep", "connect"} => spent + tv <= a + 2 * ResponseTimeout
        BY <2>2 DEF InTime
      <3> QED
        BY <1>t, <2>1, <2>2, <3>1
    <2>4. ctx.recovery # {}
      BY <1>1 DEF Link
    <2>5. PICK b \in Nat : b = ctx.faults * FailureTime
      <3>1. ctx.faults * FailureTime \in Nat
        BY FailureTimes
      <3> QED
        BY <3>1
    <2>6. spent <= 2 * ResponseTimeout + b
      BY <1>t, <2>1, <2>3, <2>5
    <2> QED
      BY <1>1, <2>4, <2>5, <2>6 DEF CallDeadline
  <1>2. CASE ~Link
    <2>1. InTimeOnce(pc, spent, tv) /\ (pc = "idle" => spent = 0) /\ pc # "connect"
      BY <1>2 DEF DeadlineInv
    <2>2. pc # "sleep" => spent <= ResponseTimeout + 0
      BY <1>t, <2>1 DEF InTimeOnce
    <2>3. spent <= 2 * ResponseTimeout + 0
      BY <1>t, <2>1 DEF InTimeOnce
    <2>4. pc = "sleep" => ctx.recovery # {}
      BY DEF DeadlineInv
    <2> QED
      BY <1>2, <2>2, <2>3, <2>4 DEF CallDeadline
  <1> QED
    BY <1>1, <1>2

LEMMA DeadlineStep ==
    ASSUME TypeInv, Next, SerialInv, DeadlineInv
    PROVE  DeadlineInv'
  <1>c. /\ ctx' = ctx /\ (Link' <=> Link) /\ (Protocol' <=> Protocol)
        /\ FailureTime' = FailureTime
    BY CallStep DEF Link, Protocol, FailureTime, Backend
  <1>t. /\ spent \in Nat /\ tv \in Nat /\ ResponseTimeout \in Nat /\ faults \in Nat
        /\ ctx.faults \in Nat /\ Failures \in 0 .. ctx.faults
    <2>1. spent \in Nat /\ tv \in Nat /\ ResponseTimeout \in Nat /\ faults \in Nat
      BY Sizes DEF TypeInv
    <2>2. ctx.faults \in Nat
      BY FailureTimes
    <2>3. Failures \in 0 .. ctx.faults
      BY DEF DeadlineInv
    <2> QED
      BY <2>1, <2>2, <2>3
  <1>h. PICK a \in Nat, h \in Nat :
          a = Allowance /\ h = FailureTime /\ h >= ResponseTimeout
    <2>1. PICK f \in 0 .. ctx.faults : f = Failures
      BY <1>t
    <2>2. f \in 0 .. f
      BY <1>t, <2>1
    <2>3. (ctx.faults - f) * FailureTime \in Nat
      BY <1>t, <2>1, <2>2, FailureTimes, Allowed
    <2> QED
      BY <2>1, <2>3, FailureTimes DEF Allowance
  <1>k. Link => InTime(pc, next, spent, tv, a)
    BY <1>h DEF DeadlineInv
  <1>o. ~Link => InTimeOnce(pc, spent, tv)
    BY DEF DeadlineInv
  <1>z. (next = "connect and send" \/ pc = "connect" => sock = "closed")
        /\ (next \in SendsAgain \/ pc = "connect" => Link)
        /\ (pc = "sleep" => ctx.recovery # {})
    BY DEF DeadlineInv
  <1>w. pc \notin {"sleep", "connect"} => next = "none"
    BY DEF TypeInv
  <1>g. ASSUME Failures' \in 0 .. Failures
        PROVE  /\ Failures' \in 0 .. ctx.faults
               /\ \E b \in Nat :
                    /\ b = Allowance' /\ a <= b
                    /\ Failures' = Failures => b = a
                    /\ Failures = Failures' + 1 => b = a + h
    <2>f. PICK f \in 0 .. ctx.faults : f = Failures
      BY <1>t
    <2>1. PICK g \in 0 .. f : f = Failures /\ g = Failures'
      BY <1>g, <2>f
    <2>2. g \in 0 .. ctx.faults
      BY <1>t, <2>1
    <2>3. Allowance' = (ctx.faults - g) * h /\ a = (ctx.faults - f) * h
      BY <1>c, <1>h, <2>1 DEF Allowance
    <2>4. /\ (ctx.faults - g) * h \in Nat /\ (ctx.faults - f) * h <= (ctx.faults - g) * h
          /\ f = g + 1 => (ctx.faults - g) * h = (ctx.faults - f) * h + h
      BY <1>t, <1>h, Allowed
    <2> QED
      BY <2>1, <2>2, <2>3, <2>4
  <1>d. ASSUME Failures' \in 0 .. ctx.faults,
               pc' = "idle" => spent' = 0,
               pc' = "sleep" => ctx.recovery # {},
               next' \in SendsAgain \/ pc' = "connect" => Link,
               next' = "connect and send" \/ pc' = "connect" => sock' = "closed",
               ~Link => InTimeOnce(pc', spent', tv'),
               Link => InTime(pc', next', spent', tv', Allowance')
        PROVE  DeadlineInv'
    BY <1>c, <1>d DEF DeadlineInv
  <1>i. ASSUME Failures' \in 0 .. Failures, pc' = "idle", spent' = 0, next' = "none"
        PROVE  DeadlineInv'
    <2>1. InTimeOnce(pc', spent', tv') /\ InTime(pc', next', spent', tv', Allowance')
      BY <1>i DEF InTimeOnce, InTime
    <2>2. next' \notin SendsAgain /\ next' # "connect and send"
      BY <1>i DEF SendsAgain
    <2> QED
      BY <1>d, <1>g, <1>i, <2>1, <2>2
  <1>s. UNCHANGED <<sock, faults>> => Failures' = Failures /\ Failures' \in 0 .. Failures
    BY <1>t DEF Failures
  <1>1. ASSUME NEW call \in Calls, Begin(call) PROVE DeadlineInv'
    <2>1. pc = "idle" /\ pc' = "send" /\ UNCHANGED <<tv, next, sock, spent, faults>>
      BY <1>1 DEF Begin
    <2>2. PICK b \in Nat : b = Allowance' /\ Failures' \in 0 .. ctx.faults
      BY <1>g, <1>s, <2>1
    <2>3. spent' = 0
      BY <2>1 DEF DeadlineInv
    <2>4. InTimeOnce(pc', spent', tv') /\ InTime(pc', next', spent', tv', b)
      BY <2>1, <2>2, <2>3 DEF InTimeOnce, InTime
    <2> QED
      BY <1>d, <1>w, <1>z, <2>1, <2>2, <2>3, <2>4 DEF SendsAgain
  <1>2. ASSUME NEW delay \in ctx.delays, Send(delay) PROVE DeadlineInv'
    <2>1. /\ pc = "send" /\ pc' = "wait" /\ tv' = ResponseTimeout
          /\ UNCHANGED <<next, sock, spent, faults>>
      BY <1>2 DEF Send
    <2>2. a = Allowance' /\ Failures' \in 0 .. ctx.faults
      BY <1>g, <1>s, <2>1
    <2>3. ~Link => InTimeOnce(pc', spent', tv')
      BY <1>o, <1>t, <2>1 DEF InTimeOnce
    <2>4. Link => InTime(pc', next', spent', tv', a)
      BY <1>k, <1>h, <1>t, <2>1 DEF InTime
    <2> QED
      BY <1>d, <1>z, <2>1, <2>2, <2>3, <2>4
  <1>3. ASSUME NEW lost \in BOOLEAN, SendFails(lost) PROVE DeadlineInv'
    <2>1. /\ pc = "send"
          /\ sock = "open" => ~lost /\ faults > 0 /\ faults' = faults - 1
          /\ sock # "open" => lost /\ faults' = faults
      BY <1>3 DEF SendFails
    <2>2. CASE Link
      <3>1. /\ pc' = "sleep" /\ tv' = ResponseTimeout /\ spent' = spent
            /\ next' = IF lost THEN "connect and send" ELSE "flush and send"
        BY <1>3, <2>2 DEF SendFails, Sleep
      <3>2. ctx.recovery # {} /\ spent <= a
        BY <1>k, <2>1, <2>2 DEF Link, InTime
      <3>3. CASE lost
        <4>1. sock # "open" /\ sock' = "closed" /\ faults' = faults
          BY <1>3, <2>1, <2>2, <3>3 DEF SendFails, Hangup
        <4>2. Failures' = Failures /\ Failures' \in 0 .. Failures
          BY <1>t, <4>1 DEF Failures
        <4>3. a = Allowance' /\ Failures' \in 0 .. ctx.faults
          BY <1>g, <4>2
        <4>4. InTime(pc', next', spent', tv', a)
          <5>1. /\ spent' + tv' <= a + ResponseTimeout
                /\ spent' + tv' <= a + 2 * ResponseTimeout
            <6>1. a <= a /\ spent <= a
              BY <1>h, <3>2
            <6>2. spent + ResponseTimeout <= a + ResponseTimeout
              BY <1>h, <1>t, <6>1, Sums
            <6>3. spent + ResponseTimeout <= a + 2 * ResponseTimeout
              BY <1>h, <1>t, <6>1, Sums
            <6> QED
              BY <3>1, <6>2, <6>3
          <5>2. next' = "connect and send" /\ pc' = "sleep"
            BY <3>1, <3>3
          <5> QED
            BY <5>1, <5>2 DEF InTime
        <4> QED
          BY <1>d, <2>2, <3>1, <3>2, <4>1, <4>3, <4>4
      <3>4. CASE ~lost
        <4>1. sock = "open" /\ sock' = sock /\ faults > 0 /\ faults' = faults - 1
          BY <1>3, <2>1, <2>2, <3>4 DEF SendFails
        <4>2. Failures = Failures' + 1 /\ Failures' \in 0 .. Failures
          BY <1>t, <4>1 DEF Failures
        <4>3. PICK b \in Nat : b = Allowance' /\ b = a + h /\ Failures' \in 0 .. ctx.faults
          BY <1>g, <4>2
        <4>4. InTime(pc', next', spent', tv', b)
          <5>1. /\ spent' + tv' <= b
                /\ spent' + tv' <= b + ResponseTimeout
                /\ spent' + tv' <= b + 2 * ResponseTimeout
            <6>1. spent + ResponseTimeout <= b
              BY <1>h, <1>t, <3>2, <4>3
            <6>2. b \in Nat /\ a <= b
              BY <1>h, <4>3
            <6> QED
              BY <1>h, <1>t, <3>1, <6>1, <6>2, Sums
          <5> QED
            BY <3>1, <5>1 DEF InTime
        <4> QED
          BY <1>d, <2>2, <3>1, <3>2, <3>4, <4>3, <4>4
      <3> QED
        BY <3>3, <3>4
    <2>3. CASE ~Link
      <3>1. pc' = "idle" /\ spent' = 0 /\ next' = "none" /\ sock' = sock
        BY <1>3, <2>3 DEF SendFails, Return
      <3>2. Failures' \in 0 .. Failures
        BY <1>t, <2>1, <3>1 DEF Failures
      <3> QED
        BY <1>i, <3>1, <3>2
    <2> QED
      BY <2>2, <2>3
  <1>4. ASSUME WakeUp PROVE DeadlineInv'
    <2>1. pc = "sleep" /\ tv = 0 /\ UNCHANGED <<sock, faults>>
      BY <1>4 DEF WakeUp
    <2>2. a = Allowance' /\ Failures' \in 0 .. Failures /\ Failures' \in 0 .. ctx.faults
      BY <1>g, <1>s, <2>1
    <2>3. CASE next = "connect and send"
      <3>1. /\ pc' = "connect" /\ tv' = ResponseTimeout /\ next' = next /\ spent' = spent
        BY <1>4, <2>3 DEF WakeUp, Connect
      <3>2. Link /\ sock = "closed"
        BY <1>z, <2>3 DEF SendsAgain
      <3>3. spent <= a + ResponseTimeout
        <4>1. spent + tv <= a + ResponseTimeout
          BY <1>k, <2>1, <2>3, <3>2 DEF InTime, SendsAgain
        <4> QED
          BY <1>h, <1>t, <2>1, <4>1
      <3>4. InTime(pc', next', spent', tv', a)
        BY <1>h, <1>t, <3>1, <3>3 DEF InTime
      <3> QED
        BY <1>d, <2>1, <2>2, <3>1, <3>2, <3>4
    <2>4. CASE next = "flush and send"
      <3>1. pc' = "send" /\ next' = "none" /\ tv' = 0 /\ spent' = spent
        BY <1>4, <2>4 DEF WakeUp, GoOn
      <3>2. Link
        BY <1>z, <2>4 DEF SendsAgain
      <3>3. InTime(pc', next', spent', tv', a)
        <4>1. spent + tv <= a
          BY <1>k, <2>1, <2>4, <3>2 DEF InTime
        <4>2. spent' <= a
          BY <1>h, <1>t, <2>1, <3>1, <4>1
        <4> QED
          BY <3>1, <4>2 DEF InTime
      <3> QED
        BY <1>d, <2>2, <3>1, <3>2, <3>3 DEF SendsAgain
    <2>5. CASE next \notin SendsAgain
      <3>1. pc' = "idle" /\ spent' = 0 /\ next' = "none"
        BY <1>4, <2>5 DEF WakeUp, SendsAgain, GoOn, Return
      <3> QED
        BY <1>i, <2>2, <3>1
    <2> QED
      BY <2>3, <2>4, <2>5 DEF SendsAgain
  <1>c2. ASSUME Connected PROVE DeadlineInv'
    <2>1. /\ pc = "connect" /\ sock = "closed" /\ Link
          /\ \/ sock' = "open" /\ faults' = faults
             \/ sock' = "closed" /\ faults > 0 /\ faults' = faults - 1
      BY <1>c2, <1>z DEF Connected
    <2>2. Failures = Failures' + 1 /\ Failures' \in 0 .. Failures
      BY <1>t, <2>1 DEF Failures
    <2>3. PICK b \in Nat : b = Allowance' /\ b = a + h /\ Failures' \in 0 .. ctx.faults
      BY <1>g, <2>2
    <2>4. CASE next \in SendsAgain
      <3>1. pc' = "send" /\ next' = "none" /\ spent' = spent
        BY <1>c2, <2>4 DEF Connected, GoOn, SendsAgain
      <3>2. h = 2 * ResponseTimeout
        <4>1. Backend = "TCP"
          BY <2>1 DEF SerialInv
        <4> QED
          BY <1>h, <4>1, FailureTimes
      <3>3. spent <= a + 2 * ResponseTimeout
        BY <1>k, <1>t, <1>h, <2>1 DEF InTime
      <3>4. InTime(pc', next', spent', tv', b)
        BY <2>3, <3>1, <3>2, <3>3 DEF InTime
      <3> QED
        BY <1>d, <2>1, <2>3, <3>1, <3>4 DEF SendsAgain
    <2>5. CASE next \notin SendsAgain
      <3>1. pc' = "idle" /\ spent' = 0 /\ next' = "none"
        BY <1>c2, <2>5 DEF Connected, SendsAgain, GoOn, Return
      <3> QED
        BY <1>i, <2>2, <3>1
    <2> QED
      BY <2>4, <2>5
  <1>5. ASSUME NEW last, last \notin SendsAgain, Sleep(last), pc = "wait", ctx.recovery # {},
               UNCHANGED <<sock, faults>>
        PROVE  DeadlineInv'
    <2>1. pc' = "sleep" /\ tv' = ResponseTimeout /\ next' = last /\ spent' = spent
      BY <1>5 DEF Sleep
    <2>2. a = Allowance' /\ Failures' \in 0 .. ctx.faults
      BY <1>g, <1>s, <1>5
    <2>3. ~Link => InTimeOnce(pc', spent', tv')
      <3>1. ~Link => spent + tv <= ResponseTimeout
        BY <1>o, <1>5 DEF InTimeOnce
      <3>2. ~Link => spent + ResponseTimeout <= 2 * ResponseTimeout
        BY <1>t, <3>1
      <3> QED
        BY <2>1, <3>2 DEF InTimeOnce
    <2>4. Link => InTime(pc', next', spent', tv', a)
      <3>1. Link => spent + tv <= a + ResponseTimeout
        BY <1>k, <1>5 DEF InTime
      <3>2. Link => spent + ResponseTimeout <= a + 2 * ResponseTimeout
        BY <1>t, <1>h, <3>1
      <3> QED
        BY <1>5, <2>1, <3>2 DEF InTime, SendsAgain
    <2>5. last # "connect and send"
      BY <1>5 DEF SendsAgain
    <2> QED
      BY <1>d, <1>5, <2>1, <2>2, <2>3, <2>4, <2>5
  <1>6. ASSUME NEW verdict, NEW from, Return(verdict, from), UNCHANGED <<sock, faults>>
        PROVE  DeadlineInv'
    BY <1>i, <1>s, <1>6 DEF Return
  <1>7. ASSUME TimedOut PROVE DeadlineInv'
    <2>1. pc = "wait" /\ UNCHANGED <<sock, faults>>
      BY <1>7 DEF TimedOut
    <2>2. (Link /\ Sleep("ETIMEDOUT")) \/ Return("ETIMEDOUT", 0)
      BY <1>7 DEF TimedOut
    <2>3. Link => ctx.recovery # {}
      BY DEF Link
    <2>4. "ETIMEDOUT" \notin SendsAgain
      BY DEF SendsAgain
    <2> QED
      BY <1>5, <1>6, <2>1, <2>2, <2>3, <2>4
  <1>8. ASSUME PeerClosed PROVE DeadlineInv'
    <2>1. pc = "wait" /\ sock = "broken" /\ faults' = faults
      BY <1>8 DEF PeerClosed
    <2>2. CASE Link
      <3>1. /\ pc' = "connect" /\ tv' = ResponseTimeout /\ next' = "ECONNRESET"
            /\ spent' = spent /\ sock' = "closed"
        BY <1>8, <2>2 DEF PeerClosed, Connect
      <3>2. Failures' = Failures /\ Failures' \in 0 .. Failures
        BY <1>t, <2>1, <3>1 DEF Failures
      <3>3. a = Allowance' /\ Failures' \in 0 .. ctx.faults
        BY <1>g, <3>2
      <3>4. spent + tv <= a + ResponseTimeout
        BY <1>k, <2>1, <2>2 DEF InTime
      <3>5. InTime(pc', next', spent', tv', a)
        BY <1>h, <1>t, <3>1, <3>4 DEF InTime
      <3> QED
        BY <1>d, <2>2, <3>1, <3>3, <3>5
    <2>3. CASE ~Link
      BY <1>6, <1>8, <2>1, <2>3 DEF PeerClosed
    <2> QED
      BY <2>2, <2>3
  <1>9. ASSUME Receive PROVE DeadlineInv'
    <2> DEFINE m == Head(rx)
               verdict == IF Backend = "GOODWE" THEN "ok" ELSE Verdict(Backend, q, m.reply)
    <2>1. pc = "wait" /\ UNCHANGED <<sock, faults>>
      BY <1>9 DEF Receive
    <2>2. \/ Return("EMBBADCRC", 0)
          \/ Return("EMBBADSLAVE", 0)
          \/ Reject(IF Backend = "TCP" THEN "EMBBADDATA" ELSE "EMBBADSLAVE")
          \/ verdict = "EMBBADDATA" /\ Reject(verdict)
          \/ Return(verdict, m.n)
      BY <1>9 DEF Receive
    <2>3. ASSUME NEW v \in Rejects, Reject(v) PROVE DeadlineInv'
      <3>1. (Protocol /\ Sleep(v)) \/ Return(v, 0)
        BY <2>3 DEF Reject
      <3>2. v \notin SendsAgain
        BY <2>3 DEF Rejects, SendsAgain
      <3>3. Protocol => ctx.recovery # {}
        BY DEF Protocol
      <3> QED
        BY <1>5, <1>6, <2>1, <3>1, <3>2, <3>3
    <2>4. (IF Backend = "TCP" THEN "EMBBADDATA" ELSE "EMBBADSLAVE") \in Rejects /\ "EMBBADDATA" \in Rejects
      BY DEF Rejects
    <2> HIDE DEF verdict, m
    <2> QED
      BY <1>6, <2>1, <2>2, <2>3, <2>4
  <1>10. ASSUME UNCHANGED <<pc, tv, next, spent>>,
                next = "connect and send" \/ pc = "connect" => sock' = "closed",
                Failures' \in 0 .. Failures
         PROVE  DeadlineInv'
    <2>1. PICK b \in Nat : b = Allowance' /\ a <= b /\ Failures' \in 0 .. ctx.faults
      BY <1>g, <1>10
    <2>2. Link => InTime(pc, next, spent, tv, b)
      <3>1. /\ spent <= a => spent <= b
            /\ spent + tv <= a => spent + tv <= b
            /\ spent + tv <= a + ResponseTimeout => spent + tv <= b + ResponseTimeout
            /\ spent + tv <= a + 2 * ResponseTimeout => spent + tv <= b + 2 * ResponseTimeout
        BY <1>h, <1>t, <2>1, Sums
      <3> QED
        BY <1>k, <3>1 DEF InTime
    <2>3. pc = "idle" => spent = 0
      BY DEF DeadlineInv
    <2> QED
      BY <1>d, <1>o, <1>z, <1>10, <2>1, <2>2, <2>3
  <1>11. ASSUME Reopen PROVE DeadlineInv'
    <2>1. /\ pc = "idle" /\ sock # "open" /\ sock' = "open"
          /\ UNCHANGED <<pc, tv, next, spent, faults>>
      BY <1>11 DEF Reopen
    <2>2. Failures' \in 0 .. Failures
      BY <1>t, <2>1 DEF Failures
    <2>3. next # "connect and send"
      BY <1>w, <2>1
    <2> QED
      BY <1>10, <2>1, <2>2, <2>3
  <1>12. ASSUME PeerCloses PROVE DeadlineInv'
    <2>1. /\ sock = "open" /\ sock' = "broken" /\ faults > 0 /\ faults' = faults - 1
          /\ UNCHANGED <<pc, tv, next, spent>>
      BY <1>12 DEF PeerCloses
    <2>2. Failures' \in 0 .. Failures
      BY <1>t, <2>1 DEF Failures
    <2> QED
      BY <1>10, <1>z, <2>1, <2>2
  <1>13. ASSUME LinkStep PROVE DeadlineInv'
    <2>1. /\ UNCHANGED <<pc, tv, next, spent, sock>>
          /\ faults' = faults \/ (faults > 0 /\ faults' = faults - 1)
      BY <1>13 DEF LinkStep, Lose, Arrive
    <2>2. Failures' \in 0 .. Failures
      BY <1>t, <2>1 DEF Failures
    <2> QED
      BY <1>10, <1>z, <2>1, <2>2
  <1>14. ASSUME Tick PROVE DeadlineInv'
    <2>1. UNCHANGED <<pc, next, sock, faults>>
      BY <1>14 DEF Tick
    <2>2. a = Allowance' /\ Failures' \in 0 .. Failures /\ Failures' \in 0 .. ctx.faults
      BY <1>g, <1>s, <2>1
    <2>3. CASE pc = "idle"
      <3>1. spent' = 0
        BY <1>14, <2>3 DEF Tick, DeadlineInv
      <3>2. next = "none"
        BY <1>w, <2>3
      <3> QED
        BY <1>i, <2>1, <2>2, <2>3, <3>1, <3>2
    <2>4. CASE pc # "idle"
      <3>1. /\ pc \in {"wait", "sleep", "connect"} /\ tv > 0 /\ tv' = tv - 1
            /\ spent' = spent + 1
        BY <1>14, <2>4 DEF Tick
      <3>2. spent' + tv' = spent + tv
        BY <1>t, <3>1
      <3>3. Link => InTime(pc, next, spent', tv', a)
        BY <1>k, <3>1, <3>2 DEF InTime
      <3>4. ~Link => InTimeOnce(pc, spent', tv')
        BY <1>o, <3>1, <3>2 DEF InTimeOnce
      <3> QED
        BY <1>d, <1>z, <2>1, <2>2, <2>4, <3>3, <3>4
    <2> QED
      BY <2>3, <2>4
  <1> QED
    BY <1>1, <1>2, <1>3, <1>4, <1>c2, <1>7, <1>8, <1>9, <1>11, <1>12, <1>13, <1>14
    DEF Next, ClientStep

----------------------------------------------------------------------------
\* The theorems.

LinkInv ==
    /\ TypeInv /\ OriginInv /\ AgeInv /\ SerialInv /\ AloneInv /\ AnsweredInv
    /\ Recovered /\ DeadlineInv

LEMMA LinkInit == Init => LinkInv
  <1> SUFFICES ASSUME Init PROVE LinkInv
    OBVIOUS
  <1>1. net = <<>> /\ rx = <<>> /\ results = <<>> /\ DOMAIN <<>> = {}
    BY EmptyElements DEF Init
  <1>2. TypeInv
    BY InitType
  <1>3. OriginInv /\ AgeInv /\ AnsweredInv
    BY <1>1 DEF OriginInv, AgeInv, AnsweredInv
  <1>4. SerialInv
    BY DEF Init, SerialInv
  <1>5. AloneInv
    <2>1. Len(net) + Len(rx) = 0
      BY <1>1
    <2> QED
      BY <1>1, <2>1 DEF AloneInv, Quiet, Init
  <1>6. Recovered
    BY <1>1 DEF Recovered
  <1>7. DeadlineInv
    <2>1. pc = "idle" /\ next = "none" /\ sock = "open" /\ spent = 0 /\ faults = ctx.faults
      BY DEF Init
    <2>2. Failures \in 0 .. ctx.faults
      BY <1>2, <2>1, FailureTimes DEF Failures
    <2>3. InTimeOnce(pc, spent, tv) /\ InTime(pc, next, spent, tv, Allowance)
      BY <2>1 DEF InTimeOnce, InTime
    <2> QED
      BY <2>1, <2>2, <2>3 DEF DeadlineInv, SendsAgain
  <1> QED
    BY <1>2, <1>3, <1>4, <1>5, <1>6, <1>7 DEF LinkInv

LEMMA LinkStutter == LinkInv /\ UNCHANGED vars => LinkInv'
  <1> SUFFICES ASSUME LinkInv, UNCHANGED vars PROVE LinkInv'
    OBVIOUS
  <1>1. TypeInv'
    BY DEF LinkInv, TypeInv, vars
  <1>2. OriginInv'
    BY DEF LinkInv, OriginInv, Origin, Backend, vars
  <1>3. AgeInv'
    BY DEF LinkInv, AgeInv, Aged, vars
  <1>4. SerialInv'
    BY DEF LinkInv, SerialInv, Backend, vars
  <1>5. AloneInv'
    BY DEF LinkInv, AloneInv, Timely, Quiet, Backend, Link, vars
  <1>6. AnsweredInv'
    BY DEF LinkInv, AnsweredInv, Timely, Backend, Link, vars
  <1>7. Recovered'
    BY DEF LinkInv, Recovered, Protocol, Backend, vars
  <1>8. DeadlineInv'
    BY DEF LinkInv, DeadlineInv, Failures, Allowance, FailureTime, Backend, Link, vars
  <1> QED
    BY <1>1, <1>2, <1>3, <1>4, <1>5, <1>6, <1>7, <1>8 DEF LinkInv

LEMMA LinkNext == LinkInv /\ [Next]_vars => LinkInv'
  <1>1. ASSUME LinkInv, Next PROVE LinkInv'
    <2>1. TypeInv'
      BY <1>1, NextType DEF LinkInv
    <2> QED
      BY <1>1, <2>1, OriginStep, AgeStep, SerialStep, AloneStep, AnsweredStep, RecoveredStep,
         DeadlineStep DEF LinkInv
  <1> QED
    BY <1>1, LinkStutter

LEMMA LinkInvHolds == Spec => []LinkInv
  BY LinkInit, LinkNext, PTL DEF Spec

\* As long as identifiers do not come back within the calls that are made, a call that
\* reports a reply reports the one to its own request, over TCP and on a timely serial line.
THEOREM OwnAnswers ==
    ASSUME NoReuse
    PROVE  Spec => []OwnAnswer
  <1>1. LinkInv => OwnAnswer
    <2> SUFFICES ASSUME LinkInv, Backend = "TCP" \/ Link \/ ctx.delays = {Prompt},
                        NEW i \in DOMAIN results
                 PROVE  results[i].from \in {0, i}
      BY DEF OwnAnswer
    <2>1. (Backend = "TCP" /\ NoReuse) \/ Timely
      BY DEF Timely
    <2> QED
      BY <2>1 DEF LinkInv, AnsweredInv
  <1> QED
    BY <1>1, LinkInvHolds, PTL

\* An exception that is refused, which PROTOCOL does not flush after, answers an earlier call.
THEOREM RefusedExceptionsStale == Spec => []RefusedExceptionIsStale
  <1>1. LinkInv => RefusedExceptionIsStale
    <2> SUFFICES ASSUME LinkInv, NEW i \in DOMAIN results, results[i].verdict = "EMBBADEXC"
                 PROVE  results[i].from \in 1 .. i - 1
      BY DEF RefusedExceptionIsStale
    <2>1. results[i].from \in 0 .. i /\ results[i].from \notin {0, i}
      BY DEF LinkInv, AnsweredInv
    <2>2. i \in Nat
      BY DEF LinkInv, TypeInv
    <2> QED
      BY <2>1, <2>2
  <1> QED
    BY <1>1, LinkInvHolds, PTL

\* A reply a call succeeds with is at least one to a request like its own, and an exception it
\* refuses is none to its own.
THEOREM StaleAnswersAlike ==
    ASSUME NoReuse
    PROVE  Spec => []StaleIsAlike
  <1>1. LinkInv => AcceptedIsAlike
    <2> SUFFICES ASSUME LinkInv, Backend # "GOODWE", NEW i \in DOMAIN results,
                        results[i].verdict = "ok"
                 PROVE  Alike(results[i].q, results[results[i].from].q)
      BY DEF AcceptedIsAlike
    <2>1. Backend \in Backends
      BY SettingFields DEF LinkInv, TypeInv, Backend
    <2>2. Backend = "RTU" \/ (Backend = "TCP" /\ NoReuse)
      BY <2>1 DEF Backends
    <2> QED
      BY <2>2 DEF LinkInv, AnsweredInv
  <1> QED
    BY <1>1, LinkInvHolds, RefusedExceptionsStale, PTL DEF StaleIsAlike

\* After a message that does not fit, PROTOCOL leaves no answer that was in time.
THEOREM AlwaysRecovered == Spec => []Recovered
  BY LinkInvHolds, PTL DEF LinkInv

\* A call returns within the timeouts its recovery mode and the failures account for.
THEOREM DeadlineKept == Spec => []CallDeadline
  <1>1. LinkInv => CallDeadline
    BY DeadlineBound DEF LinkInv
  <1> QED
    BY <1>1, LinkInvHolds, PTL
=============================================================================

# invIOT in TLA+

invIOT reads a list of inverters once per interval and stores the readings in an SQLite file. This
directory holds TLA+ modules of its parts, TLC configurations that check them on small instances,
and TLAPS proofs of what must hold for every configuration. `src/...` names files of the repository.
In this directory, `tlc -config X.cfg M` runs one configuration; `tlapm M.tla` checks the proofs of a
module `M` whose name ends in `Proofs`, and of `Recursion`.

## The system

| part | state | operations | interacts with |
|---|---|---|---|
| main (`main.cpp`) | `configs`, the program counter | start, open, create one table per device, install handlers, create and join the poller, close, exit | the store, the poller (join), signals |
| poller (`inv_main`) | `next_interval`, `now`, `index`, `okCount`, `inv_status`, `count` | wait, begin a cycle, read a device, insert, end a cycle | the store; it is the only thread that inserts |
| signal handler (`handle_sigint`) | none of its own; signal masks and dispositions | close the store, `exit(-1)` | runs on top of main **or** of the poller |
| store (`inv_db`, `db_base`) | `m_dbHandle`, `dc_map`; tables `data_<i>` in the file | open, create, insert, close | SQLite: the connection's recursive mutex, `mem0.mutex` |
| configuration (`inv_conf`) | `duration`, `numOfInverter`, `invConfigs` | `init` from `solar.conf`, once per start | main, the poller |
| device driver (`inverter`, `simdev`) | one `inv_data` | `fill_data`: Normal or Disconnect | the poller |
| libmodbus (`lib/modbus`) | `modbus_t`: slave, descriptor, timeouts, recovery mode | receive state machine, client transactions, server replies, RTU, TCP, GoodWe and KACO backends | linked into the program; `simdev` stands in for devices read through it |

What is hard: a signal may land on either thread at any instruction, and its handler calls code that
is not async-signal-safe; the process can be killed at any instruction and starts again over the
same file, perhaps with another `solar.conf`; the clock may be set; inserts fail and nobody looks;
libmodbus must recover its place in a byte stream after losses, timeouts and late replies.
`PROJECT.json` lists each such hazard at its line.

## Modules

| module | models |
|---|---|
| `InvDb` | `inv_db` over `db_base`: handle, `dc_map`, tables. `DbOpen`, `DbClose`, `DbCreate`, `DbInsert` are the bodies of the methods, taken as parts of the actions of the threads that call them. |
| `InvIOT` | the process: `Main*` actions for the main thread, `Poll*`, `Exec*`, `CycleEnd` for the poller, `Signal` and `Handler*` for signals, `MainStart`, `Crash`, `Tick`, `SetClock`, `EditConf` for its surroundings. |
| `ReadingLog` | the abstract specification: a log that only grows, filled in rounds that are spaced and take the tables in turn. `InvIOT` implements it under the mapping `Log` (rows of all tables are the log, `next_interval` is `due`, `now` is `stamp`, `index` is `turn`). |
| `InvIOTProofs` | theorems about `InvIOT`. |
| `ModbusFrame` | the shapes of Modbus messages: what the client's functions and `modbus_reply` build, the two tables of lengths the receive loop goes by, the length of a reply a client computes. |
| `ModbusReceive` | one call of `_modbus_receive_msg`: `Call`, one `Recv` per portion, `TimedOut`, `SelectFails`, `RecvFails`, the recovery that follows them (`WakeUp`, `Connected`, `ConnectTimedOut`), and `Tick` for the time in `select` and in sleeps. |
| `ModbusReceiveProofs` | theorems about both. |
| `Startup` | main from its first line to the poller: `local_time_init`, `Configs::init` device by device, `parse_args` argument by argument, `db.open`, the tables; and the arrays the first insert reads. `InvIOT` goes on from its state "running". |
| `StartupProofs` | theorems about `Startup`. |
| `Recursion` | induction and recursion over the naturals, said of sets and functions, and what `FlattenSeq` makes of sequences of any length. |
| `ModbusClient` | no state: the requests of all public functions, `check_confirmation`, what is taken out of a reply. |
| `ModbusClientProofs` | what is packed is what is unpacked. |
| `ModbusServer` | requests that come in one behind another, `modbus_reply` with every function code on the tables of a mapping, `response_exception` with its sleep and flush, `modbus_reply_exception`. |
| `RegisterStore` | the abstract specification of a server: areas of addressed values; a request is executed as a whole or refused without effect. |
| `ModbusServerProofs` | theorems about `ModbusServer`, among them that it implements `RegisterStore`. |
| `ModbusLink` | a client's calls over a link that loses, damages and delays messages or closes: `send_msg` with its retries, the wait, `check_confirmation`, both recovery modes, TCP's transaction identifiers. |
| `ModbusLinkProofs` | theorems about `ModbusLink`. |
| `RtuBus` | several slaves that hear each other on one serial line, each in `_modbus_rtu_receive` with `confirmation_to_ignore`, polled in turn by a master. |
| `RtuBusProofs` | theorems about `RtuBus`. |
| `MC...` | constants for TLC. |

`ModbusFrame` gives lengths to both `ModbusReceive`, where messages come in portions, and
`ModbusClient`, where they have contents. `ModbusServer` and `ModbusLink` extend `ModbusClient`, one
at each end of a link: the server's replies go through `Verdict` and the `Unpack` operators of the
client, the client meets replies as `modbus_reply` builds them.

One action is the code between two points at which another thread, a signal or a crash makes a
difference. Inside `sqlite3_exec` these are: before a statement exists, inside `sqlite3Malloc`, with
a statement to run. `HandlerClose` is `sqlite3_close` in the three situations it meets. The frame a
handler interrupts never resumes, because the handler ends in `exit`; therefore a thread's state is
its program counter, the innermost handler's (`hpc`) and its mask (`blocked`).

What the code leaves undefined is a choice: using or closing a freed connection either ends the
process or returns an error (SQLite's check of the magic number in freed memory).

In `ModbusReceive` a stream is a message and what follows it, or noise. Of a message the loop looks at
two bytes, the function code and the one that announces the data, so a message is these two, its
length, and whether its slave and checksum are right. `recv` returns any of `Portions`, all that is
asked for or all there is; `select` returns when the timer is over, or at any time with bytes or an
error. The timer `tv` is an integer and `NoTimer` the null pointer. A signal in `select` only repeats
it. Error recovery takes time within the call: after a time-out LINK sleeps a whole response timeout (`pc` is
"sleep") before `modbus_flush`, and over TCP a new connection is waited for in `_connect` no longer than
a response timeout ("connect"). What a flush or a new connection leaves of the stream is a choice. After a
failed reconnect `ctx->s` is -1, and what a later call does with it is not modelled.

In `ModbusClient` a byte and a word are the sets of their bits, so that packing is an operation on
sets: `PackBits(nb, src)` has bit `b` of byte `k` where `src[8 * (k - 1) + b]` is not `OFF`. A request
has the fields of all function codes; those its code does not use are 0 or empty. `ModbusServer`
takes a request with `Serve`, `Refuse`, `NotImplemented` or `ReplyException`, each a whole call; only
the exceptions that flush have two steps, `SleepBeforeFlush` and `FlushAndRefuse`, because requests
come in during the sleep. Under the mapping `Store` a table is a function of addresses instead of
indices, the last reply is what the client's functions make of it, and a request is what the
protocol means by it (`Meaning`): addresses to read, and values with masks to write.

In `ModbusLink` messages are whole. A call is `Begin`, `Send` or `SendFails`, then `Receive`,
`TimedOut` or `PeerClosed`, `WakeUp` after a sleep, and `Connected` at the end of a wait for a new connection,
which lasts up to a response timeout and may fail; `next` says what follows the sleep or the wait. An
exchange in `net` is a request and then its answer, which comes, late at most by `due`, or is lost.
GoodWe's call is `modbus_read_words`, which takes any whole message of its slave. A flush empties what
has come in (`rx`); what comes later stays. Over TCP a new connection has nothing of an old one.

In `RtuBus` a slave listens, ignores the next message, or is amid bytes it does not understand
("junk"): request and answer of a write of one value have one length, those of a read have not, and
what is read of one with the length of the other leaves or misses bytes. What junk and the next
message give is open. Amid junk the byte timeout runs, if there is one; a byte timeout of 0 sets no timer
(`modbus.c:504`), and what runs on is the timer the message began with: none for an indication, which then
waits for the rest for ever, the response timeout for a confirmation to ignore. The master and its timer are surroundings, as is a slave that is switched off.

In `Startup` a plant has a list of devices, has something else in its place (`init` returns false), or is
no object, for which `j_plant["devices"]` throws; a device of `solar.conf` is its `mppt`, the length of its serial, and whether all its
members are there with their types. Running into undefined behaviour (an entry beyond `invConfigs`, a
serial beyond its array, a null pointer for `atoi`, arrays read beyond `DC_NUM_MAX`) ends the
behaviour in `"undefined"`, an exception nobody catches in `"abort"`.

Not in the state: the measured values (constants of `simdev.cpp`, nothing reads them back), the trace
output, `inv_status` texts (only which devices failed). In `InvIOT` a start refused by
`local_time_init`, `init` or `parse_args` changes nothing and is no action. `local_time_init` insists on the zone CST,
which within working hours gives every instant its own text; so the key of a row is the instant.

Operators called a *seeded fault* are faulty variants of the definition that follows them (a dropped
reset, a wrong bound). Nothing uses them; put in the definition's place, each makes one property
fail, which shows that the property can.

## Runs

| run | asks |
|---|---|
| `restart` | Are readings spaced, no more than `-c` asked for, within working hours and accounted for across a crash, a restart with another configuration, a clock that is set and a failing disk? Does the process implement `ReadingLog`? |
| `signal` | What can two signals on either thread not break, and do cycles, counted runs (`-c`) and a signalled process end? |
| `receive` | Does one call of the receive loop keep within its buffer and its message, read every legal message whole, and end in time, with a byte timeout or without, on any stream in any portions? |
| `store` | Does `modbus_reply` keep within tables, buffers and replies, give answers its client accepts, flush, of what its clients send, only for requests of 0 values and never execute these, take every request, and implement `RegisterStore`? |
| `link` | Whose answer does a call take, and whose does it refuse, when answers are lost, damaged or late, or the peer closes, and in which time does it return, with each backend and recovery mode? |
| `bus` | Which slave takes what for a confirmation to ignore, and are all slaves that are on served again and again, however they stood? |
| `startup` | Does the poller start with the devices and options it is given, never on part of a file, and is undefined behaviour confined to inputs beyond the limits? |
| `useafterclose` | Expected to fail: the handler on main closes the connection under the poller. |
| `gracefulstop` | Expected to fail: the handler on the poller waits for `mem0.mutex` its own thread holds. |
| `reconfigured` | Expected to fail: after a change of `mppt` the old table refuses every insert, and the device still counts as Ok. |
| `ignored` | Expected to fail: with a slave that is off and a slave's timeout that ends after the master's, the next request is skipped as a confirmation. |
| `values` | Expected to fail: `modbus_receive_confirmation` returns the length of the message, not the number of values its comment promises. |

Bounds. Two devices (`MAX_INV_NUM` = 2), the fewest with a device before and after another; one of
them may have a brand without a driver. An hour and a minute are one tick each, and the clock takes
the values in `Times`: 3 and 20 are outside working hours, 4 and 5 inside. `UIntRange` = 4 makes a
duration of 4 wrap to an interval of 0. `Budget` bounds how often each event of the surroundings
happens: two starts, one crash, one clock change, one edit and one fault in `restart`; one start,
two signals and one fault in `signal`. Two signals are the fewest that nest; two starts the fewest
that meet an old file. Deadlock is not checked: a process that stopped, with no start left, stays
stopped, and so does one that is stuck in its handler.

`receive` takes real lengths: requests, replies and exceptions of every function code over RTU and
TCP, short and at the limit of `modbus.h`, GoodWe's messages, messages for another slave or with a
wrong checksum, each with eight bytes behind it; and noise: codes and announced lengths nobody sends,
also 255, and streams that break off. Its settings have no byte timeout and no recovery, a byte timeout with
LINK and PROTOCOL, and timeouts for requests and bytes alike. `Pieces` = {1, 60} gives single bytes and long portions.
`Horizon` = 6 is more than a response timeout of 2, a byte timeout of 1 and the 2 of a recovery, so that a
late end shows, also one by a timer that was set to the response timeout where the byte timeout belongs or by
a loop that goes on after its sleep.

`store` has tables of 9 coils (more than a byte), 2 input bits, 3 registers and 130 input registers
(more than one reply holds), three of them with a start address, and 30 requests: of each function
code one within its table and one beyond it, at the limit of 125 registers and above it, broadcasts,
0 values (which the client's functions let through: they check upper limits only), short data and unknown codes. Two requests on the way are the fewest of which one can
be flushed behind the other.

`link` makes three calls, so that the answer to the first can meet the third, of four requests: two
slaves, and two writes that only their value tells apart. `ResponseTimeout` = 2; an answer is `Prompt`
within 1 and `Late` within 3, which a call that slept may still meet. A failure is a send that fails, a peer that
closes, a message that is lost or damaged, or a connection that is refused or times out. `TidMax` = 2 makes identifiers
wrap within the three calls. Each setting allows one or two failures.

`bus` has four slaves, up to two of them off, response timeouts of 2 and 3 with answers within 1, and
two lost messages, so that a slave can be put out of step again after it was. One setting has no byte
timeout; what the properties say of regular timeouts leaves it out, because there a slave may stay amid a
message for ever. `ignored` needs none.

`startup` has two plants of up to two devices with `MAX_INV_NUM` = 3, so that the fourth is one too
many; `mppt` of 12, 13 and 257 around `DC_NUM_MAX` and the width of an `unsigned char`, serials of 23 and 24;
and all command lines of up to three of six tokens. `UIntRange` = 16 makes `-c -1` a large number.

In these runs, too, deadlock is not checked where the system stops: after the last request or call, or
when main has ended. `bus` never stops and is checked for deadlock.

Fairness. In `receive`, time passes, and `select` and the sleep return when their time is over; nothing
says that a byte or a connection comes. The kernel schedules every thread that can run: weak fairness of `MainStep`, `PollStep`
and each thread's `HandlerStep`, and of `Tick`. Starts, signals, crashes, clock changes, edits and
faults owe nothing. Liveness is stated up to two ends that are not of the code's making or that
another run shows: the bounded clock runs out before the next cycle (`OutOfTime`), and the handler
that waits for itself (`Stuck`). With an interval of 0 the poller never pauses, and nothing makes
the mutex go to a waiting handler; `MainSignalEnds` is about intervals above 0.

In `store` the application's loop goes on receiving and replying. In `link` the client goes on, time
passes, and what is under way comes or is lost; failures are bounded, because with LINK `send_msg`
repeats "until to be successful" and a link that fails for ever keeps it for ever. In `bus` the master
goes on polling, time passes, and slaves answer and time out; that no message is lost any more after
`MaxFaults` is the bound, not fairness. `startup` is one thread, which runs while it can.

## Proofs

`InvIOTProofs` proves, for every value of the constants under `InvDbAssumption` and
`InvIOTAssumption` (sizes are naturals, configurations fit `invConfigs`, serials and `mppt` come
from their sets), the theorems listed in `PROJECT.json`. They rest on one inductive invariant

    IInv == TypeInv /\ ThreadInv /\ TablesInv /\ ConnInv /\ SpacingInv /\ WorkInv

`TypeInv` adds to the type that `okCount` never passes `index` and that an insert is under way only
for an existing device. `ThreadInv` says which thread exists at which line of main. `TablesInv` says
which tables and `dc_map` entries exist when main is at table `createIdx`. `ConnInv` relates the
handle to the program counters and to the signals taken: without it neither "no undefined behaviour
without a signal" nor "close waits" is inductive. `SpacingInv` says of this process's rows that the
ones of earlier cycles lie an interval below `next_interval` and that the current cycle's belong to
devices below `index`. `WorkInv` says that an insert under way belongs to a cycle at work. Each part
is preserved by each action, one step per action. `ImplementsLog` maps every action to an action or
a stutter of `ReadingLog`. `CycleVerdicts` is inductive on top of `IInv`. `CountedReadings` needs
`CountInv`: a device has been read at most once for each cycle that was counted, and once more in the cycle
under way if its turn is over. `LossExplained` needs two
more parts: `FileInv`, which says what the file can hold that this process did not put there, by the
starts and edits so far, and `LostInv`, which keeps losses as far in the past as `SpacingInv` keeps
rows, so that a later row never is the one whose insert failed.

`ModbusReceiveProofs` proves its theorems for every stream, setting, set of portions and horizon under
`ModbusReceiveAssumption`, which says that a stream called `whole` is a message some builder builds
(`WholeMessage`). Lemmas about lengths come first: for every legal request, what the two tables add up
to is the length the builder gave the message (`RequestLength`, `ReplyLength`, `WholeLength`), and it
fits the buffer. The inductive invariant adds to the type `LoopInv`, that what is read and asked for
is the end of the step under way and fits. `ReceiveDeadline` needs `SpanInv` beside it: the elapsed time and
what is left of the timer stay within the first timer and a byte timeout for each byte read, because each turn
of the loop that sets the timer again has read at least one; the one recovery of a call with LINK, a sleep or a
wait for a connection, adds one response timeout (`RecoveryTime`). `ClientExpectsReply` compares the length a client
computes with the reply's builder, report slave id excepted, whose length the client does not know.

In `RtuBusProofs` `TypeOK` is inductive. `TimersInv` says that, with timeouts as `Regular` has them, a byte timeout
among them, the timer of a slave that ignores or is amid junk runs (an indication without a byte timeout has
none, and `SilenceRealigns` would be false of it) and ends no later than the master's; `SilenceRealigns` follows,
for any number of slaves and whatever was lost. `StepInv == Quiet => InStep` says that slaves that lost nothing hold the state the master's
turn gives them; `NoneSwallowed` follows from it, not the other way round, because `NoneSwallowed` looks
only at requests and a slave is out of step before it meets one.

`ModbusClientProofs` proves by arithmetic on places that packed bits and words are unpacked as they
were, for every number of them. `ModbusServerProofs` has the inductive invariant

    IInv == MapInv /\ QueueInv /\ ReplyInv

(tables keep their sizes and kinds; requests are taken in the order they came in, and only one that
flushes sleeps; the last reply fits the outcome of its request) and from it every safety property of `store`, for all tables, start addresses and
requests. That the server implements `RegisterStore` has three parts: the addresses and masks a request means are
the ones `modbus_reply` writes (`MeaningWrites`, `ExecutedMeans`), what the client unpacks from a reply is
what these addresses hold (`ValuesReadMeans`), and a refused request has no effect. `OnlyEmptyFlush` says which
requests of a client flush: those for 0 values, which `modbus_read_bits` and the others build because they check
upper limits only, and no others; `NothingAccepted` is the lemma that none of them is executed.

`ModbusLinkProofs` proves the safety properties of `link` for all settings, requests, timeouts and
numbers of calls and failures, from one invariant with these parts:

- `OriginInv`: whatever is under way or has come in belongs to a call that was made, and over TCP the
  identifier has gone on by one with each call since;
- `AgeInv`: no answer is older than due, and in a sleep none is younger than the time slept;
- `SerialInv`, `AloneInv`: a serial line stays open, and where every answer comes within its call, at most
  one message is on the line, that of the call;
- `AnsweredInv`: whose answer each result is, a refused exception (`EMBBADEXC`) included, which is never the own
  one (`OwnExceptionFits`);
- `DeadlineInv`: the time a call has spent and what is left of its timer stay within a sum that depends on where
  the call is, and with LINK on the failures it has met (`Allowance`): each costs at most `FailureTime`, a sleep and,
  over TCP, the wait for a new connection. A connection that is gone counts as a failure to come (`Failures`)
  until it is there again.

`OwnAnswers` and `StaleAnswersAlike` assume `NoReuse`: no more calls than there are identifiers. This is
a limit of the program, not of the proof: after 65536 calls over one connection an identifier comes
back, and an answer as old as that would be taken. `AcceptedAlike` is the lemma behind `AcceptedIsAlike`:
a reply that `check_confirmation` takes for good answers a request that is the same where it looks.

`StartupProofs` proves the safety properties of `startup` for every file and every command line. The
properties speak of the whole input: of `Devices`, all plants' devices in one sequence, and of `Options`,
which of the arguments are no value of a `-c` before them. Both are recursive, so the proofs need
induction over data. The library states it with an operator as a parameter, which the provers cannot
instantiate; `Recursion` states it of a set instead (`SetInduction`: a set of naturals that has 0, and with
each number the next one, has all), from the fact that `<` is well-founded on `Nat`, and gets from it that a
function defined by recursion exists and is unique (`PrimitiveRecursion`) and that `FlattenSeq` of one
more sequence appends it (`FlattenAppend`). The inductive invariant is

    IInv == TypeOK /\ LoadInv /\ FitsInv /\ TablesInv /\ ArgsInv /\ UndefinedOnlyBeyondLimits

`LoadInv` says that what is loaded are the devices of the plants before `plant` and those of this plant
before `device`; `BeforeNext` and `PlaceOfDevice` say what a turn of the loops adds to that. `FitsInv`
says that everything the loops have gone past is as expected, and keeps the poller from starting on part of a file. `ArgsInv` says
that the argument at `arg` is an option, and that `count`, `trace` and `ret` are what the options before
`arg` make of them; without the first part the step over the value of a `-c` would not follow.

Only model-checked is everything under fairness (`CountedRunEnds`, `MainSignalEnds`, `EveryCycleEnds`,
`ConfirmationEnds`, `HalfMessageEnds`, `EveryRequestEnds`, `CallEnds`, `EverySlaveServed`, `StartEnds`),
because TLAPS has no rules for it here.

## Not modelled

- `network.cpp`, termios, RTS and socket set-up (I/O without a state of their own), `modbus_set_*` and
  `modbus_get_*`, and bit and byte helpers without callers.
- The KACO backend: nothing creates one, and the receive loop's tables of lengths do not know it.
- A request that is sent in part (`modbus.c:216`), a server that answers with exception codes of its own, beyond
  `MODBUS_EXCEPTION_MAX` (what `link` has of refused exceptions are late ones to other calls), and the
  recovery a server does on its own link: `ModbusLink` sends whole messages to
  servers that answer as `modbus_reply` does.
- The handler's other calls that are not async-signal-safe: of what it can wait for on its own thread, only
  `mem0.mutex` is modelled, so `CountedRunEnds` and `MainSignalEnds` are about a handler that gets through the rest
  (`exit`, stdio, the connection's mutex, which is recursive). A second close of the connection is a choice of
  outcomes that `UbOnlyUnderSignal` allows after a signal.
- That a wrapped `duration * 60` is not the interval the configuration asks for: spacing is stated of the
  product, which for 0 says nothing.
- `modbus_new_tcp_pi`: `getaddrinfo`, and a wait for each address it returns. The time bounds of `receive` and
  `link` are those of `modbus_new_tcp`, RTU and GoodWe.
- Negative numbers passed to the client's functions. They are not refused there and arrive as words above 32767,
  for which the server flushes as for other illegal numbers.
- Which of two requests under way a server executes first, as far as `ImplementsStore` goes: `RegisterStore`
  allows an access by any request of the set.
- TCP's protocol identifier (`modbus-tcp.c:202`): no model has a message that carries another.
- SQLite and nlohmann/json, the two vendored libraries that make up 97 of 100 lines under `src/`. What
  the program relies on is modelled where it is used: the connection's mutex, `mem0.mutex`, a close
  that finds a statement, atomic commits, calls that throw.
- `get_ETotalofToDayMorning` and `get_one_value`, which read only and have no caller.

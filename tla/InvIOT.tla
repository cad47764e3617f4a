------------------------------- MODULE InvIOT -------------------------------
(***************************************************************************)
(* The collector invIOT as a process among its operator, its clock and its *)
(* files: the main thread, the poller thread inv_main, the handler of      *)
(* SIGINT and SIGTERM, which runs on top of whichever of the two threads   *)
(* takes the signal, and the store of InvDb.  One action is the code       *)
(* between two points where another thread, a signal or a crash matters.   *)
(***************************************************************************)
EXTENDS InvDb, FiniteSets

CONSTANTS
    ConfFiles,     \* contents solar.conf may have, as Configs::init loads them
    Counts,        \* values of option -c, 0 when it is not given
    MinuteTicks, HourTicks,   \* clock ticks per minute and per hour
    UIntRange,     \* 2^32: the interval is computed in unsigned int
    Times,         \* bound: the values the clock takes
    Budget         \* bound: how often each event of the environment may happen

Events == {"start", "signal", "crash", "clock", "edit", "fault"}

ASSUME InvIOTAssumption ==
    /\ ConfFiles \subseteq
         [duration : Nat, num : 0 .. MAX_INV_NUM,
          dev : [Index -> [serial : Serials, brand : {"SimDev", "Other"}, mppt : DcNum]]]
    /\ Counts \subseteq Nat
    /\ MinuteTicks \in Nat \ {0}
    /\ HourTicks \in Nat \ {0}
    /\ UIntRange \in Nat \ {0}
    /\ Times \subseteq Nat
    /\ Budget \in [Events -> Nat]

VARIABLES
    clock, solarConf, used,                       \* environment: time, solar.conf, spent budget
    conf, configCount, mainPc, createIdx,         \* main thread
    pollPc, nextInterval, now, index, okCount, failed, count,   \* poller thread
    installed, blocked, hpc,                      \* signals: dispositions, masks, handler frames
    runRows, lost, ub                             \* history of this process, see below

envVars == <<clock, solarConf, used>>
mainVars == <<conf, configCount, mainPc, createIdx>>
pollVars == <<pollPc, nextInterval, now, index, okCount, failed, count>>
sigVars == <<installed, blocked, hpc>>
histVars == <<runRows, lost, ub>>
vars == <<envVars, mainVars, pollVars, sigVars, histVars, dbVars>>

Threads == {"main", "poller"}
Sigs == {"SIGINT", "SIGTERM"}

\* Where the poller is inside sqlite3_exec, and so owns the connection's mutex:
\* before a statement exists, inside sqlite3Malloc with mem0.mutex, with a statement.
InExec == {"exec", "alloc", "commit"}

TypeOK ==
    /\ DbTypeOK
    /\ clock \in Nat
    /\ solarConf \in ConfFiles
    /\ used \in [Events -> Nat]
    /\ conf \in ConfFiles
    /\ configCount \in Nat
    /\ mainPc \in {"down", "open", "create", "sigint", "sigterm", "spawn", "join",
                   "close", "exit", "ending"}
    /\ createIdx \in 0 .. MAX_INV_NUM
    /\ pollPc \in {"none", "wait", "device", "ended"} \union InExec
    /\ nextInterval \in Nat
    /\ now \in Nat
    /\ index \in 0 .. conf.num
    /\ okCount \in 0 .. conf.num
    /\ failed \subseteq Index
    /\ count \in Nat
    /\ installed \subseteq Sigs
    /\ blocked \in [Threads -> SUBSET Sigs]
    /\ hpc \in [Threads -> {"none", "close", "exit", "ending"}]
    /\ runRows \subseteq [table : Index, ts : Nat, serial : Serials]
    /\ lost \subseteq [table : Index, ts : Nat, reason : {"schema", "key", "io", "closed"}]
    /\ ub \subseteq {"useAfterClose", "doubleClose"}

----------------------------------------------------------------------------
\* Operators.

\* configs.get_duration() * 60, an unsigned int.
Interval == (conf.duration * MinuteTicks) % UIntRange

\* tm_hour in START_HOUR_TIME .. END_HOUR_TIME - 1.
AtWork(t) == ((t \div HourTicks) % 24) \in 4 .. 19

\* Seeded fault: working time asked of the clock when the device's turn comes.
ReadsLate(i) == AtWork(clock) /\ conf.dev[i].brand = "SimDev"

\* fill_data returns Normal: at work, and a brand with a driver.
Reads(i) == AtWork(now) /\ conf.dev[i].brand = "SimDev"

\* The environment spends one unit of a budget.
Spend(e) ==
    /\ used[e] < Budget[e]
    /\ used' = [used EXCEPT ![e] = @ + 1]

Up == mainPc # "down"
PollerExists == pollPc \notin {"none", "ended"}

\* A thread runs its own code when no handler is on top of it.
Runs(t) == hpc[t] = "none"

\* The primary key of the row the poller is about to insert.
RowKey == [ts |-> now, serial |-> conf.dev[index].serial]

PollFresh ==
    /\ nextInterval' = 0
    /\ now' = 0
    /\ index' = 0
    /\ okCount' = 0
    /\ failed' = {}
    /\ count' = 0

\* The process is gone, by exit, by a default signal action or by a crash: its
\* memory is gone with it, the database file stays as committed.
ProcessGone ==
    /\ mainPc' = "down"
    /\ createIdx' = 0
    /\ pollPc' = "none"
    /\ PollFresh
    /\ installed' = {}
    /\ blocked' = [t \in Threads |-> {}]
    /\ hpc' = [t \in Threads |-> "none"]
    /\ runRows' = {}
    /\ lost' = {}
    /\ DbFresh
    /\ UNCHANGED <<conf, configCount, fileVars>>

Init ==
    /\ clock \in Times
    /\ solarConf \in ConfFiles
    /\ used = [e \in Events |-> 0]
    /\ conf = solarConf /\ configCount = 0
    /\ mainPc = "down" /\ createIdx = 0
    /\ pollPc = "none" /\ nextInterval = 0 /\ now = 0 /\ index = 0
    /\ okCount = 0 /\ failed = {} /\ count = 0
    /\ installed = {}
    /\ blocked = [t \in Threads |-> {}]
    /\ hpc = [t \in Threads |-> "none"]
    /\ runRows = {} /\ lost = {} /\ ub = {}
    /\ handle = "null" /\ dcMap = [i \in Index |-> None] /\ dcAlive = TRUE
    /\ schema = [i \in Index |-> None] /\ rows = [i \in Index |-> {}]

----------------------------------------------------------------------------
\* The main thread.

\* The operator starts invIOT: configs.init loads solar.conf, parse_args takes -c.
\* A start refused by local_time_init, configs.init or parse_args changes nothing.
MainStart(c) ==
    /\ ~Up /\ Spend("start")
    /\ conf' = solarConf
    /\ configCount' = c
    /\ mainPc' = "open"
    /\ PollFresh
    /\ ub' = {}
    /\ UNCHANGED <<clock, solarConf, createIdx, pollPc, sigVars, runRows, lost, dbVars>>

MainOpen ==
    /\ mainPc = "open"
    /\ DbOpen
    /\ mainPc' = "create"
    /\ UNCHANGED <<envVars, conf, configCount, createIdx, pollVars, sigVars, histVars>>

\* Seeded fault: the loop that creates the tables leaves out the last one.
MainCreateShort ==
    /\ mainPc = "create"
    /\ IF createIdx < conf.num
         THEN /\ IF createIdx < conf.num - 1
                   THEN DbCreate(createIdx, conf.dev[createIdx].mppt)
                   ELSE UNCHANGED dbVars
              /\ createIdx' = createIdx + 1
              /\ UNCHANGED mainPc
         ELSE /\ mainPc' = "sigint"
              /\ UNCHANGED <<createIdx, dbVars>>
    /\ UNCHANGED <<envVars, conf, configCount, pollVars, sigVars, histVars>>

\* One turn of the loop over db.create, or its end.
MainCreate ==
    /\ mainPc = "create"
    /\ IF createIdx < conf.num
         THEN /\ DbCreate(createIdx, conf.dev[createIdx].mppt)
              /\ createIdx' = createIdx + 1
              /\ UNCHANGED mainPc
         ELSE /\ mainPc' = "sigint"
              /\ UNCHANGED <<createIdx, dbVars>>
    /\ UNCHANGED <<envVars, conf, configCount, pollVars, sigVars, histVars>>

\* db.open or a db.create fails: main returns 0, inv_db::create having closed.
MainOpenFails ==
    /\ mainPc = "open" /\ Spend("fault")
    /\ mainPc' = "exit"
    /\ UNCHANGED <<clock, solarConf, conf, configCount, createIdx, pollVars, sigVars, histVars,
                   dbVars>>

MainCreateFails ==
    /\ mainPc = "create" /\ createIdx < conf.num /\ Spend("fault")
    /\ DbClose
    /\ mainPc' = "exit"
    /\ UNCHANGED <<clock, solarConf, conf, configCount, createIdx, pollVars, sigVars, histVars>>

\* signal(SIGINT, handle_sigint), then signal(SIGTERM, handle_sigint).
MainInstall ==
    /\ \/ /\ mainPc = "sigint" /\ mainPc' = "sigterm"
          /\ installed' = installed \union {"SIGINT"}
       \/ /\ mainPc = "sigterm" /\ mainPc' = "spawn"
          /\ installed' = installed \union {"SIGTERM"}
    /\ Runs("main")
    /\ UNCHANGED <<envVars, conf, configCount, createIdx, pollVars, blocked, hpc, histVars,
                   dbVars>>

\* pthread_create: the poller starts with next_interval = 0 and count = 0.
MainSpawn ==
    /\ mainPc = "spawn" /\ Runs("main")
    /\ mainPc' = "join"
    /\ pollPc' = "wait"
    /\ PollFresh
    /\ UNCHANGED <<envVars, conf, configCount, createIdx, sigVars, histVars, dbVars>>

MainSpawnFails ==
    /\ mainPc = "spawn" /\ Runs("main") /\ Spend("fault")
    /\ mainPc' = "close"
    /\ UNCHANGED <<clock, solarConf, conf, configCount, createIdx, pollVars, sigVars, histVars,
                   dbVars>>

\* Seeded fault: the poller is detached instead of joined.
MainDetach ==
    /\ mainPc = "join" /\ Runs("main")
    /\ mainPc' = "close"
    /\ UNCHANGED <<envVars, conf, configCount, createIdx, pollVars, sigVars, histVars, dbVars>>

\* pthread_join returns once inv_main has returned.
MainJoin ==
    /\ mainPc = "join" /\ Runs("main")
    /\ pollPc = "ended"
    /\ mainPc' = "close"
    /\ UNCHANGED <<envVars, conf, configCount, createIdx, pollVars, sigVars, histVars, dbVars>>

\* db.close() after the join.
MainClose ==
    /\ mainPc = "close" /\ Runs("main")
    /\ DbClose
    /\ ub' = IF handle = "freed" THEN ub \union {"doubleClose"} ELSE ub
    /\ mainPc' = "exit"
    /\ UNCHANGED <<envVars, conf, configCount, createIdx, pollVars, sigVars, runRows, lost>>

\* return 0: the destructors of static objects run, then the process ends.
MainExit ==
    /\ mainPc = "exit" /\ Runs("main")
    /\ DbDestroy
    /\ mainPc' = "ending"
    /\ UNCHANGED <<envVars, conf, configCount, createIdx, pollVars, sigVars, histVars>>

MainEnd ==
    /\ mainPc = "ending" /\ Runs("main")
    /\ ProcessGone
    /\ UNCHANGED <<envVars, ub>>

MainStep ==
    \/ MainOpen \/ MainCreate \/ MainInstall \/ MainSpawn
    \/ MainJoin \/ MainClose \/ MainExit \/ MainEnd

MainFails == MainOpenFails \/ MainCreateFails \/ MainSpawnFails

----------------------------------------------------------------------------
\* The poller thread.

\* Seeded fault: the next interval is counted from the last one, not from now.
PollBeginDrifting ==
    /\ pollPc = "wait" /\ Runs("poller")
    /\ clock >= nextInterval
    /\ now' = clock
    /\ nextInterval' = nextInterval + Interval
    /\ index' = 0 /\ okCount' = 0 /\ failed' = {}
    /\ pollPc' = "device"
    /\ UNCHANGED <<envVars, mainVars, count, sigVars, histVars, dbVars>>

\* Seeded fault: okCount is a variable of the thread and never reset.
PollBeginKeepsCount ==
    /\ pollPc = "wait" /\ Runs("poller")
    /\ clock >= nextInterval
    /\ now' = clock
    /\ nextInterval' = clock + Interval
    /\ index' = 0 /\ failed' = {}
    /\ pollPc' = "device"
    /\ UNCHANGED <<envVars, mainVars, okCount, count, sigVars, histVars, dbVars>>

\* now = time(); the loop sleeps while now < next_interval, else a cycle begins.
PollBegin ==
    /\ pollPc = "wait" /\ Runs("poller")
    /\ clock >= nextInterval
    /\ now' = clock
    /\ nextInterval' = clock + Interval
    /\ index' = 0 /\ okCount' = 0 /\ failed' = {}
    /\ pollPc' = "device"
    /\ UNCHANGED <<envVars, mainVars, count, sigVars, histVars, dbVars>>

AtDevice == pollPc = "device" /\ Runs("poller") /\ index < conf.num

\* Seeded fault: the first inverter that does not answer ends the cycle.
PollDisconnectBreaks ==
    /\ AtDevice /\ ~Reads(index)
    /\ failed' = failed \union {index}
    /\ index' = conf.num
    /\ UNCHANGED <<envVars, mainVars, pollPc, nextInterval, now, okCount, count, sigVars,
                   histVars, dbVars>>

\* The device's turn ends in Disconnect.
PollDisconnect ==
    /\ AtDevice /\ ~Reads(index)
    /\ failed' = failed \union {index}
    /\ index' = index + 1
    /\ UNCHANGED <<envVars, mainVars, pollPc, nextInterval, now, okCount, count, sigVars,
                   histVars, dbVars>>

\* The device's turn ends in Normal and db.insert enters sqlite3_exec.
PollInsert ==
    /\ AtDevice /\ Reads(index)
    /\ dcAlive /\ handle # "freed"
    /\ pollPc' = "exec"
    /\ UNCHANGED <<envVars, mainVars, nextInterval, now, index, okCount, failed, count, sigVars,
                   histVars, dbVars>>

\* The result of db.insert is not looked at: the device counts as read.
InsertReturns ==
    /\ pollPc' = "device"
    /\ index' = index + 1
    /\ okCount' = okCount + 1
    /\ UNCHANGED <<nextInterval, now, failed, count>>

Lose(reason) ==
    lost' = lost \union {[table |-> index, ts |-> now, reason |-> reason]}

\* db.insert on a freed connection or a destroyed dc_map is undefined: the process
\* crashes, or SQLite notices (SQLITE_MISUSE) and the insert fails.
PollInsertDangling ==
    /\ AtDevice /\ Reads(index)
    /\ ~dcAlive \/ handle = "freed"
    /\ ub' = ub \union {"useAfterClose"}
    /\ \/ ProcessGone
       \/ /\ InsertReturns
          /\ Lose("closed")
          /\ UNCHANGED <<mainVars, sigVars, runRows, dbVars>>
    /\ UNCHANGED envVars

InExecSteps(from, to) ==
    /\ pollPc = from /\ Runs("poller")
    /\ pollPc' = to
    /\ UNCHANGED <<envVars, mainVars, nextInterval, now, index, okCount, failed, count, sigVars,
                   histVars, dbVars>>

\* sqlite3_exec allocates; a statement that fits its table prepares.
ExecAlloc == InExecSteps("exec", "alloc")
ExecPrepared == InExecSteps("alloc", "commit") /\ Fits(index)

ExecCommit ==
    /\ pollPc = "commit" /\ Runs("poller")
    /\ DbInsert(index, RowKey)
    /\ runRows' = runRows \union
                    {[table |-> index, ts |-> now, serial |-> conf.dev[index].serial]}
    /\ InsertReturns
    /\ UNCHANGED <<envVars, mainVars, sigVars, lost, ub>>

\* Seeded fault: a failed insert is tried again.
ExecRetries ==
    /\ \/ pollPc = "alloc" /\ ~Fits(index)
       \/ pollPc = "commit" /\ RowKey \in rows[index]
    /\ Runs("poller")
    /\ Lose("key")
    /\ pollPc' = "exec"
    /\ UNCHANGED <<envVars, mainVars, nextInterval, now, index, okCount, failed, count, sigVars,
                   runRows, ub, dbVars>>

\* The statement does not prepare (wrong number of values), or prepares and does
\* not run (PRIMARY KEY); an I/O error stops either.
ExecFails ==
    /\ Runs("poller")
    /\ \/ pollPc = "alloc" /\ ~Fits(index) /\ Lose("schema") /\ UNCHANGED used
       \/ pollPc = "commit" /\ RowKey \in rows[index] /\ Lose("key") /\ UNCHANGED used
       \/ pollPc \in {"alloc", "commit"} /\ Lose("io") /\ Spend("fault")
    /\ InsertReturns
    /\ UNCHANGED <<clock, solarConf, mainVars, sigVars, runRows, ub, dbVars>>

\* Seeded fault: count is a variable of the loop body.
CycleEndForgetful ==
    /\ pollPc = "device" /\ Runs("poller") /\ index = conf.num
    /\ pollPc' = IF configCount = 1 THEN "ended" ELSE "wait"
    /\ UNCHANGED <<envVars, mainVars, nextInterval, now, index, okCount, failed, count, sigVars,
                   histVars, dbVars>>

\* Seeded fault: the cycles are counted after the comparison (count++ >= config_count).
CycleEndLate ==
    /\ pollPc = "device" /\ Runs("poller") /\ index = conf.num
    /\ count' = IF configCount > 0 THEN count + 1 ELSE count
    /\ pollPc' = IF configCount > 0 /\ count >= configCount THEN "ended" ELSE "wait"
    /\ UNCHANGED <<envVars, mainVars, nextInterval, now, index, okCount, failed, sigVars,
                   histVars, dbVars>>

\* The devices are done; with -c the thread returns after config_count cycles.
CycleEnd ==
    /\ pollPc = "device" /\ Runs("poller") /\ index = conf.num
    /\ count' = IF configCount > 0 THEN count + 1 ELSE count
    /\ pollPc' = IF configCount > 0 /\ count + 1 >= configCount THEN "ended" ELSE "wait"
    /\ UNCHANGED <<envVars, mainVars, nextInterval, now, index, okCount, failed, sigVars,
                   histVars, dbVars>>

PollStep ==
    \/ PollBegin \/ PollDisconnect \/ PollInsert \/ PollInsertDangling
    \/ ExecAlloc \/ ExecPrepared \/ ExecCommit \/ ExecFails \/ CycleEnd

----------------------------------------------------------------------------
\* The signal handler.  It never returns: it ends in exit(-1), so the frame it
\* interrupts never runs again.

\* A signal reaches a thread that does not block it.  Without a handler the
\* default action ends the process; a handler blocks its own signal only.
Signal(t, sig) ==
    /\ Up /\ Spend("signal")
    /\ t = "main" \/ PollerExists
    /\ sig \notin blocked[t]
    /\ IF sig \in installed
         THEN /\ hpc' = [hpc EXCEPT ![t] = "close"]
              /\ blocked' = [blocked EXCEPT ![t] = @ \union {sig}]
              /\ UNCHANGED <<mainVars, pollVars, installed, runRows, lost, dbVars>>
         ELSE ProcessGone
    /\ UNCHANGED <<clock, solarConf, ub>>

\* Seeded fault: a connection without a mutex (SQLITE_THREADSAFE=0).
HandlerCloseAtOnce(t) ==
    /\ hpc[t] = "close"
    /\ t = "poller" => pollPc # "alloc"
    /\ DbClose
    /\ hpc' = [hpc EXCEPT ![t] = "exit"]
    /\ UNCHANGED <<envVars, mainVars, pollVars, installed, blocked, histVars>>

\* The handler's db.close() returns.  sqlite3_close waits while the other thread
\* holds the connection's mutex, which is recursive: on the poller's own stack it
\* enters, frees the connection or, with a statement open, returns SQLITE_BUSY.
\* Inside sqlite3Malloc it never returns: it needs mem0.mutex, which the
\* interrupted frame holds.  A second close of a freed connection is undefined.
HandlerClose(t) ==
    /\ hpc[t] = "close"
    /\ \/ t = "poller" /\ pollPc # "alloc"
       \/ t = "main" /\ (handle = "freed" \/ pollPc \notin InExec)
    /\ \/ /\ handle = "freed"
          /\ ub' = ub \union {"doubleClose"}
          /\ \/ ProcessGone
             \/ /\ hpc' = [hpc EXCEPT ![t] = "exit"]
                /\ UNCHANGED <<mainVars, pollVars, installed, blocked, runRows, lost, dbVars>>
       \/ /\ handle # "freed"
          /\ hpc' = [hpc EXCEPT ![t] = "exit"]
          /\ IF t = "poller" /\ pollPc = "commit" THEN UNCHANGED dbVars ELSE DbClose
          /\ UNCHANGED <<mainVars, pollVars, installed, blocked, histVars>>
    /\ UNCHANGED envVars

\* Seeded fault: the handler returns after it has closed.
HandlerReturns(t) ==
    /\ hpc[t] = "exit"
    /\ hpc' = [hpc EXCEPT ![t] = "none"]
    /\ UNCHANGED <<envVars, mainVars, pollVars, installed, blocked, histVars, dbVars>>

\* exit(-1) runs the destructors of static objects.
HandlerExit(t) ==
    /\ hpc[t] = "exit"
    /\ DbDestroy
    /\ hpc' = [hpc EXCEPT ![t] = "ending"]
    /\ UNCHANGED <<envVars, mainVars, pollVars, installed, blocked, histVars>>

HandlerEnd(t) ==
    /\ hpc[t] = "ending"
    /\ ProcessGone
    /\ UNCHANGED <<envVars, ub>>

HandlerStep(t) == HandlerClose(t) \/ HandlerExit(t) \/ HandlerEnd(t)

----------------------------------------------------------------------------
\* The environment.

\* Time passes, in jumps: nothing says when the scheduler next runs a thread.
Tick ==
    /\ clock' \in {t \in Times : t > clock}
    /\ UNCHANGED <<solarConf, used, mainVars, pollVars, sigVars, histVars, dbVars>>

\* Somebody, or NTP, sets the clock.
SetClock ==
    /\ Spend("clock")
    /\ clock' \in Times
    /\ UNCHANGED <<solarConf, mainVars, pollVars, sigVars, histVars, dbVars>>

EditConf ==
    /\ Spend("edit")
    /\ solarConf' \in ConfFiles \ {solarConf}
    /\ UNCHANGED <<clock, mainVars, pollVars, sigVars, histVars, dbVars>>

\* SIGKILL or loss of power.  SQLite rolls an unfinished insert back.
Crash ==
    /\ Up /\ Spend("crash")
    /\ ProcessGone
    /\ UNCHANGED <<clock, solarConf, ub>>

Next ==
    \/ \E c \in Counts : MainStart(c)
    \/ MainStep \/ MainFails
    \/ PollStep
    \/ \E t \in Threads, sig \in Sigs : Signal(t, sig)
    \/ \E t \in Threads : HandlerStep(t)
    \/ Tick \/ SetClock \/ EditConf \/ Crash

Spec == Init /\ [][Next]_vars

\* Every thread that can run eventually does, and time passes.
Fairness ==
    /\ WF_vars(MainStep)
    /\ WF_vars(PollStep)
    /\ \A t \in Threads : WF_vars(HandlerStep(t))
    /\ WF_vars(Tick)

FairSpec == Spec /\ Fairness

----------------------------------------------------------------------------
\* The abstract log the store implements.

LogEntries ==
    UNION {{[table |-> i, ts |-> r.ts, serial |-> r.serial] : r \in rows[i]} : i \in Index}

Log == INSTANCE ReadingLog WITH
    Tables <- Index, log <- LogEntries, gap <- Interval, due <- nextInterval,
    stamp <- now, turn <- index

\* The process and its store implement the log: no step of a thread, a handler, the
\* clock, a crash or a restart removes a row, adds one outside its device's turn, or
\* opens a cycle before it is due.
KeepsLog == Log!Spec

----------------------------------------------------------------------------
\* Properties.

\* dc_map.at(index) of inv_db::insert never throws: while the poller lives, every
\* device of the loaded configuration has its dc_map entry and its table, and the
\* entry is the device's mppt (main creates all of them before it creates the thread).
DcMapTotal ==
    PollerExists /\ dcAlive =>
        \A i \in 0 .. conf.num - 1 :
            dcMap[i] = conf.dev[i].mppt /\ schema[i] # None

\* A row is only ever stored under a time of day in 4:00 .. 19:59, whatever the
\* clock shows by the time the device's turn comes.
WorkHoursOnly ==
    \A i \in Index : \A r \in rows[i] : AtWork(r.ts)

\* Two rows one process stores in one table are at least the configured interval
\* apart, also when the clock is set back in between.
ReadingsSpaced ==
    \A r1, r2 \in runRows :
        r1.table = r2.table /\ r1 # r2 =>
            r1.ts + Interval <= r2.ts \/ r2.ts + Interval <= r1.ts

\* Rows are stored when they are due.
ReadingsOnSchedule == WorkHoursOnly /\ ReadingsSpaced

\* Every device of a cycle before index has had its verdict, and the right one: it is
\* in inv_status iff it is not readable, else it has a row or a failed insert of this
\* cycle; okCount counts the latter two, and no device that fails holds up the next.
CycleVerdicts ==
    pollPc \in {"device"} \union InExec =>
        /\ okCount = index - Cardinality(failed)
        /\ failed = {j \in 0 .. index - 1 : ~Reads(j)}
        /\ \A j \in (0 .. index - 1) \ failed :
             \/ [table |-> j, ts |-> now, serial |-> conf.dev[j].serial] \in runRows
             \/ \E l \in lost : l.table = j /\ l.ts = now

\* A process with -c stores at most one reading of a device for each cycle it was asked for,
\* however the clock is set and whichever inserts fail, and its poller returns after the last
\* of them only.
CountedReadings ==
    configCount > 0 =>
        /\ \A i \in Index : Cardinality({r \in runRows : r.table = i}) <= configCount
        /\ pollPc = "ended" => count = configCount

\* Without a signal the connection is closed once, after the last use of it.
UbOnlyUnderSignal ==
    ub # {} => used["signal"] > 0

\* A reading the poller counted as Ok and did not store was refused for a reason that
\* can be named: the table is of a former mppt, the second's key is an earlier
\* process's (or the interval is 0), or a handler had closed the connection.
LossExplained ==
    \A l \in lost :
        LET key == [ts |-> l.ts, serial |-> conf.dev[l.table].serial] IN
        /\ l.reason = "schema" =>
             schema[l.table] # CreateColumns(conf.dev[l.table].mppt) /\ used["edit"] > 0
        /\ l.reason = "key" =>
             /\ key \in rows[l.table]
             /\ Interval = 0 \/ (used["start"] > 1 /\
                  [table |-> l.table, ts |-> l.ts, serial |-> key.serial] \notin runRows)

\* close() in a handler never frees the connection under a statement the other
\* thread is running: the connection's mutex makes it wait.
CloseWaitsForStatement ==
    pollPc \in InExec /\ handle = "freed" => ~Runs("poller")

\* handle_sigint (main.cpp:117, "just stop gracefully") does not leave the poller with
\* a connection that is gone: violated.
NoUseAfterClose ==
    "useAfterClose" \notin ub

\* A signal, once its handler runs, stops the process (main.cpp:117): violated.
GracefulStop ==
    (\E t \in Threads : hpc[t] # "none") ~> ~Up

\* README.md:30, "If change configuration file, restart the execution file", and then
\* readings go to the database again (README.md:5): violated for a changed mppt.
StoredAfterReconfiguration ==
    \A l \in lost : l.reason # "schema"

\* The poller's handler runs inside sqlite3Malloc and waits for its own mutex.
Stuck == hpc["poller"] = "close" /\ pollPc = "alloc"

\* The next cycle is due after the last value the clock takes.
OutOfTime == pollPc = "wait" /\ \A t \in Times : t < nextInterval

\* With -c the process ends by itself, also when inserts fail or signals arrive.
CountedRunEnds ==
    mainPc = "join" /\ configCount > 0 ~> ~Up \/ OutOfTime \/ Stuck

MainHandlesPaced == hpc["main"] # "none" /\ Interval > 0

\* A signal main takes ends the process, unless the poller is stuck in a handler of
\* its own: close() gets the connection's mutex once the poller pauses between cycles.
\* With an interval of 0 it never pauses, and the mutex owes a waiter nothing.
MainSignalEnds ==
    MainHandlesPaced ~> ~Up \/ Stuck

\* A cycle gets through all its devices, whichever of them fail.
EveryCycleEnds ==
    pollPc = "device" ~> pollPc \notin {"device"} \union InExec \/ Stuck
=============================================================================

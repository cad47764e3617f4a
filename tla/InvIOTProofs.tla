---------------------------- MODULE InvIOTProofs ----------------------------
(***************************************************************************)
(* Theorems about InvIOT, for every configuration, interval, clock and     *)
(* number of signals, crashes and restarts.  IInv is the inductive         *)
(* invariant; each of its parts says what one point of the program relies  *)
(* on.                                                                     *)
(***************************************************************************)
EXTENDS InvIOT, FiniteSetTheorems, TLAPS

\* okCount never passes index, an insert is under way for a device only, and no
\* thread outlives the process.
TurnOK ==
    /\ okCount <= index
    /\ ~Up => pollPc = "none"
    /\ pollPc \in InExec => index < conf.num

TypeInv == TypeOK /\ TurnOK

LEMMA IntervalNat ==
    ASSUME InvIOTAssumption, InvDbAssumption, conf \in ConfFiles
    PROVE  Interval \in Nat /\ conf.num \in Nat /\ conf.num <= MAX_INV_NUM
  <1>1. conf.duration \in Nat /\ conf.num \in 0 .. MAX_INV_NUM
    BY DEF InvIOTAssumption
  <1>2. conf.duration * MinuteTicks \in Nat
    BY <1>1 DEF InvIOTAssumption
  <1>3. Interval \in Nat
    BY <1>2 DEF Interval, InvIOTAssumption
  <1> QED BY <1>1, <1>3 DEF InvDbAssumption

LEMMA ColumnsNat ==
    ASSUME NEW dc \in Nat
    PROVE  CreateColumns(dc) \in Nat /\ InsertValues(dc) = CreateColumns(dc)
  BY DEF CreateColumns, InsertValues

LEMMA TypeInit ==
    ASSUME InvIOTAssumption, InvDbAssumption, Init
    PROVE  TypeInv
  BY DEF Init, TypeInv, TypeOK, TurnOK, Up, DbTypeOK, InExec, Threads, Sigs, InvIOTAssumption,
         InvDbAssumption, Events, Index, None, Key

LEMMA TypeGone ==
    ASSUME InvIOTAssumption, InvDbAssumption, TypeInv, ProcessGone,
           clock' \in Nat, solarConf' \in ConfFiles, used' \in [Events -> Nat],
           ub' \subseteq {"useAfterClose", "doubleClose"}
    PROVE  TypeInv'
  BY DEF ProcessGone, PollFresh, DbFresh, TypeInv, TypeOK, TurnOK, Up, DbTypeOK, InExec, Threads,
         Sigs, InvIOTAssumption, InvDbAssumption, Index, None, Key, fileVars

LEMMA SpendType ==
    ASSUME used \in [Events -> Nat], NEW e \in Events, Spend(e)
    PROVE  used' \in [Events -> Nat]
  BY DEF Spend, Events

LEMMA TypeMain ==
    ASSUME InvIOTAssumption, InvDbAssumption, TypeInv, MainStep \/ MainFails
    PROVE  TypeInv'
  <1> USE DEF TypeInv, TypeOK, TurnOK, Up, DbTypeOK, InExec, Threads, envVars, mainVars, pollVars,
              sigVars, histVars, dbVars, Events
  <1>1. CASE MainOpen
    BY <1>1 DEF MainOpen, DbOpen
  <1>2. CASE MainCreate
    <2>1. CASE createIdx < conf.num
      <3>1. createIdx \in Index /\ conf.dev[createIdx].mppt \in DcNum
        BY <2>1 DEF Index, InvIOTAssumption, InvDbAssumption
      <3>2. CreateColumns(conf.dev[createIdx].mppt) \in Nat
        BY <3>1, ColumnsNat DEF InvDbAssumption
      <3>3. DbTypeOK'
        BY <1>2, <2>1, <3>1, <3>2 DEF MainCreate, DbCreate
      <3>4. createIdx + 1 \in 0 .. MAX_INV_NUM
        BY <2>1, IntervalNat DEF InvDbAssumption
      <3> QED BY <1>2, <2>1, <3>3, <3>4 DEF MainCreate
    <2>2. CASE ~ (createIdx < conf.num)
      BY <1>2, <2>2 DEF MainCreate
    <2> QED BY <2>1, <2>2
  <1>3. CASE MainInstall
    BY <1>3 DEF MainInstall, Sigs
  <1>4. CASE MainSpawn
    BY <1>4, IntervalNat DEF MainSpawn, PollFresh
  <1>5. CASE MainJoin
    BY <1>5 DEF MainJoin
  <1>6. CASE MainClose
    BY <1>6 DEF MainClose, DbClose
  <1>7. CASE MainExit
    BY <1>7 DEF MainExit, DbDestroy
  <1>8. CASE MainEnd
    BY <1>8, TypeGone DEF MainEnd
  <1>9. CASE MainOpenFails
    BY <1>9, SpendType DEF MainOpenFails
  <1>10. CASE MainCreateFails
    BY <1>10, SpendType DEF MainCreateFails, DbClose
  <1>11. CASE MainSpawnFails
    BY <1>11, SpendType DEF MainSpawnFails
  <1> QED BY <1>1, <1>2, <1>3, <1>4, <1>5, <1>6, <1>7, <1>8, <1>9, <1>10, <1>11
          DEF MainStep, MainFails

LEMMA TypePoll ==
    ASSUME InvIOTAssumption, InvDbAssumption, TypeInv, PollStep
    PROVE  TypeInv'
  <1> USE DEF TypeInv, TypeOK, TurnOK, Up, DbTypeOK, InExec, Threads, envVars, mainVars, pollVars,
              sigVars, histVars, dbVars, Events
  <1>0. Interval \in Nat /\ conf.num \in Nat /\ conf.num <= MAX_INV_NUM
    BY IntervalNat
  <1>1. CASE PollBegin
    BY <1>0, <1>1 DEF PollBegin
  <1>2. CASE PollDisconnect
    <2>1. index \in Index /\ index + 1 \in 0 .. conf.num /\ okCount <= index + 1
      BY <1>0, <1>2 DEF PollDisconnect, AtDevice, Index, InvDbAssumption
    <2>2. failed' \subseteq Index /\ index' = index + 1 /\ UNCHANGED <<conf, okCount, pollPc>>
      BY <1>2, <2>1 DEF PollDisconnect
    <2>3. TurnOK'
      BY <1>2, <2>1, <2>2 DEF PollDisconnect, AtDevice
    <2> QED BY <1>2, <2>1, <2>2, <2>3 DEF PollDisconnect
  <1>3. CASE PollInsert
    BY <1>0, <1>3 DEF PollInsert, AtDevice
  <1>a. ASSUME index < conf.num, NEW r \in {"schema", "key", "io", "closed"}, Lose(r)
        PROVE  lost' \subseteq [table : Index, ts : Nat, reason : {"schema", "key", "io", "closed"}]
    BY <1>0, <1>a DEF Lose, Index, InvDbAssumption
  <1>b. ASSUME index < conf.num, InsertReturns, UNCHANGED conf
        PROVE  /\ okCount' <= index'
               /\ index' \in 0 .. conf.num /\ okCount' \in 0 .. conf.num
               /\ pollPc' = "device"
    BY <1>0, <1>b DEF InsertReturns
  <1>4. CASE PollInsertDangling
    <2>1. ub' \subseteq {"useAfterClose", "doubleClose"}
      BY <1>4 DEF PollInsertDangling
    <2>2. CASE ProcessGone
      BY <1>4, <2>1, <2>2, TypeGone DEF PollInsertDangling
    <2>3. CASE ~ ProcessGone
      BY <1>4, <2>1, <2>3, <1>a, <1>b DEF PollInsertDangling, AtDevice, InsertReturns
    <2> QED BY <2>2, <2>3
  <1>5. CASE ExecAlloc
    BY <1>5 DEF ExecAlloc, InExecSteps
  <1>6. CASE ExecPrepared
    BY <1>6 DEF ExecPrepared, InExecSteps
  <1>7. CASE ExecCommit
    <2>1. index \in Index /\ conf.dev[index].serial \in Serials
      BY <1>0, <1>7 DEF ExecCommit, Index, InvIOTAssumption, InvDbAssumption
    <2>2. DbTypeOK'
      BY <1>7, <2>1 DEF ExecCommit, DbInsert, RowKey, Key
    <2>3. runRows' \subseteq [table : Index, ts : Nat, serial : Serials]
      BY <1>7, <2>1 DEF ExecCommit
    <2> QED BY <1>7, <2>2, <2>3, <1>b DEF ExecCommit, InsertReturns
  <1>8. CASE ExecFails
    <2>1. used' \in [Events -> Nat]
      BY <1>8, SpendType DEF ExecFails
    <2>2. lost' \subseteq [table : Index, ts : Nat, reason : {"schema", "key", "io", "closed"}]
      BY <1>8, <1>a DEF ExecFails
    <2> QED BY <1>8, <2>1, <2>2, <1>b DEF ExecFails, InsertReturns
  <1>9. CASE CycleEnd
    BY <1>0, <1>9 DEF CycleEnd
  <1> QED BY <1>1, <1>2, <1>3, <1>4, <1>5, <1>6, <1>7, <1>8, <1>9 DEF PollStep

LEMMA TypeOthers ==
    ASSUME InvIOTAssumption, InvDbAssumption, TypeInv,
           \/ \E c \in Counts : MainStart(c)
           \/ \E t \in Threads, sig \in Sigs : Signal(t, sig)
           \/ \E t \in Threads : HandlerStep(t)
           \/ Tick \/ SetClock \/ EditConf \/ Crash
           \/ UNCHANGED vars
    PROVE  TypeInv'
  <1> USE DEF TypeInv, TypeOK, TurnOK, Up, DbTypeOK, InExec, envVars, mainVars, pollVars,
              sigVars, histVars, dbVars, Events
  <1>1. ASSUME NEW c \in Counts, MainStart(c) PROVE TypeInv'
    <2>1. conf' \in ConfFiles /\ configCount' \in Nat /\ conf'.num \in Nat
      BY <1>1 DEF MainStart, InvIOTAssumption, InvDbAssumption
    <2> QED BY <1>1, <2>1, SpendType DEF MainStart, PollFresh
  <1>2. ASSUME NEW t \in Threads, NEW sig \in Sigs, Signal(t, sig) PROVE TypeInv'
    <2>1. used' \in [Events -> Nat]
      BY <1>2, SpendType DEF Signal
    <2>2. CASE sig \in installed
      BY <1>2, <2>1, <2>2 DEF Signal, Threads
    <2>3. CASE sig \notin installed
      BY <1>2, <2>1, <2>3, TypeGone DEF Signal
    <2> QED BY <2>2, <2>3
  <1>3. ASSUME NEW t \in Threads, HandlerStep(t) PROVE TypeInv'
    <2>1. CASE HandlerClose(t)
      <3>1. CASE ProcessGone
        BY <2>1, <3>1, TypeGone DEF HandlerClose
      <3>2. CASE ~ ProcessGone
        BY <2>1, <3>2 DEF HandlerClose, DbClose, Threads
      <3> QED BY <3>1, <3>2
    <2>2. CASE HandlerExit(t)
      BY <2>2 DEF HandlerExit, DbDestroy, Threads
    <2>3. CASE HandlerEnd(t)
      BY <2>3, TypeGone DEF HandlerEnd
    <2> QED BY <1>3, <2>1, <2>2, <2>3 DEF HandlerStep
  <1>4. CASE Tick
    BY <1>4 DEF Tick, InvIOTAssumption
  <1>5. CASE SetClock
    BY <1>5, SpendType DEF SetClock, InvIOTAssumption
  <1>6. CASE EditConf
    BY <1>6, SpendType DEF EditConf
  <1>7. CASE Crash
    BY <1>7, SpendType, TypeGone DEF Crash
  <1>8. CASE UNCHANGED vars
    BY <1>8 DEF vars
  <1> QED BY <1>1, <1>2, <1>3, <1>4, <1>5, <1>6, <1>7, <1>8

LEMMA TypeStep ==
    ASSUME InvIOTAssumption, InvDbAssumption, TypeInv, [Next]_vars
    PROVE  TypeInv'
  BY TypeMain, TypePoll, TypeOthers DEF Next

\* Every variable keeps its type, whatever the threads, signals, crashes and edits do.
THEOREM TypeCorrect == Spec => []TypeOK
  <1> USE InvIOTAssumption, InvDbAssumption
  <1>1. Init => TypeInv
    BY TypeInit
  <1>2. TypeInv /\ [Next]_vars => TypeInv'
    BY TypeStep
  <1>3. TypeInv => TypeOK
    BY DEF TypeInv
  <1> QED BY <1>1, <1>2, <1>3, PTL DEF Spec

----------------------------------------------------------------------------
\* The inductive invariant.

\* The poller lives while main waits in pthread_join, and is joined before main closes.
ThreadInv ==
    /\ PollerExists => mainPc = "join"
    /\ pollPc = "ended" => mainPc \in {"join", "close", "exit", "ending"}

TableMade(i) == dcMap[i] = conf.dev[i].mppt /\ schema[i] # None

\* What the loop over db.create has done so far; a fresh process has an empty dc_map,
\* so map::insert never meets an entry.
TablesInv ==
    /\ mainPc \in {"down", "open"} =>
         createIdx = 0 /\ \A i \in Index : dcMap[i] = None
    /\ mainPc = "create" =>
         /\ createIdx <= conf.num
         /\ \A i \in Index : i < createIdx => TableMade(i)
         /\ \A i \in Index : i >= createIdx => dcMap[i] = None
    /\ mainPc \in {"sigint", "sigterm", "spawn", "join"} =>
         \A i \in Index : i < conf.num => TableMade(i)

\* While no signal was delivered, only main closes, and after the join.
ConnInv ==
    /\ used["signal"] = 0 =>
         /\ \A t \in Threads : hpc[t] = "none"
         /\ ub = {}
         /\ handle = "freed" => mainPc \in {"exit", "ending"}
         /\ ~dcAlive => mainPc = "ending"
    /\ CloseWaitsForStatement

InCycle == pollPc \in {"device"} \union InExec

\* Every row of this process lies an interval before the next cycle; those of the
\* current cycle belong to devices that had their turn.
SpacingInv ==
    /\ pollPc = "none" => runRows = {}
    /\ \A r \in runRows : r.serial = conf.dev[r.table].serial
    /\ \A r \in runRows : r.ts + Interval <= nextInterval
    /\ InCycle =>
         /\ nextInterval = now + Interval
         /\ \A r \in runRows : (r.ts = now /\ r.table < index) \/ r.ts + Interval <= now
    /\ ReadingsSpaced

WorkInv ==
    /\ pollPc \in InExec => Reads(index)
    /\ WorkHoursOnly

IInv == TypeInv /\ ThreadInv /\ TablesInv /\ ConnInv /\ SpacingInv /\ WorkInv

LEMMA ThreadStep ==
    ASSUME ThreadInv, TypeInv, [Next]_vars
    PROVE  ThreadInv'
  <1> USE DEF ThreadInv, TypeInv, TurnOK, Up, PollerExists, InExec, mainVars, pollVars
  <1>1. CASE MainStep \/ MainFails
    BY <1>1 DEF MainStep, MainFails, MainOpen, MainCreate, MainInstall, MainSpawn, MainJoin,
                MainClose, MainExit, MainEnd, ProcessGone, MainOpenFails, MainCreateFails,
                MainSpawnFails
  <1>2. CASE PollStep
    BY <1>2 DEF PollStep, PollBegin, PollDisconnect, PollInsert, PollInsertDangling, AtDevice,
                InsertReturns, ProcessGone, ExecAlloc, ExecPrepared, InExecSteps, ExecCommit,
                ExecFails, CycleEnd
  <1>3. ASSUME NEW c \in Counts, MainStart(c) PROVE ThreadInv'
    BY <1>3 DEF MainStart
  <1>4. ASSUME NEW t \in Threads, NEW sig \in Sigs, Signal(t, sig) PROVE ThreadInv'
    BY <1>4 DEF Signal, ProcessGone
  <1>5. ASSUME NEW t \in Threads, HandlerStep(t) PROVE ThreadInv'
    BY <1>5 DEF HandlerStep, HandlerClose, HandlerExit, HandlerEnd, ProcessGone
  <1>6. CASE Tick \/ SetClock \/ EditConf \/ Crash \/ UNCHANGED vars
    BY <1>6 DEF Tick, SetClock, EditConf, Crash, ProcessGone, vars
  <1> QED BY <1>1, <1>2, <1>3, <1>4, <1>5, <1>6 DEF Next

LEMMA TablesGone ==
    ASSUME ProcessGone
    PROVE  TablesInv'
  BY DEF ProcessGone, DbFresh, TablesInv

LEMMA TablesStep ==
    ASSUME InvIOTAssumption, InvDbAssumption, TablesInv, TypeInv, ThreadInv, [Next]_vars
    PROVE  TablesInv'
  <1> USE DEF TablesInv, TableMade, mainVars, dbVars
  <1>1. CASE MainOpen
    BY <1>1, IntervalNat DEF MainOpen, DbOpen, TypeInv, TypeOK, Index
  <1>2. CASE MainCreate
    <2>1. CASE createIdx < conf.num
      <3>1. createIdx \in Index /\ conf.num \in Nat /\ createIdx + 1 <= conf.num
        BY <2>1, IntervalNat DEF Index, InvDbAssumption, TypeInv, TypeOK
      <3>a. dcMap[createIdx] = None
        BY <1>2, <3>1 DEF MainCreate, TypeInv, TypeOK, Index
      <3>b. conf.dev[createIdx].mppt \in Nat
        BY <3>1 DEF InvIOTAssumption, InvDbAssumption, TypeInv, TypeOK
      <3>2. dcMap[createIdx] = None /\ conf.dev[createIdx].mppt \in Nat
        BY <3>a, <3>b
      <3>3. CreateColumns(conf.dev[createIdx].mppt) # None
        BY <3>2, ColumnsNat DEF None
      <3>4. /\ dcMap' = [dcMap EXCEPT ![createIdx] = conf.dev[createIdx].mppt]
            /\ schema'[createIdx] # None
            /\ \A i \in Index : i # createIdx => schema'[i] = schema[i]
            /\ UNCHANGED <<conf, mainPc>> /\ createIdx' = createIdx + 1
        BY <1>2, <2>1, <3>1, <3>2, <3>3 DEF MainCreate, DbCreate, TypeInv, TypeOK, DbTypeOK
      <3> QED BY <1>2, <3>1, <3>4 DEF MainCreate, TypeInv, TypeOK, DbTypeOK, Index
    <2>2. CASE ~ (createIdx < conf.num)
      BY <1>2, <2>2, IntervalNat DEF MainCreate, TypeInv, TypeOK, Index
    <2> QED BY <2>1, <2>2
  <1>3. CASE MainInstall \/ MainSpawn \/ MainJoin \/ MainOpenFails \/ MainSpawnFails
    BY <1>3 DEF MainInstall, MainSpawn, MainJoin, MainOpenFails, MainSpawnFails
  <1>4. CASE MainClose \/ MainExit \/ MainCreateFails
    BY <1>4 DEF MainClose, MainExit, MainCreateFails, DbClose, DbDestroy
  <1>5. CASE PollStep
    <2>1. CASE ProcessGone
      BY <2>1, TablesGone
    <2>2. CASE ~ ProcessGone
      BY <1>5, <2>2
         DEF PollStep, PollBegin, PollDisconnect, PollInsert, PollInsertDangling,
             ExecAlloc, ExecPrepared, InExecSteps, ExecCommit, DbInsert, ExecFails, CycleEnd
    <2> QED BY <2>1, <2>2
  <1>6. ASSUME NEW c \in Counts, MainStart(c) PROVE TablesInv'
    BY <1>6 DEF MainStart, Up
  <1>7. ASSUME NEW t \in Threads, NEW sig \in Sigs, Signal(t, sig) PROVE TablesInv'
    BY <1>7, TablesGone DEF Signal
  <1>8. ASSUME NEW t \in Threads, HandlerStep(t) PROVE TablesInv'
    <2>1. CASE ProcessGone
      BY <2>1, TablesGone
    <2>2. CASE ~ ProcessGone
      BY <1>8, <2>2 DEF HandlerStep, HandlerClose, HandlerExit, HandlerEnd, DbClose, DbDestroy
    <2> QED BY <2>1, <2>2
  <1>9. CASE Tick \/ SetClock \/ EditConf \/ UNCHANGED vars
    BY <1>9 DEF Tick, SetClock, EditConf, vars
  <1>10. CASE Crash \/ MainEnd
    BY <1>10, TablesGone DEF Crash, MainEnd
  <1> QED BY <1>1, <1>2, <1>3, <1>4, <1>5, <1>6, <1>7, <1>8, <1>9, <1>10
          DEF Next, MainStep, MainFails

\* In a process that has received no signal, only main's own end touches the connection.
LEMMA ConnStep ==
    ASSUME ConnInv, TypeInv, ThreadInv, [Next]_vars
    PROVE  ConnInv'
  <1> USE DEF ConnInv, CloseWaitsForStatement, Runs, InExec, TypeInv, TypeOK, DbTypeOK, Events,
              envVars, mainVars, pollVars, sigVars, histVars, dbVars
  <1>1. CASE ProcessGone /\ UNCHANGED ub /\ used'["signal"] >= used["signal"]
    BY <1>1 DEF ProcessGone, DbFresh, Threads
  <1>2. CASE MainStep \/ MainFails
    <2>1. CASE MainOpen \/ MainCreate \/ MainInstall \/ MainSpawn \/ MainJoin
      BY <2>1 DEF MainOpen, DbOpen, MainCreate, DbCreate, MainInstall, MainSpawn, MainJoin
    <2>2. CASE MainClose \/ MainExit
      BY <2>2 DEF MainClose, MainExit, DbClose, DbDestroy, ThreadInv, PollerExists
    <2>3. CASE MainFails
      BY <2>3 DEF MainFails, MainOpenFails, MainCreateFails, MainSpawnFails, Spend, DbClose,
                  ThreadInv, PollerExists
    <2>4. CASE MainEnd
      BY <1>1, <2>4 DEF MainEnd
    <2> QED BY <1>2, <2>1, <2>2, <2>3, <2>4 DEF MainStep
  <1>3. CASE PollStep
    <2>1. CASE PollInsertDangling
      <3>1. used["signal"] # 0
        BY <2>1 DEF PollInsertDangling, AtDevice, ThreadInv, PollerExists
      <3>2. pollPc' \notin InExec /\ UNCHANGED used
        BY <2>1 DEF PollInsertDangling, InsertReturns, ProcessGone
      <3> QED BY <3>1, <3>2
    <2>2. CASE ~PollInsertDangling
      BY <1>3, <2>2 DEF PollStep, PollBegin, PollDisconnect, PollInsert, AtDevice, ExecAlloc,
         ExecPrepared, InExecSteps, ExecCommit, ExecFails, CycleEnd, DbInsert, InsertReturns, Spend
    <2> QED BY <2>1, <2>2
  <1>4. ASSUME NEW c \in Counts, MainStart(c) PROVE ConnInv'
    BY <1>4 DEF MainStart, Spend, Up
  <1>5. ASSUME NEW t \in Threads, NEW sig \in Sigs, Signal(t, sig) PROVE ConnInv'
    <2>1. used'["signal"] > 0
      BY <1>5 DEF Signal, Spend
    <2>2. CloseWaitsForStatement'
      BY <1>5 DEF Signal, ProcessGone, DbFresh, Threads
    <2> QED BY <2>1, <2>2
  <1>6. ASSUME NEW t \in Threads, HandlerStep(t) PROVE ConnInv'
    <2>1. used["signal"] # 0 /\ UNCHANGED used
      BY <1>6 DEF HandlerStep, HandlerClose, HandlerExit, HandlerEnd
    <2>2. CloseWaitsForStatement'
      BY <1>6 DEF HandlerStep, HandlerClose, HandlerExit, HandlerEnd, ProcessGone, DbFresh,
                  DbClose, DbDestroy, Threads
    <2> QED BY <2>1, <2>2
  <1>7. CASE Tick \/ SetClock \/ EditConf \/ UNCHANGED vars
    BY <1>7 DEF Tick, SetClock, EditConf, Spend, vars
  <1>8. CASE Crash
    BY <1>1, <1>8 DEF Crash, Spend
  <1> QED BY <1>2, <1>3, <1>4, <1>5, <1>6, <1>7, <1>8 DEF Next

LEMMA SpacingGone ==
    ASSUME ProcessGone
    PROVE  SpacingInv'
  BY DEF ProcessGone, SpacingInv, ReadingsSpaced, InCycle, InExec

\* The variables SpacingInv speaks of, or the process, are gone or unchanged.
LEMMA SpacingFrame ==
    ASSUME SpacingInv, UNCHANGED <<runRows, conf, nextInterval, now, index>>,
           pollPc' = pollPc \/ (pollPc' \in InExec /\ pollPc \in InExec \union {"device"})
                           \/ (pollPc' \in {"wait", "ended"})
    PROVE  SpacingInv'
  BY DEF SpacingInv, ReadingsSpaced, InCycle, InExec, Interval

LEMMA SpacingStep ==
    ASSUME InvIOTAssumption, InvDbAssumption, SpacingInv, TypeInv, ThreadInv, [Next]_vars
    PROVE  SpacingInv'
  <1> USE DEF mainVars, pollVars, histVars
  <1>0. Interval \in Nat /\ now \in Nat /\ index \in Nat /\ clock \in Nat /\ nextInterval \in Nat
        /\ \A r \in runRows : r.ts \in Nat /\ r.table \in Nat
    BY IntervalNat DEF TypeInv, TypeOK, Index, InvDbAssumption
  <1>1. CASE MainStep \/ MainFails
    <2>1. CASE MainEnd
      BY <2>1, SpacingGone DEF MainEnd
    <2>2. CASE MainSpawn
      BY <2>2 DEF MainSpawn, SpacingInv, ThreadInv, PollerExists, TypeInv, TypeOK, InExec,
                  InCycle, ReadingsSpaced
    <2>3. CASE ~MainEnd /\ ~MainSpawn
      BY <1>1, <2>3, SpacingFrame
         DEF MainStep, MainFails, MainOpen, MainCreate, MainInstall, MainJoin, MainClose, MainExit,
             MainOpenFails, MainCreateFails, MainSpawnFails
    <2> QED BY <2>1, <2>2, <2>3
  <1>2. CASE PollBegin
    BY <1>0, <1>2 DEF PollBegin, SpacingInv, ReadingsSpaced, InCycle, InExec, Interval
  <1>3. CASE PollDisconnect \/ PollInsertDangling \/ ExecFails
    <2>1. CASE ProcessGone
      BY <2>1, SpacingGone
    <2>2. CASE ~ProcessGone
      BY <1>0, <1>3, <2>2
         DEF PollDisconnect, PollInsertDangling, ExecFails, AtDevice, InsertReturns, SpacingInv,
             ReadingsSpaced, InCycle, InExec, Interval
    <2> QED BY <2>1, <2>2
  <1>4. CASE PollInsert \/ ExecAlloc \/ ExecPrepared \/ CycleEnd
    BY <1>4, SpacingFrame
       DEF PollInsert, AtDevice, ExecAlloc, ExecPrepared, InExecSteps, CycleEnd, InExec
  <1>5. CASE ExecCommit
    <2> DEFINE row == [table |-> index, ts |-> now, serial |-> conf.dev[index].serial]
    <2>1. /\ runRows' = runRows \union {row}
          /\ UNCHANGED <<conf, nextInterval, now>>
          /\ index' = index + 1 /\ pollPc' = "device" /\ Interval' = Interval
      BY <1>5 DEF ExecCommit, InsertReturns, Interval
    <2>2. /\ nextInterval = now + Interval
          /\ \A r \in runRows : (r.ts = now /\ r.table < index) \/ r.ts + Interval <= now
          /\ ReadingsSpaced
      BY <1>5 DEF ExecCommit, SpacingInv, InCycle, InExec
    <2>3. \A r \in runRows' : (r.ts = now /\ r.table < index + 1) \/ r.ts + Interval <= now
      BY <1>0, <2>1, <2>2
    <2>4. ReadingsSpaced'
      BY <1>0, <2>1, <2>2 DEF ReadingsSpaced
    <2>5. \A r \in runRows' : r.serial = conf.dev[r.table].serial /\ r.ts + Interval <= nextInterval
      BY <1>0, <2>1, <2>2 DEF SpacingInv
    <2> QED BY <2>1, <2>2, <2>3, <2>4, <2>5 DEF SpacingInv, InCycle, InExec
  <1>6. ASSUME NEW c \in Counts, MainStart(c) PROVE SpacingInv'
    BY <1>6 DEF MainStart, TypeInv, TurnOK, SpacingInv, ReadingsSpaced, InCycle, InExec
  <1>7. ASSUME NEW t \in Threads, NEW sig \in Sigs, Signal(t, sig) PROVE SpacingInv'
    BY <1>7, SpacingGone, SpacingFrame DEF Signal
  <1>8. ASSUME NEW t \in Threads, HandlerStep(t) PROVE SpacingInv'
    BY <1>8, SpacingGone, SpacingFrame DEF HandlerStep, HandlerClose, HandlerExit, HandlerEnd
  <1>9. CASE Tick \/ SetClock \/ EditConf \/ UNCHANGED vars
    BY <1>9, SpacingFrame DEF Tick, SetClock, EditConf, vars
  <1>10. CASE Crash
    BY <1>10, SpacingGone DEF Crash
  <1> QED BY <1>1, <1>2, <1>3, <1>4, <1>5, <1>6, <1>7, <1>8, <1>9, <1>10 DEF Next, PollStep

LEMMA WorkStep ==
    ASSUME InvIOTAssumption, InvDbAssumption, WorkInv, TypeInv, [Next]_vars
    PROVE  WorkInv'
  <1> USE DEF WorkInv, mainVars, pollVars, dbVars, fileVars, InExec
  <1>1. CASE ProcessGone
    BY <1>1 DEF ProcessGone, WorkHoursOnly
  <1>2. CASE ExecCommit
    <2>1. index \in Index /\ AtWork(now) /\ pollPc' = "device"
      BY <1>2, IntervalNat DEF ExecCommit, Reads, TypeInv, TurnOK, TypeOK, Index, InsertReturns,
                               InvDbAssumption
    <2>2. rows' = [rows EXCEPT ![index] = @ \union {RowKey}] /\ RowKey.ts = now
      BY <1>2 DEF ExecCommit, DbInsert, RowKey
    <2>3. \A i \in Index : \A r \in rows'[i] : AtWork(r.ts)
      BY <2>1, <2>2 DEF WorkHoursOnly, TypeInv, TypeOK, DbTypeOK
    <2> QED BY <2>1, <2>3 DEF WorkHoursOnly
  <1>3. CASE MainStep \/ MainFails
    <2>1. CASE MainEnd
      BY <1>1, <2>1 DEF MainEnd
    <2>2. CASE ~MainEnd
      BY <1>3, <2>2 DEF MainStep, MainFails, MainOpen, DbOpen, MainCreate, DbCreate, MainInstall,
           MainSpawn, MainJoin, MainClose, DbClose, MainExit, DbDestroy, MainOpenFails,
           MainCreateFails, MainSpawnFails, WorkHoursOnly, Reads
    <2> QED BY <2>1, <2>2
  <1>4. CASE PollStep /\ ~ExecCommit
    BY <1>1, <1>4 DEF PollStep, PollBegin, PollDisconnect, PollInsert, PollInsertDangling,
         AtDevice, InsertReturns, ExecAlloc, ExecPrepared, InExecSteps, ExecFails, CycleEnd,
         WorkHoursOnly, Reads
  <1>5. ASSUME NEW c \in Counts, MainStart(c) PROVE WorkInv'
    BY <1>5 DEF MainStart, TypeInv, TurnOK, WorkHoursOnly
  <1>6. ASSUME NEW t \in Threads, NEW sig \in Sigs, Signal(t, sig) PROVE WorkInv'
    BY <1>1, <1>6 DEF Signal, WorkHoursOnly, Reads
  <1>7. ASSUME NEW t \in Threads, HandlerStep(t) PROVE WorkInv'
    BY <1>1, <1>7 DEF HandlerStep, HandlerClose, HandlerExit, HandlerEnd, DbClose, DbDestroy,
         WorkHoursOnly, Reads
  <1>8. CASE Tick \/ SetClock \/ EditConf \/ Crash \/ UNCHANGED vars
    BY <1>1, <1>8 DEF Tick, SetClock, EditConf, Crash, vars, WorkHoursOnly, Reads
  <1> QED BY <1>2, <1>3, <1>4, <1>5, <1>6, <1>7, <1>8 DEF Next

LEMMA IInvInit ==
    ASSUME InvIOTAssumption, InvDbAssumption, Init
    PROVE  IInv
  <1>1. TypeInv
    BY TypeInit
  <1>2. ThreadInv /\ TablesInv
    BY DEF Init, ThreadInv, TablesInv, PollerExists
  <1>3. ConnInv
    BY DEF Init, ConnInv, CloseWaitsForStatement, InExec, Threads, Events
  <1>4. SpacingInv /\ WorkInv
    BY DEF Init, SpacingInv, WorkInv, WorkHoursOnly, ReadingsSpaced, InCycle, InExec
  <1> QED BY <1>1, <1>2, <1>3, <1>4 DEF IInv

LEMMA IInvHolds == Spec => []IInv
  <1> USE InvIOTAssumption, InvDbAssumption
  <1>1. Init => IInv
    BY IInvInit
  <1>2. IInv /\ [Next]_vars => IInv'
    BY TypeStep, ThreadStep, TablesStep, ConnStep, SpacingStep, WorkStep DEF IInv
  <1> QED BY <1>1, <1>2, PTL DEF Spec

\* inv_db::insert finds its dc_map entry and its table, so dc_map.at never throws.
THEOREM DcMapIsTotal == Spec => []DcMapTotal
  <1>1. IInv => DcMapTotal
    <2> SUFFICES ASSUME IInv, PollerExists, NEW i \in 0 .. conf.num - 1
                 PROVE  dcMap[i] = conf.dev[i].mppt /\ schema[i] # None
      BY DEF DcMapTotal
    <2>1. i \in Index /\ i < conf.num
      BY IntervalNat, InvIOTAssumption, InvDbAssumption DEF IInv, TypeInv, TypeOK, Index,
         InvDbAssumption
    <2> QED BY <2>1 DEF IInv, ThreadInv, TablesInv, TableMade
  <1> QED BY <1>1, IInvHolds, PTL

\* Readings are stored under times of day between 4:00 and 20:00 only, however long a cycle
\* takes, and one process stores two readings of a device at least the interval apart, however
\* the clock is set.
THEOREM OnSchedule == Spec => []ReadingsOnSchedule
  <1>1. IInv => ReadingsOnSchedule
    BY DEF IInv, WorkInv, SpacingInv, ReadingsOnSchedule
  <1> QED BY <1>1, IInvHolds, PTL

\* Nothing is used after close, nor closed twice, in a process that gets no signal.
THEOREM UndefinedOnlyUnderSignal == Spec => []UbOnlyUnderSignal
  <1>1. IInv => UbOnlyUnderSignal
    <2> SUFFICES ASSUME IInv, ub # {} PROVE used["signal"] > 0
      BY DEF UbOnlyUnderSignal
    <2>1. used["signal"] \in Nat
      BY DEF IInv, TypeInv, TypeOK, Events
    <2>2. used["signal"] # 0
      BY DEF IInv, ConnInv
    <2> QED BY <2>1, <2>2
  <1> QED BY <1>1, IInvHolds, PTL

\* A handler's close() never frees the connection under the poller's statement.
THEOREM CloseWaits == Spec => []CloseWaitsForStatement
  <1>1. IInv => CloseWaitsForStatement
    BY DEF IInv, ConnInv
  <1> QED BY <1>1, IInvHolds, PTL

----------------------------------------------------------------------------
\* The store implements the abstract log.

\* Steps that leave the store, the cycle and the loaded interval alone.
LEMMA LogStutter ==
    ASSUME UNCHANGED <<rows, conf, nextInterval, now, index>>
    PROVE  UNCHANGED Log!logVars
  BY DEF Log!logVars, LogEntries, Interval

LEMMA LogBegin ==
    ASSUME UNCHANGED rows, PollFresh, Interval' \in Nat
    PROVE  Log!Begin
  BY DEF Log!Begin, PollFresh, LogEntries

LEMMA LogGone ==
    ASSUME InvIOTAssumption, InvDbAssumption, TypeInv, ProcessGone
    PROVE  Log!Begin
  <1>1. Interval' \in Nat
    BY IntervalNat DEF ProcessGone, Interval, TypeInv, TypeOK
  <1> QED BY <1>1, LogBegin DEF ProcessGone, fileVars

LEMMA LogCommit ==
    ASSUME InvIOTAssumption, InvDbAssumption, TypeInv, WorkInv, ExecCommit
    PROVE  \E serial \in Serials : Log!Record(serial)
  <1> DEFINE s == conf.dev[index].serial
             row == [table |-> index, ts |-> now, serial |-> s]
  <1>1. index \in Index /\ s \in Serials /\ AtWork(now)
    <2>1. index \in Index
      BY IntervalNat DEF ExecCommit, TypeInv, TurnOK, TypeOK, InExec, Index, InvDbAssumption
    <2>2. s \in Serials
      BY <2>1 DEF TypeInv, TypeOK, InvIOTAssumption
    <2>3. AtWork(now)
      BY DEF ExecCommit, WorkInv, Reads, InExec
    <2> QED BY <2>1, <2>2, <2>3
  <1>2. /\ RowKey = [ts |-> now, serial |-> s] /\ RowKey \notin rows[index]
        /\ rows' = [rows EXCEPT ![index] = rows[index] \union {RowKey}]
        /\ index' = index + 1 /\ UNCHANGED <<conf, nextInterval, now>>
    BY DEF ExecCommit, DbInsert, RowKey, InsertReturns, mainVars
  <1>3. row \notin LogEntries
    <2> SUFFICES ASSUME row \in LogEntries PROVE FALSE
      OBVIOUS
    <2>1. PICK i \in Index : \E r \in rows[i] :
            row = [table |-> i, ts |-> r.ts, serial |-> r.serial]
      BY DEF LogEntries
    <2>2. PICK r \in rows[i] : row = [table |-> i, ts |-> r.ts, serial |-> r.serial]
      BY <2>1
    <2>3. i = index /\ r.ts = now /\ r.serial = s
      BY <2>2
    <2>4. r \in Key
      BY <2>2 DEF TypeInv, TypeOK, DbTypeOK
    <2>5. r = RowKey
      BY <1>2, <2>3, <2>4 DEF Key
    <2> QED BY <1>2, <2>2, <2>3, <2>5
  <1>4. LogEntries' = LogEntries \union {row}
    <2>1. rows'[index] = rows[index] \union {RowKey}
      BY <1>1, <1>2 DEF TypeInv, TypeOK, DbTypeOK
    <2>2. \A i \in Index : i # index => rows'[i] = rows[i]
      BY <1>2 DEF TypeInv, TypeOK, DbTypeOK
    <2>3. row = [table |-> index, ts |-> RowKey.ts, serial |-> RowKey.serial]
      BY <1>2
    <2>4. ASSUME NEW e \in LogEntries' PROVE e \in LogEntries \union {row}
      <3>1. PICK i \in Index : \E r \in rows'[i] :
              e = [table |-> i, ts |-> r.ts, serial |-> r.serial]
        BY <2>4 DEF LogEntries
      <3>2. PICK r \in rows'[i] : e = [table |-> i, ts |-> r.ts, serial |-> r.serial]
        BY <3>1
      <3>3. r \in rows[i] \/ (i = index /\ r = RowKey)
        BY <2>1, <2>2, <3>2
      <3> QED BY <2>3, <3>2, <3>3 DEF LogEntries
    <2>5. ASSUME NEW e \in LogEntries PROVE e \in LogEntries'
      <3>1. PICK i \in Index : \E r \in rows[i] :
              e = [table |-> i, ts |-> r.ts, serial |-> r.serial]
        BY <2>5 DEF LogEntries
      <3>2. rows[i] \subseteq rows'[i]
        BY <2>1, <2>2
      <3> QED BY <3>1, <3>2 DEF LogEntries
    <2>6. row \in LogEntries'
      BY <1>1, <2>1, <2>3 DEF LogEntries
    <2> QED BY <2>4, <2>5, <2>6
  <1>5. Interval' = Interval
    BY <1>2 DEF Interval
  <1> QED BY <1>1, <1>2, <1>3, <1>4, <1>5 DEF Log!Record

LEMMA LogStep ==
    ASSUME InvIOTAssumption, InvDbAssumption, IInv, [Next]_vars
    PROVE  [Log!Next]_Log!logVars
  <1> USE DEF mainVars, pollVars, dbVars
  <1>0. TypeInv /\ WorkInv /\ Interval \in Nat
    BY IntervalNat DEF IInv, TypeInv, TypeOK
  <1>1. CASE ProcessGone
    BY <1>0, <1>1, LogGone DEF Log!Next
  <1>2. CASE MainStep \/ MainFails
    <2>1. CASE MainSpawn
      BY <1>0, <2>1, LogBegin DEF MainSpawn, Interval, Log!Next
    <2>2. CASE ~MainSpawn
      BY <1>1, <1>2, <2>2, LogStutter
         DEF MainStep, MainFails, MainOpen, DbOpen, MainCreate, DbCreate, MainInstall, MainJoin,
             MainClose, DbClose, MainExit, DbDestroy, MainEnd, MainOpenFails, MainCreateFails,
             MainSpawnFails
    <2> QED BY <2>1, <2>2
  <1>3. CASE PollBegin
    <2>1. clock \in Nat /\ UNCHANGED LogEntries /\ UNCHANGED Interval
      BY <1>0, <1>3 DEF PollBegin, LogEntries, Interval, TypeInv, TypeOK
    <2> QED BY <1>3, <2>1 DEF PollBegin, Log!Round, Log!Next
  <1>4. CASE PollDisconnect \/ PollInsertDangling \/ ExecFails
    <2>1. CASE ~ProcessGone
      <3>1. index' = index + 1 /\ UNCHANGED <<rows, conf, nextInterval, now>>
        BY <1>4, <2>1 DEF PollDisconnect, PollInsertDangling, ExecFails, InsertReturns
      <3>2. UNCHANGED <<LogEntries, Interval>>
        BY <3>1 DEF LogEntries, Interval
      <3> QED BY <3>1, <3>2 DEF Log!Skip, Log!Next
    <2> QED BY <1>1, <2>1
  <1>5. CASE PollInsert \/ ExecAlloc \/ ExecPrepared \/ CycleEnd
    BY <1>5, LogStutter DEF PollInsert, ExecAlloc, ExecPrepared, InExecSteps, CycleEnd
  <1>6. CASE ExecCommit
    BY <1>0, <1>6, LogCommit DEF Log!Next
  <1>7. ASSUME NEW c \in Counts, MainStart(c) PROVE [Log!Next]_Log!logVars
    <2>1. conf' \in ConfFiles
      BY <1>0, <1>7 DEF MainStart, TypeInv, TypeOK
    <2>2. Interval' \in Nat
      BY <2>1, IntervalNat DEF Interval, InvIOTAssumption
    <2> QED BY <1>7, <2>2, LogBegin DEF MainStart, Log!Next
  <1>8. ASSUME NEW t \in Threads, NEW sig \in Sigs, Signal(t, sig)
        PROVE  [Log!Next]_Log!logVars
    BY <1>1, <1>8, LogStutter DEF Signal
  <1>9. ASSUME NEW t \in Threads, HandlerStep(t) PROVE [Log!Next]_Log!logVars
    BY <1>1, <1>9, LogStutter
       DEF HandlerStep, HandlerClose, HandlerExit, HandlerEnd, DbClose, DbDestroy
  <1>10. CASE Tick \/ SetClock \/ EditConf \/ Crash \/ UNCHANGED vars
    BY <1>1, <1>10, LogStutter DEF Tick, SetClock, EditConf, Crash, vars
  <1> QED BY <1>2, <1>3, <1>4, <1>5, <1>6, <1>7, <1>8, <1>9, <1>10 DEF Next, PollStep

\* The process, with its store, implements ReadingLog.
THEOREM ImplementsLog == Spec => KeepsLog
  <1> USE InvIOTAssumption, InvDbAssumption
  <1>1. Init => Log!Init
    <2> SUFFICES ASSUME Init PROVE Log!Init
      OBVIOUS
    <2>1. Interval \in Nat
      BY TypeInit, IntervalNat DEF TypeInv, TypeOK
    <2>2. LogEntries = {}
      BY DEF Init, LogEntries
    <2> QED BY <2>1, <2>2 DEF Init, Log!Init
  <1>2. IInv /\ [Next]_vars => [Log!Next]_Log!logVars
    BY LogStep
  <1> QED BY <1>1, <1>2, IInvHolds, PTL DEF Spec, KeepsLog, Log!Spec

----------------------------------------------------------------------------
\* The cycles of option -c.

RowsOf(i) == {r \in runRows : r.table = i}

\* The turns device i has had in this process, if it is asked for a number of cycles.
Turns(i) == count + (IF InCycle /\ i < index THEN 1 ELSE 0)

\* The poller goes on below the number of cycles, and no device has more rows than turns.
CountInv ==
    configCount > 0 =>
        /\ InCycle \/ pollPc = "wait" => count < configCount
        /\ pollPc = "ended" => count = configCount
        /\ \A i \in Index : IsFiniteSet(RowsOf(i)) /\ Cardinality(RowsOf(i)) <= Turns(i)

\* A process that is gone has stored nothing.
LEMMA CountEmpty ==
    ASSUME runRows' = {}, count' = 0, pollPc' \in {"none", "wait"}
    PROVE  CountInv'
  <1>1. \A i : RowsOf(i)' = {}
    BY DEF RowsOf
  <1>2. \A i : Turns(i)' = 0
    BY DEF Turns, InCycle, InExec
  <1>3. ASSUME configCount' > 0 PROVE InCycle' \/ pollPc' = "wait" => count' < configCount'
    BY <1>3
  <1>4. pollPc' # "ended"
    OBVIOUS
  <1>5. IsFiniteSet({}) /\ Cardinality({}) = 0 /\ 0 <= 0
    BY FS_EmptySet
  <1> QED BY <1>1, <1>2, <1>3, <1>4, <1>5 DEF CountInv

\* The step is of another thread, or the turn of a device ends without a row.
LEMMA CountFrame ==
    ASSUME InvDbAssumption, CountInv, TypeOK, UNCHANGED <<runRows, configCount, count>>,
           \/ UNCHANGED <<pollPc, index>>
           \/ InCycle /\ InCycle' /\ index' \in {index, index + 1}
    PROVE  CountInv'
  <1>1. \A i : RowsOf(i)' = RowsOf(i)
    BY DEF RowsOf
  <1>2. count \in Nat /\ index \in Nat
    BY DEF TypeOK
  <1>3. \A i \in Index : Turns(i) <= Turns(i)' /\ Turns(i) \in Nat /\ Turns(i)' \in Nat
    <2> SUFFICES ASSUME NEW i \in Index
                 PROVE  Turns(i) <= Turns(i)' /\ Turns(i) \in Nat /\ Turns(i)' \in Nat
      OBVIOUS
    <2>1. i \in Nat
      BY DEF Index, InvDbAssumption
    <2> QED BY <1>2, <2>1 DEF Turns, InCycle
  <1>4. \A i \in Index : IsFiniteSet(RowsOf(i)) => Cardinality(RowsOf(i)) \in Nat
    BY FS_CardinalityType
  <1>5. ASSUME configCount > 0, NEW i \in Index
        PROVE  IsFiniteSet(RowsOf(i)') /\ Cardinality(RowsOf(i)') <= Turns(i)'
    BY <1>1, <1>3, <1>4, <1>5 DEF CountInv
  <1>6. InCycle' \/ pollPc' = "wait" => InCycle \/ pollPc = "wait"
    BY DEF InCycle
  <1>7. pollPc' = "ended" => pollPc = "ended"
    BY DEF InCycle, InExec
  <1> QED BY <1>5, <1>6, <1>7 DEF CountInv

\* A device's row is stored in its turn, so there is one turn for each.
LEMMA CountStep ==
    ASSUME InvIOTAssumption, InvDbAssumption, IInv, CountInv, [Next]_vars
    PROVE  CountInv'
  <1> USE DEF mainVars, pollVars, histVars
  <1>t. /\ TypeOK /\ count \in Nat /\ index \in Nat /\ configCount \in Nat
        /\ \A i \in Index : i \in Nat
        /\ ~Up => pollPc = "none"
        /\ pollPc = "none" => runRows = {}
        /\ conf.num \in Nat
    BY IntervalNat DEF IInv, TypeInv, TypeOK, TurnOK, SpacingInv, Index, InvDbAssumption
  <1>p. ASSUME ProcessGone PROVE CountInv'
    BY <1>p, CountEmpty DEF ProcessGone, PollFresh
  <1>f. ASSUME UNCHANGED <<runRows, configCount, count>>,
               \/ UNCHANGED <<pollPc, index>>
               \/ InCycle /\ InCycle' /\ index' \in {index, index + 1}
        PROVE  CountInv'
    BY <1>f, <1>t, CountFrame
  <1>1. CASE MainStep \/ MainFails
    <2>1. CASE MainSpawn
      <3>1. pollPc = "none" => runRows' = {}
        BY <1>t, <2>1 DEF MainSpawn
      <3>2. pollPc = "none"
        BY <2>1 DEF MainSpawn, IInv, ThreadInv, PollerExists
      <3> QED BY <2>1, <3>1, <3>2, CountEmpty DEF MainSpawn, PollFresh
    <2>2. CASE MainEnd
      BY <1>p, <2>2 DEF MainEnd
    <2>3. CASE ~MainSpawn /\ ~MainEnd
      BY <1>1, <1>f, <2>3
         DEF MainStep, MainFails, MainOpen, MainCreate, MainInstall, MainJoin, MainClose, MainExit,
             MainOpenFails, MainCreateFails, MainSpawnFails
    <2> QED BY <2>1, <2>2, <2>3
  <1>2. CASE PollBegin
    <2>1. /\ pollPc = "wait" /\ pollPc' = "device" /\ index' = 0
          /\ UNCHANGED <<runRows, configCount, count>>
      BY <1>2 DEF PollBegin
    <2>2. \A i \in Index : RowsOf(i)' = RowsOf(i) /\ Turns(i)' = Turns(i)
      BY <1>t, <2>1 DEF RowsOf, Turns, InCycle, InExec
    <2> QED BY <2>1, <2>2 DEF CountInv, InCycle
  <1>3. CASE PollDisconnect \/ PollInsert \/ ExecAlloc \/ ExecPrepared
    BY <1>3, <1>f
       DEF PollDisconnect, PollInsert, AtDevice, ExecAlloc, ExecPrepared, InExecSteps, InCycle, InExec
  <1>4. CASE PollInsertDangling \/ ExecFails
    <2>1. CASE ProcessGone
      BY <1>p, <2>1
    <2>2. CASE ~ProcessGone
      BY <1>4, <1>f, <2>2
         DEF PollInsertDangling, ExecFails, AtDevice, InsertReturns, InCycle, InExec
    <2> QED BY <2>1, <2>2
  <1>5. CASE ExecCommit
    <2> DEFINE row == [table |-> index, ts |-> now, serial |-> conf.dev[index].serial]
    <2>1. /\ runRows' = runRows \union {row} /\ InCycle /\ InCycle' /\ index' = index + 1
          /\ UNCHANGED <<configCount, count>> /\ pollPc' # "ended"
      BY <1>5 DEF ExecCommit, InsertReturns, InCycle, InExec
    <2>2. ASSUME configCount > 0, NEW i \in Index
          PROVE  IsFiniteSet(RowsOf(i)') /\ Cardinality(RowsOf(i)') <= Turns(i)'
      <3>1. IsFiniteSet(RowsOf(i)) /\ Cardinality(RowsOf(i)) <= Turns(i)
        BY <2>2 DEF CountInv
      <3>2. Cardinality(RowsOf(i)) \in Nat
        BY <3>1, FS_CardinalityType
      <3>3. CASE i = index
        <4>1. RowsOf(i)' = RowsOf(i) \union {row}
          BY <2>1, <3>3 DEF RowsOf
        <4>2. /\ IsFiniteSet(RowsOf(i) \union {row})
              /\ Cardinality(RowsOf(i) \union {row}) <= Cardinality(RowsOf(i)) + 1
          <5> DEFINE more == RowsOf(i) \union {row}
          <5>1. /\ IsFiniteSet(more)
                /\ Cardinality(more) = Cardinality(RowsOf(i))
                   \/ Cardinality(more) = Cardinality(RowsOf(i)) + 1
            BY <3>1, FS_AddElement
          <5> HIDE DEF more
          <5>2. Cardinality(more) <= Cardinality(RowsOf(i)) + 1
            BY <3>2, <5>1
          <5> QED BY <5>1, <5>2 DEF more
        <4>3. Turns(i) = count /\ Turns(i)' = count + 1
          BY <1>t, <2>1, <3>3 DEF Turns
        <4>4. Cardinality(RowsOf(i) \union {row}) \in Nat
          BY <4>2, FS_CardinalityType
        <4> QED BY <1>t, <3>1, <3>2, <4>1, <4>2, <4>3, <4>4
      <3>4. CASE i # index
        <4>1. RowsOf(i)' = RowsOf(i)
          BY <2>1, <3>4 DEF RowsOf
        <4>2. Turns(i)' = Turns(i)
          BY <1>t, <2>1, <3>4 DEF Turns
        <4> QED BY <3>1, <4>1, <4>2
      <3> QED BY <3>3, <3>4
    <2> QED BY <2>1, <2>2 DEF CountInv
  <1>6. CASE CycleEnd
    <2>1. /\ InCycle /\ ~InCycle' /\ pollPc' \in {"wait", "ended"}
          /\ UNCHANGED <<runRows, configCount>>
          /\ configCount > 0 =>
               /\ count' = count + 1
               /\ pollPc' = IF count + 1 >= configCount THEN "ended" ELSE "wait"
      BY <1>6 DEF CycleEnd, InCycle, InExec
    <2> SUFFICES ASSUME configCount > 0
                 PROVE  /\ pollPc' = "wait" => count' < configCount
                        /\ pollPc' = "ended" => count' = configCount
                        /\ \A i \in Index :
                             IsFiniteSet(RowsOf(i)') /\ Cardinality(RowsOf(i)') <= Turns(i)'
      BY <2>1 DEF CountInv
    <2>2. count < configCount
      BY <2>1 DEF CountInv
    <2>3. \A i \in Index : RowsOf(i)' = RowsOf(i) /\ Turns(i)' = count + 1
      BY <1>t, <2>1 DEF RowsOf, Turns
    <2>4. ASSUME NEW i \in Index
          PROVE  IsFiniteSet(RowsOf(i)') /\ Cardinality(RowsOf(i)') <= Turns(i)'
      <3>1. IsFiniteSet(RowsOf(i)) /\ Cardinality(RowsOf(i)) <= Turns(i)
        BY DEF CountInv
      <3>2. Cardinality(RowsOf(i)) \in Nat
        BY <3>1, FS_CardinalityType
      <3>3. Turns(i) <= count + 1
        BY <1>t DEF Turns
      <3>4. Turns(i) \in Nat
        BY <1>t DEF Turns
      <3> QED BY <1>t, <2>3, <3>1, <3>2, <3>3, <3>4
    <2> QED BY <1>t, <2>1, <2>2, <2>4
  <1>7. ASSUME NEW c \in Counts, MainStart(c) PROVE CountInv'
    BY <1>7, <1>t, CountEmpty DEF MainStart, PollFresh
  <1>8. ASSUME NEW t \in Threads, NEW sig \in Sigs, Signal(t, sig) PROVE CountInv'
    BY <1>8, <1>f, <1>p DEF Signal
  <1>9. ASSUME NEW t \in Threads, HandlerStep(t) PROVE CountInv'
    BY <1>9, <1>f, <1>p DEF HandlerStep, HandlerClose, HandlerExit, HandlerEnd
  <1>10. CASE Tick \/ SetClock \/ EditConf \/ Crash \/ UNCHANGED vars
    BY <1>10, <1>f, <1>p DEF Tick, SetClock, EditConf, Crash, vars
  <1> QED BY <1>1, <1>2, <1>3, <1>4, <1>5, <1>6, <1>7, <1>8, <1>9, <1>10 DEF Next, PollStep

\* With -c, no process stores more readings of a device than the cycles it was asked for, and
\* the poller returns after exactly so many.
THEOREM ReadingsCounted == Spec => []CountedReadings
  <1> USE InvIOTAssumption, InvDbAssumption
  <1>1. Init => CountInv
    <2> SUFFICES ASSUME Init PROVE CountInv
      OBVIOUS
    <2> QED BY DEF Init, CountInv
  <1>2. IInv /\ CountInv /\ [Next]_vars => CountInv'
    BY CountStep
  <1>3. IInv /\ CountInv => CountedReadings
    <2> SUFFICES ASSUME IInv, CountInv, configCount > 0
                 PROVE  /\ \A i \in Index : Cardinality(RowsOf(i)) <= configCount
                        /\ pollPc = "ended" => count = configCount
      BY DEF CountedReadings, RowsOf
    <2>1. count \in Nat /\ configCount \in Nat
      BY DEF IInv, TypeInv, TypeOK
    <2>2. ASSUME NEW i \in Index PROVE Cardinality(RowsOf(i)) <= configCount
      <3>1. Cardinality(RowsOf(i)) \in Nat /\ Cardinality(RowsOf(i)) <= Turns(i)
        BY FS_CardinalityType DEF CountInv
      <3>2. CASE pollPc = "none"
        <4>1. RowsOf(i) = {}
          BY <3>2 DEF IInv, SpacingInv, RowsOf
        <4> QED BY <2>1, <4>1, FS_EmptySet
      <3>3. CASE InCycle \/ pollPc = "wait"
        <4>1. count < configCount /\ Turns(i) <= count + 1 /\ Turns(i) \in Nat
          BY <2>1, <3>3 DEF CountInv, Turns
        <4> QED BY <2>1, <3>1, <4>1
      <3>4. CASE pollPc = "ended"
        <4>1. count = configCount /\ Turns(i) = count
          BY <2>1, <3>4 DEF CountInv, Turns, InCycle, InExec
        <4> QED BY <3>1, <4>1
      <3> QED BY <3>2, <3>3, <3>4 DEF IInv, TypeInv, TypeOK, InCycle
    <2> QED BY <2>2 DEF CountInv
  <1> QED BY <1>1, <1>2, <1>3, IInvHolds, PTL DEF Spec

----------------------------------------------------------------------------
\* Every turn of a device is accounted for.

LEMMA FailedFinite ==
    ASSUME InvDbAssumption, NEW S, S \subseteq Index
    PROVE  IsFiniteSet(S) /\ Cardinality(S) \in Nat
  <1>1. IsFiniteSet(Index)
    BY FS_Interval DEF Index, InvDbAssumption
  <1> QED BY <1>1, FS_Subset, FS_CardinalityType

LEMMA VerdictStep ==
    ASSUME InvIOTAssumption, InvDbAssumption, IInv, CycleVerdicts, [Next]_vars
    PROVE  CycleVerdicts'
  <1> USE DEF mainVars, pollVars, histVars
  <1>t. /\ TypeInv /\ index \in Nat /\ okCount \in Nat /\ failed \subseteq Index
        /\ Cardinality(failed) \in Nat /\ IsFiniteSet(failed)
        /\ conf.num \in Nat /\ conf.num <= MAX_INV_NUM
    BY FailedFinite, IntervalNat DEF IInv, TypeInv, TypeOK, InvDbAssumption
  <1>f. ASSUME UNCHANGED <<conf, okCount, index, failed, now, runRows, lost>>,
               InCycle' => InCycle
        PROVE  CycleVerdicts'
    BY <1>f DEF CycleVerdicts, InCycle, Reads
  <1>g. ASSUME ~InCycle' PROVE CycleVerdicts'
    BY <1>g DEF CycleVerdicts, InCycle
  <1>p. ASSUME ProcessGone PROVE CycleVerdicts'
    BY <1>g, <1>p DEF ProcessGone, InCycle, InExec
  <1>v. ASSUME pollPc = "device" \/ pollPc \in InExec
        PROVE  /\ okCount = index - Cardinality(failed)
               /\ failed = {j \in 0 .. index - 1 : ~Reads(j)}
               /\ \A j \in (0 .. index - 1) \ failed :
                    \/ [table |-> j, ts |-> now, serial |-> conf.dev[j].serial] \in runRows
                    \/ \E l \in lost : l.table = j /\ l.ts = now
    BY <1>v DEF CycleVerdicts
  <1>1. CASE MainStep \/ MainFails
    <2>1. CASE MainSpawn
      BY <1>g, <2>1 DEF MainSpawn, InCycle, InExec
    <2>2. CASE MainEnd
      BY <1>p, <2>2 DEF MainEnd
    <2>3. CASE ~MainSpawn /\ ~MainEnd
      BY <1>1, <1>f, <2>3
         DEF MainStep, MainFails, MainOpen, MainCreate, MainInstall, MainJoin, MainClose, MainExit,
             MainOpenFails, MainCreateFails, MainSpawnFails, InCycle
    <2> QED BY <2>1, <2>2, <2>3
  <1>2. CASE PollBegin
    <2>1. index' = 0 /\ okCount' = 0 /\ failed' = {}
      BY <1>2 DEF PollBegin
    <2>2. Cardinality({}) = 0
      BY FS_EmptySet
    <2> QED BY <2>1, <2>2 DEF CycleVerdicts
  <1>3. CASE PollDisconnect
    <2>1. /\ pollPc = "device" /\ ~Reads(index) /\ failed' = failed \union {index} /\ index' = index + 1
          /\ UNCHANGED <<conf, okCount, now, runRows, lost>>
      BY <1>3 DEF PollDisconnect, AtDevice
    <2>2. index \notin failed
      BY <1>t, <1>v, <2>1
    <2>3. Cardinality(failed') = Cardinality(failed) + 1
      BY <1>t, <2>1, <2>2, FS_AddElement
    <2>4. okCount' = index' - Cardinality(failed')
      BY <1>t, <1>v, <2>1, <2>3
    <2>5. \A j \in 0 .. index' - 1 : j \in 0 .. index - 1 \/ j = index
      BY <1>t, <2>1
    <2>6. \A j : Reads(j)' <=> Reads(j)
      BY <2>1 DEF Reads
    <2>7. failed' = {j \in 0 .. index' - 1 : ~Reads(j)'}
      BY <1>t, <1>v, <2>1, <2>5, <2>6
    <2> QED BY <1>v, <2>1, <2>4, <2>5, <2>7 DEF CycleVerdicts
  <1>4. ASSUME pollPc = "device" \/ pollPc \in InExec, Reads(index), InsertReturns, UNCHANGED conf,
               runRows \subseteq runRows', lost \subseteq lost',
               \/ [table |-> index, ts |-> now, serial |-> conf.dev[index].serial] \in runRows'
               \/ \E l \in lost' : l.table = index /\ l.ts = now
        PROVE  CycleVerdicts'
    <2>1. index' = index + 1 /\ okCount' = okCount + 1 /\ UNCHANGED <<now, failed, conf>>
      BY <1>4 DEF InsertReturns
    <2>2. okCount' = index' - Cardinality(failed')
      BY <1>4, <1>t, <1>v, <2>1
    <2>3. \A j \in 0 .. index' - 1 : j \in 0 .. index - 1 \/ j = index
      BY <1>t, <2>1
    <2>4. \A j : Reads(j)' <=> Reads(j)
      BY <2>1 DEF Reads
    <2>5. failed' = {j \in 0 .. index' - 1 : ~Reads(j)'}
      BY <1>4, <1>t, <1>v, <2>1, <2>3, <2>4
    <2>6. \A j \in (0 .. index' - 1) \ failed' :
            \/ [table |-> j, ts |-> now, serial |-> conf.dev[j].serial] \in runRows'
            \/ \E l \in lost' : l.table = j /\ l.ts = now
      BY <1>4, <1>v, <2>1, <2>3
    <2> QED BY <2>1, <2>2, <2>5, <2>6 DEF CycleVerdicts
  <1>l. ASSUME NEW reason, Lose(reason)
        PROVE  lost \subseteq lost' /\ \E l \in lost' : l.table = index /\ l.ts = now
    <2> DEFINE e == [table |-> index, ts |-> now, reason |-> reason]
    <2>1. lost' = lost \union {e} /\ e.table = index /\ e.ts = now
      BY <1>l DEF Lose
    <2> QED BY <2>1
  <1>5. CASE PollInsertDangling
    <2>1. CASE ProcessGone
      BY <1>p, <2>1
    <2>2. CASE ~ProcessGone
      BY <1>4, <1>5, <1>l, <2>2 DEF PollInsertDangling, AtDevice
    <2> QED BY <2>1, <2>2
  <1>6. CASE ExecCommit
    <2>1. pollPc \in InExec /\ InsertReturns /\ UNCHANGED <<conf, lost>>
      BY <1>6 DEF ExecCommit, InExec
    <2>2. runRows' = runRows \union {[table |-> index, ts |-> now, serial |-> conf.dev[index].serial]}
      BY <1>6 DEF ExecCommit
    <2> QED BY <1>4, <2>1, <2>2 DEF IInv, WorkInv
  <1>7. CASE ExecFails
    <2>1. pollPc \in InExec /\ InsertReturns /\ UNCHANGED <<conf, runRows>> /\ \E r : Lose(r)
      BY <1>7 DEF ExecFails, InExec
    <2> QED BY <1>4, <1>l, <2>1 DEF IInv, WorkInv
  <1>8. CASE PollInsert \/ ExecAlloc \/ ExecPrepared \/ CycleEnd
    BY <1>8, <1>f DEF PollInsert, AtDevice, ExecAlloc, ExecPrepared, InExecSteps, CycleEnd, InCycle,
                      InExec
  <1>9. ASSUME NEW c \in Counts, MainStart(c) PROVE CycleVerdicts'
    BY <1>9, <1>g, <1>t DEF MainStart, TypeInv, TurnOK, InCycle, InExec
  <1>10. ASSUME NEW t \in Threads, NEW sig \in Sigs, Signal(t, sig) PROVE CycleVerdicts'
    BY <1>10, <1>f, <1>p DEF Signal, InCycle
  <1>11. ASSUME NEW t \in Threads, HandlerStep(t) PROVE CycleVerdicts'
    BY <1>11, <1>f, <1>p DEF HandlerStep, HandlerClose, HandlerExit, HandlerEnd, InCycle
  <1>12. CASE Tick \/ SetClock \/ EditConf \/ Crash \/ UNCHANGED vars
    BY <1>12, <1>f, <1>p DEF Tick, SetClock, EditConf, Crash, vars, InCycle
  <1> QED BY <1>1, <1>2, <1>3, <1>5, <1>6, <1>7, <1>8, <1>9, <1>10, <1>11, <1>12
          DEF Next, PollStep

\* Within a cycle each device before index has the verdict it deserves, once.
THEOREM VerdictsOfCycle == Spec => []CycleVerdicts
  <1> USE InvIOTAssumption, InvDbAssumption
  <1>1. Init => CycleVerdicts
    BY DEF Init, CycleVerdicts, InExec
  <1>2. IInv /\ CycleVerdicts /\ [Next]_vars => CycleVerdicts'
    BY VerdictStep
  <1> QED BY <1>1, <1>2, IInvHolds, PTL DEF Spec

----------------------------------------------------------------------------
\* Every reading that is lost has a reason.

Row(i, key) == [table |-> i, ts |-> key.ts, serial |-> key.serial]

\* What the file holds comes from this process, unless another was started before it,
\* and has the columns of solar.conf, unless that was edited.
FileInv ==
    /\ used["start"] = 0 => ~Up /\ \A i \in Index : rows[i] = {} /\ schema[i] = None
    /\ used["start"] <= 1 /\ Up => \A i \in Index : \A key \in rows[i] : Row(i, key) \in runRows
    /\ used["edit"] = 0 =>
         /\ Up => conf = solarConf
         /\ \A i \in Index :
              schema[i] # None => schema[i] = CreateColumns(solarConf.dev[i].mppt)

\* Losses lie in the past as rows do, and no table changes after the first of them.
LostInv ==
    /\ lost # {} => mainPc \in {"join", "close", "exit", "ending"}
    /\ \A l \in lost : l.ts + Interval <= nextInterval
    /\ InCycle => \A l \in lost : (l.ts = now /\ l.table < index) \/ l.ts + Interval <= now
    /\ LossExplained

LEMMA UsedGrows ==
    ASSUME TypeInv, [Next]_vars, NEW e \in Events
    PROVE  used[e] \in Nat /\ used'[e] \in Nat /\ used[e] <= used'[e]
  <1>1. used \in [Events -> Nat]
    BY DEF TypeInv, TypeOK
  <1>2. ASSUME NEW x \in Events, Spend(x) PROVE used' = [used EXCEPT ![x] = @ + 1]
    BY <1>2 DEF Spend
  <1>3. UNCHANGED used \/ \E x \in Events : Spend(x)
    <2> USE DEF envVars, Events
    <2>1. CASE MainStep \/ MainFails
      BY <2>1 DEF MainStep, MainFails, MainOpen, MainCreate, MainInstall, MainSpawn, MainJoin,
                  MainClose, MainExit, MainEnd, MainOpenFails, MainCreateFails, MainSpawnFails
    <2>2. CASE PollStep
      BY <2>2 DEF PollStep, PollBegin, PollDisconnect, PollInsert, PollInsertDangling, ExecAlloc,
                  ExecPrepared, InExecSteps, ExecCommit, ExecFails, CycleEnd
    <2>3. CASE \E c \in Counts : MainStart(c)
      BY <2>3 DEF MainStart
    <2>4. CASE \E t \in Threads, sig \in Sigs : Signal(t, sig)
      BY <2>4 DEF Signal
    <2>5. CASE \E t \in Threads : HandlerStep(t)
      BY <2>5 DEF HandlerStep, HandlerClose, HandlerExit, HandlerEnd
    <2>6. CASE Tick \/ SetClock \/ EditConf \/ Crash \/ UNCHANGED vars
      BY <2>6 DEF Tick, SetClock, EditConf, Crash, vars
    <2> QED BY <2>1, <2>2, <2>3, <2>4, <2>5, <2>6 DEF Next
  <1> QED BY <1>1, <1>2, <1>3

LEMMA FileStep ==
    ASSUME InvIOTAssumption, InvDbAssumption, TypeInv, FileInv, [Next]_vars
    PROVE  FileInv'
  <1> USE DEF mainVars, pollVars, dbVars, fileVars, histVars, envVars
  <1>u. /\ used["start"] \in Nat /\ used'["start"] \in Nat /\ used["start"] <= used'["start"]
        /\ used["edit"] \in Nat /\ used'["edit"] \in Nat /\ used["edit"] <= used'["edit"]
    BY UsedGrows DEF Events
  <1>f. ASSUME UNCHANGED <<rows, schema, runRows, conf, solarConf>>, Up' <=> Up
        PROVE  FileInv'
    <2>1. /\ used'["start"] = 0 => used["start"] = 0
          /\ used'["start"] <= 1 => used["start"] <= 1
          /\ used'["edit"] = 0 => used["edit"] = 0
      BY <1>u
    <2> QED BY <1>f, <2>1 DEF FileInv
  <1>p. ASSUME ProcessGone, UNCHANGED solarConf PROVE FileInv'
    <2>1. UNCHANGED <<rows, schema, conf>> /\ ~Up'
      BY <1>p DEF ProcessGone, Up
    <2>2. /\ used'["start"] = 0 => used["start"] = 0
          /\ used'["edit"] = 0 => used["edit"] = 0
      BY <1>u
    <2> QED BY <1>p, <2>1, <2>2 DEF FileInv
  <1>1. CASE MainCreate
    <2>1. CASE createIdx < conf.num
      <3>1. createIdx \in Index /\ conf.num \in Nat
        BY <2>1, IntervalNat DEF Index, InvDbAssumption, TypeInv, TypeOK
      <3>2. /\ \A i \in Index : schema'[i] = schema[i] \/
                 (i = createIdx /\ schema'[i] = CreateColumns(conf.dev[i].mppt))
            /\ UNCHANGED <<rows, runRows, conf, solarConf, used, mainPc>>
        BY <1>1, <2>1, <3>1 DEF MainCreate, DbCreate, TypeInv, TypeOK, DbTypeOK
      <3>3. Up /\ Up' /\ used["start"] # 0
        BY <1>1, <3>2 DEF MainCreate, Up, FileInv
      <3> QED BY <3>2, <3>3 DEF FileInv
    <2>2. CASE ~(createIdx < conf.num)
      <3>1. UNCHANGED <<rows, schema, runRows, conf, solarConf>> /\ (Up' <=> Up)
        BY <1>1, <2>2 DEF MainCreate, Up
      <3> QED BY <1>f, <3>1
    <2> QED BY <2>1, <2>2
  <1>2. CASE (MainStep /\ ~MainCreate) \/ MainFails
    <2>1. CASE MainEnd
      BY <1>p, <2>1 DEF MainEnd
    <2>2. CASE ~MainEnd
      <3>1. UNCHANGED <<rows, schema, runRows, conf, solarConf>> /\ (Up' <=> Up)
        BY <1>2, <2>2
           DEF MainStep, MainFails, MainOpen, DbOpen, MainInstall, MainSpawn, MainJoin, MainClose,
               DbClose, MainExit, DbDestroy, MainOpenFails, MainCreateFails, MainSpawnFails, Up
      <3> QED BY <1>f, <3>1
    <2> QED BY <2>1, <2>2
  <1>3. CASE ExecCommit
    <2>1. /\ UNCHANGED <<schema, conf, solarConf, mainPc, used>>
          /\ rows' = [rows EXCEPT ![index] = @ \union {RowKey}]
          /\ runRows' = runRows \union {[table |-> index, ts |-> now, serial |-> conf.dev[index].serial]}
      BY <1>3 DEF ExecCommit, DbInsert
    <2>2. Row(index, RowKey) = [table |-> index, ts |-> now, serial |-> conf.dev[index].serial]
      BY DEF Row, RowKey
    <2>3. index \in Index /\ Up
      BY <1>3, IntervalNat DEF ExecCommit, TypeInv, TurnOK, TypeOK, InExec, Index, InvDbAssumption
    <2>4. \A i \in Index : \A k \in rows'[i] : k \in rows[i] \/ (i = index /\ k = RowKey)
      BY <2>1, <2>3 DEF TypeInv, TypeOK, DbTypeOK
    <2>5. used["start"] # 0 /\ Up'
      BY <2>1, <2>3 DEF FileInv, Up
    <2>6. ASSUME used["start"] <= 1, NEW i \in Index, NEW k \in rows'[i]
          PROVE  Row(i, k) \in runRows'
      BY <2>1, <2>2, <2>3, <2>4, <2>6 DEF FileInv
    <2> QED BY <2>1, <2>3, <2>5, <2>6 DEF FileInv
  <1>4. CASE PollStep /\ ~ExecCommit
    <2>1. CASE ProcessGone
      BY <1>4, <1>p, <2>1 DEF PollStep, PollBegin, PollDisconnect, PollInsert, PollInsertDangling,
             ExecAlloc, ExecPrepared, InExecSteps, ExecFails, CycleEnd
    <2>2. CASE ~ProcessGone
      <3>1. UNCHANGED <<rows, schema, runRows, conf, solarConf, mainPc>>
        BY <1>4, <2>2 DEF PollStep, PollBegin, PollDisconnect, PollInsert, PollInsertDangling,
             ExecAlloc, ExecPrepared, InExecSteps, ExecFails, CycleEnd
      <3>2. Up' <=> Up
        BY <3>1 DEF Up
      <3> QED BY <1>f, <3>1, <3>2
    <2> QED BY <2>1, <2>2
  <1>5. ASSUME NEW c \in Counts, MainStart(c) PROVE FileInv'
    <2>1. /\ conf' = solarConf /\ UNCHANGED <<rows, schema, runRows, solarConf>>
          /\ used'["start"] = used["start"] + 1
      BY <1>5 DEF MainStart, Spend, TypeInv, TypeOK, Events
    <2>2. /\ used'["start"] # 0 /\ (used'["start"] <= 1 => used["start"] = 0)
          /\ used'["edit"] = 0 => used["edit"] = 0
      BY <1>u, <2>1
    <2> QED BY <2>1, <2>2 DEF FileInv
  <1>6. CASE EditConf
    <2>1. UNCHANGED <<rows, schema, runRows, conf, mainPc>> /\ used'["edit"] = used["edit"] + 1
      BY <1>6 DEF EditConf, Spend, TypeInv, TypeOK, Events
    <2>2. /\ used'["edit"] # 0 /\ (Up' <=> Up)
          /\ used'["start"] = 0 => used["start"] = 0
          /\ used'["start"] <= 1 => used["start"] <= 1
      BY <1>u, <2>1 DEF Up
    <2> QED BY <2>1, <2>2 DEF FileInv
  <1>7. ASSUME NEW t \in Threads, NEW sig \in Sigs, Signal(t, sig) PROVE FileInv'
    BY <1>7, <1>f, <1>p DEF Signal, Up
  <1>8. ASSUME NEW t \in Threads, HandlerStep(t) PROVE FileInv'
    BY <1>8, <1>f, <1>p DEF HandlerStep, HandlerClose, HandlerExit, HandlerEnd, DbClose, DbDestroy, Up
  <1>9. CASE Tick \/ SetClock \/ Crash \/ UNCHANGED vars
    BY <1>9, <1>f, <1>p DEF Tick, SetClock, Crash, vars, Up
  <1> QED BY <1>1, <1>2, <1>3, <1>4, <1>5, <1>6, <1>7, <1>8, <1>9 DEF Next

\* An insert that is refused, for its reason.
LEMMA LossHasReason ==
    ASSUME InvIOTAssumption, InvDbAssumption, IInv, FileInv, ExecFails
    PROVE  \E reason \in {"schema", "key", "io"} :
             /\ Lose(reason)
             /\ reason = "schema" =>
                  schema[index] # CreateColumns(conf.dev[index].mppt) /\ used["edit"] > 0
             /\ reason = "key" =>
                  /\ RowKey \in rows[index]
                  /\ Interval = 0 \/ (used["start"] > 1 /\ Row(index, RowKey) \notin runRows)
  <1>t. /\ TypeInv /\ pollPc \in InExec /\ index \in Index /\ index < conf.num /\ now \in Nat
        /\ Interval \in Nat /\ used["edit"] \in Nat /\ used["start"] \in Nat
        /\ conf.dev[index].mppt \in Nat
    <2>1. TypeInv /\ pollPc \in InExec
      BY DEF IInv, ExecFails, InExec
    <2>2. index < conf.num /\ index \in Index
      BY <2>1, IntervalNat DEF TypeInv, TurnOK, TypeOK, Index, InvDbAssumption
    <2>3. conf.dev[index].mppt \in Nat
      BY <2>1, <2>2 DEF TypeInv, TypeOK, InvIOTAssumption, InvDbAssumption
    <2> QED BY <2>1, <2>2, <2>3, IntervalNat DEF TypeInv, TypeOK, Events
  <1>u. Up
    BY <1>t DEF TypeInv, TurnOK, InExec
  <1>1. CASE pollPc = "alloc" /\ ~Fits(index) /\ Lose("schema")
    <2>1. dcMap[index] = conf.dev[index].mppt /\ schema[index] # None
      <3>1. mainPc = "join"
        BY <1>t DEF IInv, ThreadInv, PollerExists, InExec
      <3> QED BY <1>t, <3>1 DEF IInv, TablesInv, TableMade
    <2>2. schema[index] # CreateColumns(conf.dev[index].mppt)
      BY <1>1, <1>t, <2>1, ColumnsNat DEF Fits
    <2>3. used["edit"] # 0
      BY <1>t, <1>u, <2>1, <2>2 DEF FileInv
    <2> QED BY <1>1, <1>t, <2>2, <2>3
  <1>2. CASE pollPc = "commit" /\ RowKey \in rows[index] /\ Lose("key")
    <2>1. ASSUME Interval # 0, Row(index, RowKey) \in runRows PROVE FALSE
      <3>1. Row(index, RowKey).ts = now /\ Row(index, RowKey).table = index
        BY DEF Row, RowKey
      <3>2. (now = now /\ index < index) \/ now + Interval <= now
        BY <1>t, <2>1, <3>1 DEF IInv, SpacingInv, InCycle
      <3> QED BY <1>t, <2>1, <3>2 DEF Index
    <2>2. ASSUME Interval # 0, used["start"] <= 1 PROVE FALSE
      BY <1>2, <1>t, <1>u, <2>1, <2>2 DEF FileInv
    <2>3. Interval = 0 \/ used["start"] > 1
      BY <1>t, <2>2
    <2> QED BY <1>2, <2>1, <2>3
  <1>3. CASE Lose("io")
    BY <1>3
  <1> QED BY <1>1, <1>2, <1>3 DEF ExecFails

LEMMA LostEmpty == ASSUME lost' = {} PROVE LostInv'
  BY DEF LostInv, LossExplained

\* Of a loss that is there already: no step takes its reason away.
LEMMA LossStays ==
    ASSUME InvIOTAssumption, TypeInv, LostInv, [Next]_vars, UNCHANGED <<conf, schema>>,
           \A i \in Index : rows[i] \subseteq rows'[i],
           NEW l \in lost,
           \A r \in runRows' : r \in runRows \/ r.table # l.table \/ r.ts # l.ts \/ Interval = 0
    PROVE  LET key == [ts |-> l.ts, serial |-> conf'.dev[l.table].serial] IN
           /\ l.reason = "schema" =>
                schema'[l.table] # CreateColumns(conf'.dev[l.table].mppt) /\ used'["edit"] > 0
           /\ l.reason = "key" =>
                /\ key \in rows'[l.table]
                /\ Interval' = 0 \/ (used'["start"] > 1 /\
                     [table |-> l.table, ts |-> l.ts, serial |-> key.serial] \notin runRows')
  <1>u. /\ used["start"] \in Nat /\ used'["start"] \in Nat /\ used["start"] <= used'["start"]
        /\ used["edit"] \in Nat /\ used'["edit"] \in Nat /\ used["edit"] <= used'["edit"]
    BY UsedGrows DEF Events
  <1> DEFINE key == [ts |-> l.ts, serial |-> conf.dev[l.table].serial]
             row == [table |-> l.table, ts |-> l.ts, serial |-> key.serial]
  <1>1. l.table \in Index /\ row.table = l.table /\ row.ts = l.ts
    BY DEF TypeInv, TypeOK
  <1>2. /\ l.reason = "schema" =>
             schema[l.table] # CreateColumns(conf.dev[l.table].mppt) /\ used["edit"] > 0
        /\ l.reason = "key" =>
             key \in rows[l.table] /\ (Interval = 0 \/ (used["start"] > 1 /\ row \notin runRows))
    BY DEF LostInv, LossExplained
  <1>3. Interval' = Interval
    BY DEF Interval
  <1>4. row \in runRows' => row \in runRows \/ Interval = 0
    BY <1>1
  <1>5. key \in rows[l.table] => key \in rows'[l.table]
    BY <1>1
  <1>6. (used["edit"] > 0 => used'["edit"] > 0) /\ (used["start"] > 1 => used'["start"] > 1)
    BY <1>u
  <1> QED BY <1>2, <1>3, <1>4, <1>5, <1>6

\* Steps that add no loss and no row.
LEMMA LostFrame ==
    ASSUME InvIOTAssumption, TypeInv, LostInv, [Next]_vars,
           UNCHANGED <<conf, schema, rows, runRows, lost, nextInterval, now>>,
           mainPc' = mainPc \/ mainPc' \in {"join", "close", "exit", "ending"},
           InCycle' => InCycle /\ index <= index'
    PROVE  LostInv'
  <1>1. LossExplained'
    BY LossStays DEF LossExplained
  <1>2. Interval' = Interval
    BY DEF Interval
  <1>3. index \in Nat /\ index' \in Nat /\ \A l \in lost : l.table \in Nat
    <2>1. TypeInv'
      BY TypeStep, InvIOTAssumption, InvDbAssumption
    <2> QED BY <2>1, InvIOTAssumption, InvDbAssumption, IntervalNat DEF TypeInv, TypeOK, Index
  <1> QED BY <1>1, <1>2, <1>3 DEF LostInv

\* The device's turn ends in an insert that failed.
LEMMA LostMore ==
    ASSUME InvIOTAssumption, InvDbAssumption, IInv, LostInv, [Next]_vars, InCycle, mainPc = "join",
           UNCHANGED <<conf, mainPc, schema, rows, runRows>>, InsertReturns,
           NEW reason, Lose(reason),
           reason = "schema" =>
             schema[index] # CreateColumns(conf.dev[index].mppt) /\ used["edit"] > 0,
           reason = "key" =>
             /\ RowKey \in rows[index]
             /\ Interval = 0 \/ (used["start"] > 1 /\ Row(index, RowKey) \notin runRows)
    PROVE  LostInv'
  <1> DEFINE e == [table |-> index, ts |-> now, reason |-> reason]
  <1>t. TypeInv /\ Interval \in Nat /\ index \in Nat /\ now \in Nat /\ conf.num \in Nat
        /\ \A l \in lost : l.table \in Nat
    BY IntervalNat DEF IInv, TypeInv, TypeOK, Index
  <1>u. /\ used["start"] > 1 => used'["start"] > 1
        /\ used["edit"] > 0 => used'["edit"] > 0
    <2>1. /\ used["start"] \in Nat /\ used'["start"] \in Nat /\ used["start"] <= used'["start"]
          /\ used["edit"] \in Nat /\ used'["edit"] \in Nat /\ used["edit"] <= used'["edit"]
      BY <1>t, UsedGrows DEF Events
    <2> QED BY <2>1
  <1>1. /\ lost' = lost \union {e} /\ e.table = index /\ e.ts = now /\ e.reason = reason
        /\ index' = index + 1 /\ pollPc' = "device" /\ UNCHANGED <<nextInterval, now>>
    BY DEF Lose, InsertReturns
  <1> HIDE DEF e
  <1>2. Interval' = Interval
    BY DEF Interval
  <1>3. nextInterval = now + Interval
    BY DEF IInv, SpacingInv
  <1>4. \A l \in lost' : l.ts + Interval <= nextInterval
    BY <1>t, <1>1, <1>3 DEF LostInv
  <1>5. \A l \in lost' : (l.ts = now /\ l.table < index + 1) \/ l.ts + Interval <= now
    BY <1>t, <1>1 DEF LostInv
  <1>6. ASSUME NEW l \in lost'
        PROVE  LET key == [ts |-> l.ts, serial |-> conf'.dev[l.table].serial] IN
               /\ l.reason = "schema" =>
                    schema'[l.table] # CreateColumns(conf'.dev[l.table].mppt) /\ used'["edit"] > 0
               /\ l.reason = "key" =>
                    /\ key \in rows'[l.table]
                    /\ Interval' = 0 \/ (used'["start"] > 1 /\
                         [table |-> l.table, ts |-> l.ts, serial |-> key.serial] \notin runRows')
    <2>1. CASE l \in lost
      BY <1>t, <2>1, LossStays
    <2>2. CASE l = e
      BY <1>u, <1>1, <1>2, <2>2 DEF RowKey, Row
    <2> QED BY <1>1, <2>1, <2>2
  <1>7. LossExplained'
    BY <1>6 DEF LossExplained
  <1> QED BY <1>1, <1>2, <1>4, <1>5, <1>7 DEF LostInv

LEMMA LostStep ==
    ASSUME InvIOTAssumption, InvDbAssumption, IInv, FileInv, LostInv, [Next]_vars
    PROVE  LostInv'
  <1> USE DEF mainVars, pollVars, dbVars, fileVars, histVars
  <1>t. /\ TypeInv /\ Interval \in Nat /\ index \in Nat /\ now \in Nat /\ clock \in Nat
        /\ nextInterval \in Nat /\ conf.num \in Nat
        /\ \A l \in lost : l.table \in Nat /\ l.ts \in Nat
    BY IntervalNat DEF IInv, TypeInv, TypeOK, Index
  <1>p. ASSUME ProcessGone PROVE LostInv'
    BY <1>p, LostEmpty DEF ProcessGone
  <1>e. ASSUME mainPc \notin {"join", "close", "exit", "ending"}, UNCHANGED lost PROVE LostInv'
    BY <1>e, LostEmpty DEF LostInv
  <1>f. ASSUME UNCHANGED <<conf, mainPc, schema, rows, runRows, lost, nextInterval, now>>,
               InCycle' => InCycle /\ (index' = index \/ index' = index + 1)
        PROVE  LostInv'
    BY <1>f, <1>t, LostFrame
  <1>j. pollPc \in {"wait", "device"} \union InExec => mainPc = "join"
    BY DEF IInv, ThreadInv, PollerExists, InExec
  <1>1. CASE MainStep \/ MainFails
    <2>1. CASE MainOpen \/ MainCreate \/ MainInstall \/ MainSpawn \/ MainFails
      BY <1>e, <2>1 DEF MainOpen, MainCreate, MainInstall, MainSpawn, MainFails, MainOpenFails,
                        MainCreateFails, MainSpawnFails
    <2>2. CASE MainJoin \/ MainClose \/ MainExit
      <3>1. /\ UNCHANGED <<conf, schema, rows, runRows, lost, nextInterval, now, index, pollPc>>
            /\ mainPc' \in {"close", "exit", "ending"}
        BY <2>2 DEF MainJoin, MainClose, MainExit, DbClose, DbDestroy
      <3> QED BY <1>t, <3>1, LostFrame DEF InCycle
    <2>3. CASE MainEnd
      BY <1>p, <2>3 DEF MainEnd
    <2> QED BY <1>1, <2>1, <2>2, <2>3 DEF MainStep
  <1>2. CASE PollBegin
    <2>1. /\ UNCHANGED <<conf, mainPc, schema, rows, runRows, lost>>
          /\ now' = clock /\ nextInterval' = clock + Interval /\ clock >= nextInterval
      BY <1>2 DEF PollBegin
    <2>2. LossExplained'
      BY <1>t, <2>1, LossStays DEF LossExplained
    <2>3. Interval' = Interval
      BY <2>1 DEF Interval
    <2>4. \A l \in lost : l.ts + Interval <= clock /\ l.ts + Interval <= clock + Interval
      BY <1>t, <2>1 DEF LostInv
    <2> QED BY <2>1, <2>2, <2>3, <2>4 DEF LostInv
  <1>3. CASE PollDisconnect \/ PollInsert \/ ExecAlloc \/ ExecPrepared \/ CycleEnd
    BY <1>3, <1>f DEF PollDisconnect, PollInsert, AtDevice, ExecAlloc, ExecPrepared, InExecSteps,
                      CycleEnd, InCycle, InExec
  <1>4. CASE PollInsertDangling
    <2>1. CASE ProcessGone
      BY <1>p, <2>1
    <2>2. CASE ~ProcessGone
      <3>1. /\ InCycle /\ InsertReturns /\ Lose("closed")
            /\ UNCHANGED <<conf, mainPc, schema, rows, runRows>>
        BY <1>4, <2>2 DEF PollInsertDangling, AtDevice, InCycle
      <3>2. mainPc = "join"
        BY <1>j, <3>1 DEF InCycle
      <3> QED BY <3>1, <3>2, LostMore
    <2> QED BY <2>1, <2>2
  <1>5. CASE ExecFails
    <2>1. InCycle /\ InsertReturns /\ UNCHANGED <<conf, mainPc, schema, rows, runRows>>
      BY <1>5 DEF ExecFails, InCycle, InExec
    <2>2. mainPc = "join"
      BY <1>j, <2>1 DEF InCycle
    <2> QED BY <1>5, <2>1, <2>2, LossHasReason, LostMore
  <1>6. CASE ExecCommit
    <2> DEFINE row == [table |-> index, ts |-> now, serial |-> conf.dev[index].serial]
    <2>1. /\ InCycle /\ pollPc' = "device" /\ index' = index + 1
          /\ UNCHANGED <<conf, mainPc, schema, lost, nextInterval, now>>
          /\ runRows' = runRows \union {row} /\ row.table = index /\ row.ts = now
          /\ rows' = [rows EXCEPT ![index] = @ \union {RowKey}]
      BY <1>6 DEF ExecCommit, DbInsert, InsertReturns, InCycle, InExec
    <2> HIDE DEF row
    <2>2. \A i \in Index : rows[i] \subseteq rows'[i]
      BY <1>t, <2>1 DEF TypeInv, TypeOK, DbTypeOK
    <2>3. \A l \in lost : (l.ts = now /\ l.table < index) \/ l.ts + Interval <= now
      BY <2>1 DEF LostInv
    <2>4. \A l \in lost : index # l.table \/ now # l.ts \/ Interval = 0
      BY <1>t, <2>3
    <2>5. LossExplained'
      <3>1. \A l \in lost : \A r \in runRows' :
              r \in runRows \/ r.table # l.table \/ r.ts # l.ts \/ Interval = 0
        BY <2>1, <2>4
      <3> QED BY <1>t, <2>1, <2>2, <3>1, LossStays DEF LossExplained
    <2>6. Interval' = Interval
      BY <2>1 DEF Interval
    <2>7. \A l \in lost : (l.ts = now /\ l.table < index + 1) \/ l.ts + Interval <= now
      BY <1>t, <2>3
    <2>8. mainPc = "join"
      BY <1>j, <2>1 DEF InCycle
    <2> QED BY <2>1, <2>5, <2>6, <2>7, <2>8 DEF LostInv
  <1>7. ASSUME NEW c \in Counts, MainStart(c) PROVE LostInv'
    BY <1>7, <1>e DEF MainStart, Up
  <1>8. ASSUME NEW t \in Threads, NEW sig \in Sigs, Signal(t, sig) PROVE LostInv'
    BY <1>8, <1>f, <1>p DEF Signal, InCycle
  <1>9. ASSUME NEW t \in Threads, HandlerStep(t) PROVE LostInv'
    BY <1>9, <1>f, <1>p DEF HandlerStep, HandlerClose, HandlerExit, HandlerEnd, DbClose, DbDestroy,
                            InCycle
  <1>10. CASE Tick \/ SetClock \/ EditConf \/ Crash \/ UNCHANGED vars
    BY <1>10, <1>f, <1>p DEF Tick, SetClock, EditConf, Crash, vars, InCycle
  <1> QED BY <1>1, <1>2, <1>3, <1>4, <1>5, <1>6, <1>7, <1>8, <1>9, <1>10 DEF Next, PollStep

\* A reading counted as Ok that is not stored was refused by an old table, after an edit,
\* by the key of an earlier process's row, by the disk, or by a closed connection.
THEOREM LossesExplained == Spec => []LossExplained
  <1> USE InvIOTAssumption, InvDbAssumption
  <1>1. Init => FileInv /\ LostInv
    BY DEF Init, FileInv, LostInv, LossExplained, Up, InCycle, InExec, Events
  <1>2. IInv /\ FileInv /\ LostInv /\ [Next]_vars => FileInv' /\ LostInv'
    BY FileStep, LostStep DEF IInv
  <1>3. LostInv => LossExplained
    BY DEF LostInv
  <1> QED BY <1>1, <1>2, <1>3, IInvHolds, PTL DEF Spec
============================================================================

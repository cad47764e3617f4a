---------------------------- MODULE RtuBusProofs ----------------------------
(***************************************************************************)
(* What holds on the shared line for every number of slaves, every setting *)
(* of the timeouts and any number of lost messages.                        *)
(***************************************************************************)
EXTENDS RtuBus, TLAPS

\* A setting has the fields its type gives it.
LEMMA SettingFields ==
    ASSUME NEW c \in Settings
    PROVE  /\ c.master \in Nat /\ c.slave \in Nat \ {0} /\ c.byte \in Nat /\ c.delay \in Nat
           /\ c.silent \subseteq Slaves /\ c.start \in {"listen", "ignore"}
           /\ c.kinds \subseteq Kinds /\ c.kinds # {} /\ c.delay < c.master
  BY RtuBusAssumption DEF SettingType, Kinds

LEMMA NextSlaveType == ASSUME NEW s \in Slaves PROVE NextSlave(s) \in Slaves
  BY RtuBusAssumption DEF NextSlave, Slaves

\* The timer of a slave in mode m: it runs unless the slave listens.
Runs(m, t) == t <= ctx.slave /\ (m # "listen" => t \in Nat)

\* The timers that a message may leave, no greater than a slave's timeout if regular.
LEMMA TimerType ==
    ASSUME ctx \in Settings, NEW t \in JunkTimers, NEW x \in Slaves, NEW m \in Modes
    PROVE  /\ Timer(m, t[x]) \in {NoTimer} \union Nat
           /\ Regular(ctx) => Runs(m, Timer(m, t[x]))
  <1>1. ctx.slave \in Nat \ {0} /\ ctx.byte \in Nat
    BY SettingFields
  <1>2. CASE ctx.byte > 0
    <2>1. t[x] = ctx.byte
      BY <1>2 DEF JunkTimers
    <2> QED
      BY <1>1, <1>2, <2>1 DEF Timer, Regular, NoTimer, Modes, Runs
  <1>3. CASE ~(ctx.byte > 0)
    <2>1. t[x] \in {NoTimer} \union Nat
      BY <1>1, <1>3 DEF JunkTimers
    <2>2. ~Regular(ctx)
      BY <1>1, <1>3 DEF Regular
    <2> QED
      BY <1>1, <2>1, <2>2 DEF Timer
  <1> QED
    BY <1>2, <1>3

LEMMA LessType ==
    ASSUME NEW t \in {NotDue} \union Nat
    PROVE  /\ Less(t) \in {NotDue} \union Nat /\ Less(t) \in {NoTimer} \union Nat
           /\ Less(t) <= t
  BY DEF Less, NotDue, NoTimer

\* What hearing a message does to the modes and timers.
LEMMA HeardType ==
    ASSUME TypeOK, NEW ears, NEW After, Heard(ears, After)
    PROVE  mode' \in [Slaves -> Modes] /\ ts' \in [Slaves -> {NoTimer} \union Nat]
  <1>1. mode' \in [Slaves -> Modes]
    BY DEF Heard
  <1>2. PICK t \in JunkTimers :
          ts' = [x \in Slaves |-> IF x \in ears THEN Timer(mode'[x], t[x]) ELSE ts[x]]
    BY DEF Heard
  <1>3. \A x \in Slaves :
          (IF x \in ears THEN Timer(mode'[x], t[x]) ELSE ts[x]) \in {NoTimer} \union Nat
    BY <1>1, TimerType DEF TypeOK
  <1> QED
    BY <1>1, <1>2, <1>3

----------------------------------------------------------------------------

LEMMA InitType == Init => TypeOK
  <1> SUFFICES ASSUME Init PROVE TypeOK
    OBVIOUS
  <1>1. ctx \in Settings /\ target \in Slaves /\ 0 \in 0 .. ctx.master /\ kind \in Kinds
    BY SettingFields, RtuBusAssumption DEF Init, Slaves
  <1>2. ctx.start \in {"listen", "ignore"} /\ ctx.slave \in Nat
    BY <1>1, SettingFields
  <1>3. mode \in [Slaves -> Modes]
    BY <1>2 DEF Init, Modes
  <1>4. ts \in [Slaves -> {NoTimer} \union Nat]
    BY <1>2 DEF Init
  <1>5. due \in [Slaves -> {NotDue} \union Nat]
    BY DEF Init
  <1>6. faults \in 0 .. MaxFaults
    BY RtuBusAssumption DEF Init
  <1> QED
    BY <1>1, <1>3, <1>4, <1>5, <1>6 DEF Init, TypeOK

LEMMA FaultType ==
    ASSUME TypeOK, NEW deaf, Fault(deaf)
    PROVE  faults' \in 0 .. MaxFaults /\ (faults' = MaxFaults => deaf = {} /\ faults = MaxFaults)
  BY RtuBusAssumption DEF TypeOK, Fault

LEMMA NextType == TypeOK /\ [Next]_vars => TypeOK'
  <1> SUFFICES ASSUME TypeOK, [Next]_vars PROVE TypeOK'
    OBVIOUS
  <1>c. /\ ctx.master \in Nat /\ ctx.slave \in Nat /\ ctx.byte \in Nat /\ ctx.delay \in Nat
        /\ ctx.kinds \subseteq Kinds
    BY SettingFields DEF TypeOK
  <1>1. ASSUME NEW k \in Kinds, NEW deaf \in SUBSET Slaves, Request(k, deaf) PROVE TypeOK'
    <2>1. mode' \in [Slaves -> Modes] /\ ts' \in [Slaves -> {NoTimer} \union Nat]
      BY <1>1, HeardType DEF Request
    <2>2. faults' \in 0 .. MaxFaults
      BY <1>1, FaultType DEF Request
    <2>3. due' \in [Slaves -> {NotDue} \union Nat]
      BY <1>1, <1>c DEF Request, TypeOK
    <2>4. swallowed' \in BOOLEAN /\ tm' \in 0 .. ctx'.master
      BY <1>1, <1>c DEF Request
    <2> QED
      BY <1>1, <2>1, <2>2, <2>3, <2>4 DEF Request, TypeOK
  <1>2. ASSUME NEW x \in Slaves, NEW deaf \in SUBSET Slaves, Answer(x, deaf) PROVE TypeOK'
    <2>1. mode' \in [Slaves -> Modes] /\ ts' \in [Slaves -> {NoTimer} \union Nat]
      BY <1>2, HeardType DEF Answer
    <2>2. faults' \in 0 .. MaxFaults
      BY <1>2, FaultType DEF Answer
    <2>3. due' \in [Slaves -> {NotDue} \union Nat]
      BY <1>2 DEF Answer, TypeOK
    <2>4. /\ target' \in Slaves /\ asking' \in BOOLEAN /\ tm' \in 0 .. ctx'.master
          /\ answered' \in BOOLEAN
      <3>1. ctx' = ctx /\ NextSlave(target) \in Slaves /\ 0 \in 0 .. ctx.master
        BY <1>2, <1>c, NextSlaveType DEF Answer, TypeOK
      <3>2. CASE asking /\ target = x /\ x \notin deaf
        BY <1>2, <3>1, <3>2, Zenon DEF Answer
      <3>3. CASE ~(asking /\ target = x /\ x \notin deaf)
        BY <1>2, <3>1, <3>3, Zenon DEF Answer, TypeOK
      <3> QED
        BY <3>2, <3>3
    <2> QED
      BY <1>2, <2>1, <2>2, <2>3, <2>4 DEF Answer, TypeOK
  <1>3. CASE GiveUp
    BY <1>3, NextSlaveType DEF GiveUp, TypeOK
  <1>4. ASSUME NEW x \in Slaves, StopIgnoring(x) \/ DropJunk(x) PROVE TypeOK'
    BY <1>4 DEF StopIgnoring, DropJunk, TypeOK, Modes
  <1>5. CASE Tick
    <2>1. tm' \in 0 .. ctx'.master
      BY <1>5, <1>c DEF Tick, TypeOK, Less
    <2>2. ts' \in [Slaves -> {NoTimer} \union Nat]
      BY <1>5, LessType DEF Tick, TypeOK, NoTimer, NotDue
    <2>3. due' \in [Slaves -> {NotDue} \union Nat]
      BY <1>5, LessType DEF Tick, TypeOK
    <2> QED
      BY <1>5, <2>1, <2>2, <2>3 DEF Tick, TypeOK
  <1>6. CASE UNCHANGED vars
    BY <1>6 DEF vars, TypeOK
  <1> QED
    BY <1>1, <1>2, <1>3, <1>4, <1>5, <1>6 DEF Next

\* Every reachable state is well typed: the poll stays within the round, timers within
\* their timeouts.
THEOREM TypeCorrect == Spec => []TypeOK
  BY InitType, NextType, PTL DEF Spec

----------------------------------------------------------------------------
\* Timers against the master's: what keeps a silence long enough.

\* With regular timeouts nobody's timer outlasts the master's, and an answer that is due
\* leaves the others time for a whole timeout.
TimersInv ==
    Regular(ctx) =>
        /\ \A x \in Slaves : Runs(mode[x], ts[x])
        /\ asking => \A x \in Slaves : mode[x] # "listen" => ts[x] <= tm
        /\ \A x \in Slaves : due[x] # NotDue => asking /\ target = x /\ due[x] + ctx.slave <= tm

LEMMA HeardTimers ==
    ASSUME TypeOK, Regular(ctx), NEW ears, NEW After, Heard(ears, After), NEW x \in Slaves,
           Runs(mode[x], ts[x])
    PROVE  Runs(mode'[x], ts'[x])
  <1>1. mode'[x] \in Modes /\ ctx \in Settings
    BY DEF Heard, TypeOK
  <1>2. PICK t \in JunkTimers :
          ts' = [y \in Slaves |-> IF y \in ears THEN Timer(mode'[y], t[y]) ELSE ts[y]]
    BY DEF Heard
  <1>3. Runs(mode'[x], Timer(mode'[x], t[x]))
    BY <1>1, TimerType
  <1>4. x \notin ears => mode'[x] = mode[x]
    BY DEF Heard
  <1> QED
    BY <1>2, <1>3, <1>4

LEMMA InitTimers == Init => TimersInv
  <1> SUFFICES ASSUME Init PROVE TimersInv
    OBVIOUS
  <1>1. ctx.slave \in Nat
    BY SettingFields DEF Init
  <1>2. ~asking /\ \A x \in Slaves : due[x] = NotDue
    BY DEF Init
  <1>3. ASSUME NEW x \in Slaves PROVE Runs(mode[x], ts[x])
    <2>1. ts[x] = IF mode[x] = "ignore" THEN ctx.slave ELSE NoTimer
      BY DEF Init
    <2>2. mode[x] \in {"listen", "ignore"}
      <3>1. ctx.start \in {"listen", "ignore"}
        BY SettingFields DEF Init
      <3> QED
        BY <3>1 DEF Init
    <2> QED
      BY <1>1, <2>1, <2>2 DEF Runs, NoTimer
  <1> QED
    BY <1>2, <1>3 DEF TimersInv

LEMMA CtxStays == [Next]_vars => ctx' = ctx
  BY DEF Next, Request, Answer, GiveUp, StopIgnoring, DropJunk, Tick, vars

LEMMA NextTimers == TypeOK /\ TypeOK' /\ TimersInv /\ [Next]_vars => TimersInv'
  <1> SUFFICES ASSUME TypeOK, TypeOK', TimersInv, [Next]_vars, Regular(ctx)'
               PROVE  /\ \A x \in Slaves : Runs(mode'[x], ts'[x])
                      /\ asking' => \A x \in Slaves : mode'[x] # "listen" => ts'[x] <= tm'
                      /\ \A x \in Slaves : due'[x] # NotDue =>
                            asking' /\ target' = x /\ due'[x] + ctx'.slave <= tm'
    BY CtxStays DEF TimersInv, Runs
  <1>c. /\ ctx' = ctx /\ Regular(ctx)
        /\ ctx.master \in Nat /\ ctx.slave \in Nat /\ ctx.delay \in Nat
    <2>1. ctx' = ctx
      BY CtxStays
    <2> QED
      BY <2>1, SettingFields DEF TypeOK
  <1>r. ctx.slave <= ctx.master /\ ctx.delay < ctx.slave /\ ctx.delay + ctx.slave <= ctx.master
    BY <1>c DEF Regular
  <1>t. /\ \A x \in Slaves : /\ Runs(mode[x], ts[x]) /\ ts[x] \in {NoTimer} \union Nat
                            /\ ts[x] <= ctx.slave /\ (mode[x] # "listen" => ts[x] \in Nat)
        /\ asking => \A x \in Slaves : mode[x] # "listen" => ts[x] <= tm
        /\ \A x \in Slaves : due[x] # NotDue =>
              asking /\ target = x /\ due[x] + ctx.slave <= tm /\ due[x] \in Nat
        /\ tm \in Nat
    <2>1. \A x \in Slaves : due[x] # NotDue => due[x] \in Nat
      BY DEF TypeOK
    <2> QED
      BY <1>c, <2>1 DEF TimersInv, TypeOK, Runs
  <1>1. ASSUME NEW k \in Kinds, NEW deaf \in SUBSET Slaves, Request(k, deaf)
        PROVE  /\ \A x \in Slaves : Runs(mode'[x], ts'[x])
               /\ asking' => \A x \in Slaves : mode'[x] # "listen" => ts'[x] <= tm'
               /\ \A x \in Slaves : due'[x] # NotDue =>
                     asking' /\ target' = x /\ due'[x] + ctx.slave <= tm'
    <2>1. \A x \in Slaves : Runs(mode'[x], ts'[x])
      BY <1>1, <1>c, <1>t, HeardTimers DEF Request
    <2>2. tm' = ctx.master /\ target' = target /\ asking' /\ \A x \in Slaves : ts'[x] <= ctx.slave
      BY <1>1, <2>1 DEF Request, Runs
    <2>3. \A x \in Slaves : due'[x] # NotDue => x = target /\ due'[x] = ctx.delay
      BY <1>1, <1>t DEF Request, TypeOK
    <2> QED
      <3>1. \A x \in Slaves : due'[x] # NotDue => due'[x] + ctx.slave <= tm'
        BY <1>r, <2>2, <2>3
      <3>2. \A x \in Slaves : ts'[x] <= tm'
        <4>1. \A x \in Slaves : ts'[x] \in {NoTimer} \union Nat
          BY DEF TypeOK
        <4> QED
          BY <1>c, <1>r, <2>2, <4>1 DEF NoTimer
      <3> QED
        BY <2>1, <2>2, <2>3, <3>1, <3>2
  <1>2. ASSUME NEW y \in Slaves, NEW deaf \in SUBSET Slaves, Answer(y, deaf)
        PROVE  /\ \A x \in Slaves : Runs(mode'[x], ts'[x])
               /\ asking' => \A x \in Slaves : mode'[x] # "listen" => ts'[x] <= tm'
               /\ \A x \in Slaves : due'[x] # NotDue =>
                     asking' /\ target' = x /\ due'[x] + ctx.slave <= tm'
    <2>1. \A x \in Slaves : Runs(mode'[x], ts'[x])
      BY <1>2, <1>c, <1>t, HeardTimers DEF Answer
    <2>2. \A x \in Slaves : due'[x] = NotDue
      BY <1>2, <1>t DEF Answer, TypeOK
    <2>3. ctx.slave <= tm
      BY <1>2, <1>t, <1>c DEF Answer
    <2>4. (asking' => tm' = tm) /\ \A x \in Slaves : ts'[x] <= ctx.slave
      BY <1>2, <2>1 DEF Answer, Runs
    <2> QED
      <3>1. asking' => \A x \in Slaves : ts'[x] <= tm'
        <4>1. \A x \in Slaves : ts'[x] \in {NoTimer} \union Nat
          BY DEF TypeOK
        <4> QED
          BY <1>c, <1>t, <2>3, <2>4, <4>1 DEF NoTimer
      <3> QED
        BY <2>1, <2>2, <3>1
  <1>3. ASSUME GiveUp
        PROVE  /\ \A x \in Slaves : Runs(mode'[x], ts'[x])
               /\ ~asking'
               /\ \A x \in Slaves : due'[x] = NotDue
    BY <1>3, <1>t, <1>r, <1>c DEF GiveUp
  <1>4. ASSUME NEW y \in Slaves, StopIgnoring(y) \/ DropJunk(y)
        PROVE  /\ UNCHANGED <<asking, tm, due, target>>
               /\ \A x \in Slaves : Runs(mode'[x], ts'[x])
               /\ \A x \in Slaves : mode'[x] # "listen" => mode[x] # "listen" /\ ts'[x] = ts[x]
    BY <1>4, <1>c, <1>t DEF StopIgnoring, DropJunk, TypeOK, NoTimer, Runs
  <1>5. ASSUME Tick
        PROVE  /\ \A x \in Slaves : Runs(mode'[x], ts'[x])
               /\ asking' => \A x \in Slaves : mode'[x] # "listen" => ts'[x] <= tm'
               /\ \A x \in Slaves : due'[x] # NotDue =>
                     asking' /\ target' = x /\ due'[x] + ctx.slave <= tm'
    <2>1. \A x \in Slaves : ts'[x] = Less(ts[x]) /\ due'[x] = Less(due[x])
      BY <1>5 DEF Tick
    <2>2. \A x \in Slaves : Runs(mode'[x], ts'[x])
      BY <1>5, <2>1, <1>t, <1>c DEF Tick, Less, NoTimer, Runs
    <2>3. asking' => \A x \in Slaves : mode'[x] # "listen" => ts'[x] <= tm'
      BY <1>5, <2>1, <1>t DEF Tick, Less, NoTimer
    <2>4. \A x \in Slaves : due'[x] # NotDue =>
              asking' /\ target' = x /\ due'[x] + ctx.slave <= tm'
      BY <1>5, <2>1, <1>t, <1>c DEF Tick, Less, NotDue
    <2> QED
      BY <2>2, <2>3, <2>4
  <1>6. CASE UNCHANGED vars
    BY <1>6, <1>t, <1>c DEF vars
  <1> QED
    BY <1>1, <1>2, <1>3, <1>4, <1>5, <1>6, <1>t, <1>c DEF Next

\* However many messages are lost, and however the slaves stand at first: with regular
\* timeouts a poll that runs into the master's timeout leaves nobody out of step.
THEOREM SilenceAlwaysRealigns == Spec => []SilenceRealigns
  <1>1. TypeOK /\ TimersInv => SilenceRealigns
    BY SettingFields DEF TypeOK, TimersInv, SilenceRealigns, Live, Runs
  <1> QED
    BY <1>1, InitType, NextType, InitTimers, NextTimers, PTL DEF Spec

----------------------------------------------------------------------------
\* Slaves that are in step at first.

\* Where NoneSwallowed speaks: nothing was lost, and the timeouts are long enough for the
\* slaves that are off.
Quiet ==
    /\ ctx.start = "listen" /\ faults = MaxFaults
    /\ Regular(ctx) \/ (ctx.silent = {} /\ ctx.delay < ctx.slave)

\* Between two polls all listen.  During one, either the slave asked listens until it
\* answers, and the others ignore longer than that, or it is off, and the others' timers
\* end before the master's.
InStep ==
    /\ ~swallowed
    /\ ~asking => \A x \in Live : mode[x] = "listen"
    /\ \A x \in Slaves : due[x] # NotDue => asking /\ x = target /\ x \in Live
    /\ asking /\ target \in Live =>
          /\ mode[target] = "listen" /\ due[target] # NotDue /\ due[target] < tm
          /\ \A x \in Live \ {target} : mode[x] = "ignore" /\ due[target] < ts[x]
    /\ asking /\ target \notin Live =>
          \A x \in Live : mode[x] # "listen" => mode[x] = "ignore" /\ ts[x] \in Nat /\ ts[x] < tm

StepInv == Quiet => InStep

LEMMA InitStep == Init => StepInv
  <1> SUFFICES ASSUME Init, Quiet PROVE InStep
    BY DEF StepInv
  <1>1. \A x \in Slaves : mode[x] = "listen"
    BY DEF Init, Quiet
  <1>2. Live \subseteq Slaves
    BY DEF Live
  <1> QED
    BY <1>1, <1>2 DEF Init, InStep

\* With nothing lost before a step and after it, the step loses nothing.
LEMMA QuietBefore ==
    ASSUME TypeOK, [Next]_vars, Quiet'
    PROVE  Quiet /\ ctx' = ctx /\ Live' = Live
  <1>1. ctx' = ctx
    BY DEF Next, Request, Answer, GiveUp, StopIgnoring, DropJunk, Tick, vars
  <1>2. faults = MaxFaults
    <2>1. faults' = MaxFaults
      BY DEF Quiet
    <2>2. \/ faults' = faults
          \/ \E deaf \in SUBSET Slaves : Fault(deaf)
      BY DEF Next, Request, Answer, GiveUp, StopIgnoring, DropJunk, Tick, vars
    <2> QED
      BY <2>1, <2>2, FaultType
  <1>3. ctx.start = "listen" /\ (Regular(ctx) \/ (ctx.silent = {} /\ ctx.delay < ctx.slave))
    BY <1>1 DEF Quiet
  <1> QED
    BY <1>1, <1>2, <1>3 DEF Quiet, Live

LEMMA NextStep == TypeOK /\ TypeOK' /\ StepInv /\ [Next]_vars => StepInv'
  <1> SUFFICES ASSUME TypeOK, TypeOK', StepInv, [Next]_vars, Quiet'
               PROVE  InStep'
    BY DEF StepInv
  <1>q. Quiet /\ InStep /\ ctx' = ctx /\ Live' = Live /\ Live \subseteq Slaves
    BY QuietBefore DEF StepInv, Live
  <1>c. /\ ctx.master \in Nat /\ ctx.slave \in Nat /\ ctx.delay \in Nat
        /\ ctx.delay < ctx.master /\ ctx.delay < ctx.slave
        /\ (\E x \in Slaves : x \notin Live) => ctx.slave < ctx.master
    BY <1>q, SettingFields DEF TypeOK, Quiet, Regular, Live
  <1>t. /\ target \in Slaves /\ tm \in Nat
        /\ \A x \in Slaves : ts[x] \in {NoTimer} \union Nat /\ (due[x] # NotDue => due[x] \in Nat)
    <2>1. \A x \in Slaves : due[x] # NotDue => due[x] \in Nat
      BY DEF TypeOK
    <2> QED
      BY <1>c, <2>1 DEF TypeOK
  <1>1. ASSUME NEW k \in Kinds, NEW deaf \in SUBSET Slaves, Request(k, deaf) PROVE InStep'
    <2>1. deaf = {}
      BY <1>1, <1>q, FaultType DEF Request, Quiet
    <2>2. \A x \in Live : mode[x] = "listen"
      BY <1>1, <1>q DEF Request, InStep
    <2>3. \A x \in Live : mode'[x] = IF x = target THEN "listen" ELSE "ignore"
      BY <1>1, <1>q, <2>1, <2>2 DEF Request, Heard, AfterRequest
    <2>4. \A x \in Live \ {target} : ts'[x] = ctx.slave
      <3>1. PICK t \in JunkTimers :
              ts' = [x \in Slaves |-> IF x \in Live \ deaf THEN Timer(mode'[x], t[x]) ELSE ts[x]]
        BY <1>1 DEF Request, Heard
      <3> QED
        BY <1>q, <2>1, <2>3, <3>1 DEF Timer
    <2>5. asking' /\ target' = target /\ tm' = ctx.master /\ ~swallowed'
      BY <1>1, <2>1, <2>2 DEF Request
    <2>6. \A x \in Slaves : due'[x] = IF x = target /\ x \in Live THEN ctx.delay ELSE NotDue
      <3>1. \A x \in Slaves : due[x] = NotDue
        BY <1>1, <1>q DEF Request, InStep
      <3> QED
        BY <1>1, <2>1, <2>2, <3>1, <1>t DEF Request, TypeOK
    <2> QED
      BY <2>3, <2>4, <2>5, <2>6, <1>c, <1>q, <1>t DEF InStep, NotDue
  <1>2. ASSUME NEW y \in Slaves, NEW deaf \in SUBSET Slaves, Answer(y, deaf) PROVE InStep'
    <2>1. deaf = {}
      BY <1>2, <1>q, FaultType DEF Answer, Quiet
    <2>2. y = target /\ asking /\ y \in Live
      BY <1>2, <1>q DEF Answer, InStep
    <2>3. mode[y] = "listen" /\ \A x \in Live \ {y} : mode[x] = "ignore"
      BY <2>2, <1>q DEF InStep
    <2>4. \A x \in Live : mode'[x] = "listen"
      BY <1>2, <1>q, <2>1, <2>3 DEF Answer, Heard, AfterAnswer
    <2>5. \A x \in Slaves : due'[x] = NotDue
      BY <1>2, <1>q, <2>2 DEF Answer, InStep, TypeOK
    <2>6. ~asking' /\ swallowed' = swallowed
      BY <1>2, <2>1, <2>2 DEF Answer
    <2> QED
      BY <2>4, <2>5, <2>6, <1>q DEF InStep
  <1>3. CASE GiveUp
    <2>1. target \notin Live
      BY <1>3, <1>q, <1>t DEF GiveUp, InStep
    <2>2. \A x \in Live : mode[x] = "listen"
      BY <1>3, <1>q, <1>t, <2>1 DEF GiveUp, InStep
    <2>3. \A x \in Slaves : due[x] = NotDue
      BY <1>q, <2>1 DEF InStep
    <2> QED
      BY <1>3, <1>q, <2>2, <2>3 DEF GiveUp, InStep
  <1>4. ASSUME NEW y \in Slaves, StopIgnoring(y) \/ DropJunk(y) PROVE InStep'
    <2>1. /\ UNCHANGED <<target, asking, tm, due, swallowed>>
          /\ ts[y] = 0 /\ mode[y] # "listen"
          /\ \A x \in Slaves : mode'[x] = IF x = y THEN "listen" ELSE mode[x]
          /\ \A x \in Slaves \ {y} : ts'[x] = ts[x]
      BY <1>4 DEF StopIgnoring, DropJunk, TypeOK
    <2>2. asking /\ target \in Live => y \notin Live
      BY <2>1, <1>q, <1>t DEF InStep
    <2> QED
      BY <2>1, <2>2, <1>q, <1>t DEF InStep
  <1>5. CASE Tick
    <2>1. /\ UNCHANGED <<target, asking, mode, swallowed>>
          /\ tm' = Less(tm) /\ (asking => tm > 0)
          /\ \A x \in Slaves : /\ ts'[x] = Less(ts[x]) /\ due'[x] = Less(due[x])
                               /\ due[x] # 0 /\ (mode[x] # "listen" => ts[x] # 0)
      BY <1>5 DEF Tick
    <2>2. \A x \in Slaves : due'[x] # NotDue => due[x] # NotDue /\ due'[x] = due[x] - 1
      BY <2>1, <1>t DEF Less, NotDue
    <2>3. \A x \in Slaves : due[x] # NotDue => due'[x] # NotDue
      BY <2>1, <1>t DEF Less, NotDue
    <2>4. asking => tm' = tm - 1
      BY <2>1 DEF Less
    <2>5. \A x \in Slaves : mode[x] # "listen" /\ ts[x] \in Nat => ts'[x] = ts[x] - 1 /\ ts'[x] \in Nat
      BY <2>1 DEF Less
    <2>a. \A x \in Slaves : ts[x] # NoTimer => ts[x] \in Nat
      BY <1>t
    <2>6. ~swallowed' /\ (~asking' => \A x \in Live : mode'[x] = "listen")
      BY <2>1, <1>q DEF InStep
    <2>7. \A x \in Slaves : due'[x] # NotDue => asking' /\ x = target' /\ x \in Live
      BY <2>1, <2>2, <1>q DEF InStep
    <2>8. asking' /\ target' \in Live =>
            /\ mode'[target'] = "listen" /\ due'[target'] # NotDue /\ due'[target'] < tm'
            /\ \A x \in Live \ {target'} : mode'[x] = "ignore" /\ due'[target'] < ts'[x]
      BY <2>1, <2>2, <2>3, <2>4, <2>5, <2>a, <1>q, <1>t DEF InStep, NoTimer
    <2>9. asking' /\ target' \notin Live =>
            \A x \in Live : mode'[x] # "listen" => mode'[x] = "ignore" /\ ts'[x] \in Nat /\ ts'[x] < tm'
      BY <2>1, <2>4, <2>5, <1>q, <1>t DEF InStep
    <2> QED
      BY <2>6, <2>7, <2>8, <2>9, <1>q DEF InStep
  <1>6. CASE UNCHANGED vars
    BY <1>6, <1>q DEF vars, InStep
  <1> QED
    BY <1>1, <1>2, <1>3, <1>4, <1>5, <1>6 DEF Next

\* With nothing lost, no slave takes a request for the answer to another: with all slaves on
\* whatever the master's timeout, with some off if the slaves' timeout ends before it.
THEOREM NoneEverSwallowed == Spec => []NoneSwallowed
  <1>1. StepInv => NoneSwallowed
    BY DEF StepInv, InStep, Quiet, NoneSwallowed
  <1> QED
    BY <1>1, InitType, NextType, InitStep, NextStep, PTL DEF Spec
=============================================================================

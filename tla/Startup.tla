------------------------------ MODULE Startup ------------------------------
(***************************************************************************)
(* main up to the moment the poller runs: the time zone, Configs::init     *)
(* over solar.conf, parse_args over the command line, db.open, one table   *)
(* per device; and the read of the arrays by the first insert.  Nothing    *)
(* runs beside it: one action is one turn of a loop.  InvIOT goes on from  *)
(* "running" with what is loaded here.                                     *)
(***************************************************************************)
EXTENDS Integers, SequencesExt

CONSTANTS
    MAX_INV_NUM,   \* entries of invConfigs
    SerialSize,    \* of inv_conf::serial
    DC_NUM_MAX,    \* entries of Voltage, Current and Power
    UCharRange,    \* 2^8
    UIntRange,     \* 2^32
    Atoi,          \* token -> what atoi makes of it
    Commands,      \* command lines, without argv[0]
    Files          \* contents of solar.conf, see FileType

\* whole: every member is there and has its type; serial is the length of the text.  A plant
\* has a list of devices, or none, being null or an object with something else, or is no object.
DeviceType == [whole : BOOLEAN, mppt : Nat, serial : Nat]
PlantType == [form : {"list", "no list", "no object"}, devices : Seq(DeviceType)]
FileType ==
    [form : {"absent", "malformed", "json"}, hasDuration : BOOLEAN,
     isArray : BOOLEAN, plants : Seq(PlantType)]

ASSUME StartupAssumption ==
    /\ MAX_INV_NUM \in Nat /\ SerialSize \in Nat /\ DC_NUM_MAX \in Nat
    /\ UCharRange \in Nat \ {0} /\ UIntRange \in Nat \ {0}
    /\ \A t \in DOMAIN Atoi : Atoi[t] \in Int
    /\ \A c \in Commands : c \in Seq(DOMAIN Atoi)
    /\ \A f \in Files : f \in FileType

VARIABLES
    file, argv,      \* what the process is given
    pc,
    plant, device,   \* i and k of Configs::init, from 1
    invConfigs,      \* mppt of each entry; numOfInverter is its length
    arg,             \* i of parse_args
    ret,             \* of parse_args
    count, trace,    \* options
    tables           \* columns per string, of each table created

vars == <<file, argv, pc, plant, device, invConfigs, arg, ret, count, trace, tables>>
confVars == <<plant, device, invConfigs>>
argVars == <<arg, ret, count, trace>>

\* "abort": an exception nobody catches; "undefined": the program has no meaning any more.
Final == {"exit", "abort", "undefined", "running"}

TypeOK ==
    /\ file \in Files /\ argv \in Commands
    /\ pc \in Final \union {"zone", "init", "load", "args", "open", "create"}
    /\ plant \in 1 .. Len(file.plants) + 1
    /\ device \in Nat \ {0}
    /\ Len(invConfigs) <= MAX_INV_NUM /\ invConfigs \in Seq(0 .. UCharRange - 1)
    /\ arg \in 1 .. Len(argv) + 1
    /\ ret \in BOOLEAN /\ trace \in BOOLEAN /\ count \in 0 .. UIntRange - 1
    /\ Len(tables) <= Len(invConfigs) /\ tables \in Seq(0 .. UCharRange - 1)

Init ==
    /\ file \in Files /\ argv \in Commands
    /\ pc = "zone"
    /\ plant = 1 /\ device = 1 /\ invConfigs = <<>>
    /\ arg = 1 /\ ret = TRUE /\ count = 0 /\ trace = FALSE
    /\ tables = <<>>

Goto(p) == pc' = p

----------------------------------------------------------------------------
\* main asks for the zone first.
LocalTimeInit(ok) ==
    /\ pc = "zone"
    /\ Goto(IF ok THEN "init" ELSE "exit")
    /\ UNCHANGED <<file, argv, confVars, argVars, tables>>

\* Configs::init up to its loops.  parse throws rather than return a discarded value, and
\* the conversion of a duration that is missing throws.
OpenConf ==
    /\ pc = "init"
    /\ \/ file.form = "absent" /\ Goto("exit")
       \/ file.form = "malformed" /\ Goto("abort")
       \/ file.form = "json" /\ ~file.hasDuration /\ Goto("abort")
       \/ file.form = "json" /\ file.hasDuration /\ Goto(IF file.isArray THEN "load" ELSE "exit")
    /\ UNCHANGED <<file, argv, confVars, argVars, tables>>

Plant == file.plants[plant]
InPlant == pc = "load" /\ plant <= Len(file.plants)

\* Seeded fault: numOfInverter is counted before it is used.
SlotNext(n) == n + 1

\* The entry of invConfigs that device number n, from 0, goes to.
Slot(n) == n

\* from_json and the copy to invConfigs: j.at and get_to throw, strcpy does not look at the
\* size, nor does anything look at the number of entries.
LoadDevice ==
    /\ InPlant /\ Plant.form = "list" /\ device <= Len(Plant.devices)
    /\ LET d == Plant.devices[device] IN
       \/ ~d.whole /\ Goto("abort") /\ UNCHANGED confVars
       \/ /\ d.whole /\ (d.serial >= SerialSize \/ Slot(Len(invConfigs)) >= MAX_INV_NUM)
          /\ Goto("undefined") /\ UNCHANGED confVars
       \/ /\ d.whole /\ d.serial < SerialSize /\ Slot(Len(invConfigs)) < MAX_INV_NUM
          /\ invConfigs' = Append(invConfigs, d.mppt % UCharRange)
          /\ device' = device + 1
          /\ UNCHANGED <<pc, plant>>
    /\ UNCHANGED <<file, argv, argVars, tables>>

\* Seeded fault: k is not set back.
NextPlantKeeps ==
    /\ InPlant /\ Plant.form = "list" /\ device > Len(Plant.devices)
    /\ plant' = plant + 1
    /\ UNCHANGED <<file, argv, pc, device, invConfigs, argVars, tables>>

\* Seeded fault: a plant without devices is looked at again.
NextPlantUnlessEmpty ==
    /\ InPlant /\ Plant.form = "list" /\ device > Len(Plant.devices)
    /\ plant' = IF Len(Plant.devices) = 0 THEN plant ELSE plant + 1
    /\ device' = 1
    /\ UNCHANGED <<file, argv, pc, invConfigs, argVars, tables>>

NextPlant ==
    /\ InPlant /\ Plant.form = "list" /\ device > Len(Plant.devices)
    /\ plant' = plant + 1
    /\ device' = 1
    /\ UNCHANGED <<file, argv, pc, invConfigs, argVars, tables>>

\* Seeded fault: a plant without a list is passed over, as if it had no devices.
RefusePlantPasses ==
    /\ InPlant /\ Plant.form # "list"
    /\ plant' = plant + 1
    /\ UNCHANGED <<file, argv, pc, device, invConfigs, argVars, tables>>

\* j_plant["devices"] throws, or init returns false, with the devices of the plants before
\* this one loaded.
RefusePlant ==
    /\ InPlant /\ Plant.form # "list"
    /\ Goto(IF Plant.form = "no object" THEN "abort" ELSE "exit")
    /\ UNCHANGED <<file, argv, confVars, argVars, tables>>

Loaded ==
    /\ pc = "load" /\ plant > Len(file.plants)
    /\ Goto("args")
    /\ UNCHANGED <<file, argv, confVars, argVars, tables>>

----------------------------------------------------------------------------
\* Seeded fault: i is counted once more after the value of -c.
SkipTwice(i) == i + 3

\* Where the loop goes on after "-c" at i: behind its value.
Skip(i) == i + 2

\* One turn of parse_args.  argv ends with a null pointer, which atoi must not get.
ParseArg ==
    /\ pc = "args" /\ arg <= Len(argv)
    /\ \/ argv[arg] = "-v" /\ ret' = TRUE /\ arg' = arg + 1 /\ UNCHANGED <<pc, count, trace>>
       \/ argv[arg] = "-T" /\ ret' = TRUE /\ trace' = TRUE /\ arg' = arg + 1 /\ UNCHANGED <<pc, count>>
       \/ /\ argv[arg] = "-c" /\ arg < Len(argv)
          /\ count' = Atoi[argv[arg + 1]] % UIntRange
          /\ ret' = TRUE /\ arg' = Skip(arg)
          /\ UNCHANGED <<pc, trace>>
       \/ argv[arg] = "-c" /\ arg = Len(argv) /\ Goto("undefined") /\ UNCHANGED argVars
       \/ argv[arg] \notin {"-v", "-T", "-c"} /\ ret' = FALSE /\ arg' = arg + 1 /\ UNCHANGED <<pc, count, trace>>
    /\ UNCHANGED <<file, argv, confVars, tables>>

ParsedArgs ==
    /\ pc = "args" /\ arg > Len(argv)
    /\ Goto(IF ret THEN "open" ELSE "exit")
    /\ UNCHANGED <<file, argv, confVars, argVars, tables>>

DbOpen(ok) ==
    /\ pc = "open"
    /\ Goto(IF ok THEN "create" ELSE "exit")
    /\ UNCHANGED <<file, argv, confVars, argVars, tables>>

DbCreate(ok) ==
    /\ pc = "create" /\ Len(tables) < Len(invConfigs)
    /\ IF ok THEN tables' = Append(tables, invConfigs[Len(tables) + 1]) /\ UNCHANGED pc
             ELSE Goto("exit") /\ UNCHANGED tables
    /\ UNCHANGED <<file, argv, confVars, argVars>>

Run ==
    /\ pc = "create" /\ Len(tables) = Len(invConfigs)
    /\ Goto("running")
    /\ UNCHANGED <<file, argv, confVars, argVars, tables>>

\* The first insert into table t reads as many entries of the arrays as there are columns.
FirstInsert(t) ==
    /\ pc = "running" /\ t \in DOMAIN tables
    /\ tables[t] > DC_NUM_MAX
    /\ Goto("undefined")
    /\ UNCHANGED <<file, argv, confVars, argVars, tables>>

Next ==
    \/ \E ok \in BOOLEAN : LocalTimeInit(ok) \/ DbOpen(ok) \/ DbCreate(ok)
    \/ OpenConf \/ LoadDevice \/ NextPlant \/ RefusePlant \/ Loaded
    \/ ParseArg \/ ParsedArgs
    \/ Run
    \/ \E t \in 1 .. MAX_INV_NUM : FirstInsert(t)

Spec == Init /\ [][Next]_vars

\* A thread that can run does.
FairSpec == Spec /\ WF_vars(Next)

----------------------------------------------------------------------------
\* Properties.

\* All devices of the file, in its order.
Devices == FlattenSeq([p \in DOMAIN file.plants |-> file.plants[p].devices])

\* argv[i] is an option: not the value of a "-c" before it.
OptionsOf(a) ==
    LET isOption[i \in Nat \ {0}] == IF i = 1 THEN TRUE ELSE ~(isOption[i - 1] /\ a[i - 1] = "-c")
    IN  isOption
Options == {i \in DOMAIN argv : OptionsOf(argv)[i]}
CountOptions == {i \in Options : argv[i] = "-c"}

DevicesInOrder ==
    /\ invConfigs = [n \in DOMAIN Devices |-> Devices[n].mppt % UCharRange]
    /\ tables = invConfigs

OptionsTaken ==
    /\ count = IF CountOptions = {} THEN 0 ELSE Atoi[argv[Max(CountOptions) + 1]] % UIntRange
    /\ trace <=> \E i \in Options : argv[i] = "-T"
    /\ Options # {} => argv[Max(Options)] \in {"-v", "-T", "-c"}

\* Everything Configs::init looks at is there, has its type and fits.
FileFits ==
    /\ file.form = "json" /\ file.hasDuration /\ file.isArray
    /\ \A p \in DOMAIN file.plants :
         LET r == file.plants[p] IN
         r.form = "list" /\ \A k \in DOMAIN r.devices : r.devices[k].whole /\ r.devices[k].serial < SerialSize

\* The poller starts with all devices of all plants, table data_<i> for the i-th of the
\* file, with the count of the last -c, and with -T only where it is no value of a -c; never
\* on part of a file, though init leaves the plants before a fault in invConfigs.  No exception
\* ends the process over a file that is as expected.
RunsAsGiven ==
    /\ pc = "running" => FileFits /\ DevicesInOrder /\ OptionsTaken
    /\ pc = "abort" => ~FileFits

\* Each way to undefined behaviour takes an input beyond a limit nothing in the code states:
\* too many devices, a serial too long, more strings than the arrays have, a -c at the end.
UndefinedOnlyBeyondLimits ==
    pc = "undefined" =>
        \/ Len(Devices) > MAX_INV_NUM
        \/ \E n \in DOMAIN Devices : Devices[n].serial >= SerialSize
        \/ \E n \in DOMAIN Devices : Devices[n].mppt % UCharRange > DC_NUM_MAX
        \/ Len(argv) \in CountOptions

\* main gets to the poller or ends, whatever it is given.
StartEnds == <>(pc \in Final)
=============================================================================

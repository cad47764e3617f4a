--------------------------- MODULE StartupProofs ---------------------------
(***************************************************************************)
(* Theorems about Startup, for every file and every command line.  First   *)
(* what its properties speak of, the devices of the whole file and the     *)
(* options of the whole command line, is brought into steps: the devices   *)
(* before a plant, and whether the next argument is an option.             *)
(***************************************************************************)
EXTENDS Startup, Recursion

DevicesIn(f) == FlattenSeq([p \in DOMAIN f.plants |-> f.plants[p].devices])

\* The devices of the plants before plant p.
Before(f, p) == FlattenSeq([k \in 1 .. p - 1 |-> f.plants[k].devices])

Entry(d) == d.mppt % UCharRange

\* The loops of Configs::init have taken the devices of the plants before this one, and of
\* this one those before device.
LoadInv ==
    /\ pc \in {"zone", "init"} => plant = 1 /\ device = 1 /\ invConfigs = <<>>
    /\ pc = "load" =>
         /\ Len(invConfigs) = Len(Before(file, plant)) + (device - 1)
         /\ plant <= Len(file.plants) => device <= Len(Plant.devices) + 1
         /\ plant > Len(file.plants) => device = 1
         /\ \A n \in 1 .. Len(invConfigs) : invConfigs[n] = Entry(DevicesIn(file)[n])
    /\ pc \in {"args", "open", "create", "running"} =>
         /\ Len(invConfigs) = Len(DevicesIn(file))
         /\ \A n \in 1 .. Len(invConfigs) : invConfigs[n] = Entry(DevicesIn(file)[n])

DeviceFits(p, k) ==
    file.plants[p].devices[k].whole /\ file.plants[p].devices[k].serial < SerialSize

PlantFits(p) ==
    /\ file.plants[p].form = "list"
    /\ \A k \in 1 .. Len(file.plants[p].devices) : DeviceFits(p, k)

\* Nothing that has been looked at so far is amiss; an exception has found something.
FitsInv ==
    /\ pc = "load" =>
         /\ file.form = "json" /\ file.hasDuration /\ file.isArray
         /\ \A p \in 1 .. plant - 1 : PlantFits(p)
         /\ plant <= Len(file.plants) => \A k \in 1 .. device - 1 : DeviceFits(plant, k)
    /\ pc \in {"args", "open", "create", "running"} => FileFits
    /\ pc = "abort" => ~FileFits

TablesInv ==
    /\ pc \in {"zone", "init", "load", "args", "open"} => tables = <<>>
    /\ pc \in {"create", "running"} => \A i \in 1 .. Len(tables) : tables[i] = invConfigs[i]
    /\ pc = "running" => Len(tables) = Len(invConfigs)

\* The options before argument n, and those of them that are -c.
OptionsBefore(a, n) == {i \in DOMAIN a : i < n /\ OptionsOf(a)[i]}
CountsBefore(a, n) == {i \in OptionsBefore(a, n) : a[i] = "-c"}

CountAfter(a, n) ==
    IF CountsBefore(a, n) = {} THEN 0 ELSE Atoi[a[Max(CountsBefore(a, n)) + 1]] % UIntRange

\* parse_args has taken the options before arg, and what is at arg is one.
ArgsInv ==
    /\ pc \in {"zone", "init", "load"} => arg = 1 /\ ret = TRUE /\ count = 0 /\ trace = FALSE
    /\ pc \in {"args", "open", "create", "running"} =>
         /\ OptionsOf(argv)[arg]
         /\ count = CountAfter(argv, arg)
         /\ trace <=> \E i \in OptionsBefore(argv, arg) : argv[i] = "-T"
         /\ OptionsBefore(argv, arg) # {} =>
              (ret <=> argv[Max(OptionsBefore(argv, arg))] \in {"-v", "-T", "-c"})
    /\ pc \in {"open", "create", "running"} => arg = Len(argv) + 1 /\ ret

IInv == TypeOK /\ LoadInv /\ FitsInv /\ TablesInv /\ ArgsInv /\ UndefinedOnlyBeyondLimits

----------------------------------------------------------------------------
\* The devices of a file.

\* A file has plants, a plant has devices.
LEMMA FileTyped ==
    ASSUME NEW f \in Files
    PROVE  /\ f.plants \in Seq(PlantType) /\ Len(f.plants) \in Nat
           /\ \A p \in 1 .. Len(f.plants) :
                /\ f.plants[p] \in PlantType
                /\ f.plants[p].devices \in Seq(DeviceType)
                /\ Len(f.plants[p].devices) \in Nat
  <1>1. f \in FileType
    BY StartupAssumption
  <1>2. f.plants \in Seq(PlantType)
    BY <1>1 DEF FileType
  <1>3. ASSUME NEW p \in 1 .. Len(f.plants)
        PROVE  f.plants[p] \in PlantType /\ f.plants[p].devices \in Seq(DeviceType)
    <2>1. f.plants[p] \in PlantType
      BY <1>2
    <2> QED
      BY <2>1 DEF PlantType
  <1>4. ASSUME NEW p \in 1 .. Len(f.plants) PROVE Len(f.plants[p].devices) \in Nat
    BY <1>3
  <1> QED
    BY <1>2, <1>3, <1>4

\* A device has its type.
LEMMA DeviceTyped ==
    ASSUME NEW f \in Files, NEW p \in 1 .. Len(f.plants), NEW d \in 1 .. Len(f.plants[p].devices)
    PROVE  f.plants[p].devices[d] \in DeviceType /\ f.plants[p].devices[d].mppt \in Nat
  <1> DEFINE ds == f.plants[p].devices
  <1>1. ds \in Seq(DeviceType)
    BY FileTyped
  <1> HIDE DEF ds
  <1>2. d \in 1 .. Len(ds)
    BY DEF ds
  <1>3. ds[d] \in DeviceType
    BY <1>1, <1>2
  <1> QED
    BY <1>3 DEF DeviceType, ds

\* An element of a sequence over S is in S.
LEMMA SeqElement == ASSUME NEW S, NEW s \in Seq(S), NEW i \in 1 .. Len(s) PROVE s[i] \in S
  OBVIOUS

\* A remainder is below its modulus: the width of the fields.
LEMMA ModRange == ASSUME NEW x \in Int, NEW m \in Nat \ {0} PROVE x % m \in 0 .. m - 1
  OBVIOUS

\* The lists of devices of the first plants are sequences of sequences.
LEMMA ListsTyped ==
    ASSUME NEW f \in Files, NEW p \in 0 .. Len(f.plants)
    PROVE  /\ [k \in 1 .. p |-> f.plants[k].devices] \in Seq(Seq(DeviceType))
           /\ Len([k \in 1 .. p |-> f.plants[k].devices]) = p
  <1>1. p \in Nat /\ p <= Len(f.plants)
    BY FileTyped
  <1>2. ASSUME NEW k \in 1 .. p PROVE f.plants[k].devices \in Seq(DeviceType)
    <2>1. k \in 1 .. Len(f.plants)
      BY <1>1, FileTyped
    <2> QED
      BY <2>1, FileTyped
  <1>3. [k \in 1 .. p |-> f.plants[k].devices] \in [1 .. p -> Seq(DeviceType)]
    BY <1>2
  <1> QED
    BY <1>1, <1>3

\* The devices before a plant are a sequence of devices.
LEMMA BeforeTyped ==
    ASSUME NEW f \in Files, NEW p \in 1 .. Len(f.plants) + 1
    PROVE  Before(f, p) \in Seq(DeviceType) /\ Len(Before(f, p)) \in Nat
  <1>1. Len(f.plants) \in Nat /\ p - 1 \in 0 .. Len(f.plants)
    BY FileTyped
  <1>2. Before(f, p) \in Seq(DeviceType)
    BY <1>1, ListsTyped, FlattenType DEF Before
  <1> QED
    BY <1>2

\* Nothing is before the first plant.
LEMMA BeforeFirst == ASSUME NEW f \in Files PROVE Before(f, 1) = <<>>
  <1>1. [k \in 1 .. 1 - 1 |-> f.plants[k].devices] = <<>>
    OBVIOUS
  <1> QED
    BY <1>1, FlattenEmpty DEF Before

\* What is before the end of the plants is all devices.
LEMMA BeforeEnd ==
    ASSUME NEW f \in Files
    PROVE  Before(f, Len(f.plants) + 1) = DevicesIn(f)
  <1>1. Len(f.plants) \in Nat /\ (Len(f.plants) + 1) - 1 = Len(f.plants)
    BY FileTyped
  <1>2. DOMAIN f.plants = 1 .. Len(f.plants)
    BY FileTyped
  <1> QED
    BY <1>1, <1>2 DEF Before, DevicesIn

\* A plant adds its devices.
LEMMA BeforeNext ==
    ASSUME NEW f \in Files, NEW p \in 1 .. Len(f.plants)
    PROVE  Before(f, p + 1) = Before(f, p) \o f.plants[p].devices
  <1> DEFINE lists(n) == [k \in 1 .. n |-> f.plants[k].devices]
  <1>1. /\ Len(f.plants) \in Nat /\ p - 1 \in 0 .. Len(f.plants) /\ p \in 0 .. Len(f.plants)
        /\ (p + 1) - 1 = p /\ (p - 1) + 1 = p
    BY FileTyped
  <1>2. /\ lists(p - 1) \in Seq(Seq(DeviceType)) /\ Len(lists(p - 1)) = p - 1
        /\ lists(p) \in Seq(Seq(DeviceType)) /\ Len(lists(p)) = p
    BY <1>1, ListsTyped
  <1>3. f.plants[p].devices \in Seq(DeviceType)
    BY FileTyped
  <1>4. lists(p) = Append(lists(p - 1), f.plants[p].devices)
    <2> DEFINE more == Append(lists(p - 1), f.plants[p].devices)
    <2>1. more \in Seq(Seq(DeviceType)) /\ Len(more) = p
      BY <1>1, <1>2, <1>3
    <2>2. ASSUME NEW k \in 1 .. p PROVE lists(p)[k] = more[k]
      <3>1. CASE k = p
        BY <1>1, <1>2, <1>3, <3>1
      <3>2. CASE k # p
        <4>1. k \in 1 .. p - 1
          BY <1>1, <3>2
        <4>2. more[k] = lists(p - 1)[k]
          BY <1>2, <1>3, <4>1
        <4> QED
          BY <4>1, <4>2
      <3> QED
        BY <3>1, <3>2
    <2> HIDE DEF lists, more
    <2>3. lists(p) = more
      BY <1>2, <2>1, <2>2
    <2> QED
      BY <2>3 DEF more
  <1> HIDE DEF lists
  <1>5. FlattenSeq(lists(p)) = FlattenSeq(lists(p - 1)) \o f.plants[p].devices
    BY <1>2, <1>3, <1>4, FlattenAppend
  <1> QED
    BY <1>1, <1>5 DEF Before, lists

\* All devices are a sequence of devices.
LEMMA DevicesTyped ==
    ASSUME NEW f \in Files
    PROVE  DevicesIn(f) \in Seq(DeviceType) /\ Len(DevicesIn(f)) \in Nat
  <1>1. Len(f.plants) + 1 \in 1 .. Len(f.plants) + 1
    BY FileTyped
  <1> QED
    BY <1>1, BeforeEnd, BeforeTyped

\* s is how t begins.
Begins(s, t) == Len(s) <= Len(t) /\ \A n \in 1 .. Len(s) : s[n] = t[n]

\* A sequence is how it begins with another one behind it.
LEMMA BeginsConcat ==
    ASSUME NEW s \in Seq(DeviceType), NEW t \in Seq(DeviceType)
    PROVE  Begins(s, s \o t)
  BY DEF Begins

\* If t begins with s and u with t, then u begins with s.
LEMMA BeginsTransitive ==
    ASSUME NEW s \in Seq(DeviceType), NEW t \in Seq(DeviceType), NEW u \in Seq(DeviceType),
           Begins(s, t), Begins(t, u)
    PROVE  Begins(s, u)
  BY DEF Begins

\* The devices before a plant are how the devices of the file begin, by induction from the
\* last plant back.
LEMMA BeforeBegins ==
    ASSUME NEW f \in Files, NEW p \in 1 .. Len(f.plants) + 1
    PROVE  Begins(Before(f, p), DevicesIn(f))
  <1> DEFINE L == Len(f.plants)
             T == {k \in Nat : k <= L => Begins(Before(f, L + 1 - k), DevicesIn(f))}
  <1>1. L \in Nat
    BY FileTyped
  <1> HIDE DEF L
  <1>2. 0 \in T
    <2>1. L + 1 - 0 = L + 1
      BY <1>1
    <2>2. Begins(DevicesIn(f), DevicesIn(f))
      BY DevicesTyped DEF Begins
    <2> QED
      BY <2>1, <2>2, BeforeEnd DEF L
  <1>3. ASSUME NEW k \in Nat, k \in T PROVE k + 1 \in T
    <2> SUFFICES ASSUME k + 1 <= L PROVE Begins(Before(f, L + 1 - (k + 1)), DevicesIn(f))
      OBVIOUS
    <2> DEFINE r == L + 1 - (k + 1)
    <2>1. r \in 1 .. L /\ r + 1 = L + 1 - k /\ r + 1 \in 1 .. L + 1 /\ r \in 1 .. L + 1 /\ k <= L
      BY <1>1
    <2> HIDE DEF r
    <2>2. Before(f, r + 1) = Before(f, r) \o f.plants[r].devices
      BY <2>1, BeforeNext DEF L
    <2>3. Before(f, r) \in Seq(DeviceType) /\ Before(f, r + 1) \in Seq(DeviceType)
      BY <2>1, BeforeTyped DEF L
    <2>4. f.plants[r].devices \in Seq(DeviceType)
      BY <2>1, FileTyped DEF L
    <2>5. Begins(Before(f, r), Before(f, r + 1))
      BY <2>2, <2>3, <2>4, BeginsConcat
    <2>6. Begins(Before(f, r + 1), DevicesIn(f))
      BY <1>3, <2>1
    <2>7. Begins(Before(f, r), DevicesIn(f))
      BY <2>3, <2>5, <2>6, BeginsTransitive, DevicesTyped
    <2> QED
      BY <2>7 DEF r
  <1> HIDE DEF T
  <1>4. Nat \subseteq T
    BY <1>2, <1>3, SetInduction
  <1> DEFINE k == (L + 1) - p
  <1>5. k \in Nat /\ k <= L /\ L + 1 - k = p
    BY <1>1 DEF L
  <1> HIDE DEF k
  <1>6. k \in T
    BY <1>4, <1>5
  <1>7. Begins(Before(f, L + 1 - k), DevicesIn(f))
    BY <1>5, <1>6 DEF T
  <1> QED
    BY <1>5, <1>7

\* Where device d of plant p is among the devices of the file.
LEMMA PlaceOfDevice ==
    ASSUME NEW f \in Files, NEW p \in 1 .. Len(f.plants), NEW d \in 1 .. Len(f.plants[p].devices)
    PROVE  /\ Len(Before(f, p)) + d \in 1 .. Len(DevicesIn(f))
           /\ DevicesIn(f)[Len(Before(f, p)) + d] = f.plants[p].devices[d]
  <1> DEFINE s == Before(f, p)
             t == f.plants[p].devices
  <1>1. s \in Seq(DeviceType) /\ t \in Seq(DeviceType) /\ Before(f, p + 1) = s \o t
    <2>1. p \in 1 .. Len(f.plants) + 1
      BY FileTyped
    <2> QED
      BY <2>1, FileTyped, BeforeTyped, BeforeNext
  <1>2. Begins(s \o t, DevicesIn(f))
    <2>1. p + 1 \in 1 .. Len(f.plants) + 1
      BY FileTyped
    <2> QED
      BY <1>1, <2>1, BeforeBegins
  <1>3. d \in 1 .. Len(t)
    OBVIOUS
  <1> HIDE DEF s, t
  <1>4. Len(s) + d \in 1 .. Len(s \o t) /\ (s \o t)[Len(s) + d] = t[d]
    BY <1>1, <1>3
  <1>5. Len(DevicesIn(f)) \in Nat /\ Len(s \o t) \in Nat
    BY <1>1, DevicesTyped
  <1>6. Len(s) + d \in 1 .. Len(DevicesIn(f)) /\ DevicesIn(f)[Len(s) + d] = t[d]
    BY <1>2, <1>4, <1>5 DEF Begins
  <1> QED
    BY <1>6 DEF s, t

----------------------------------------------------------------------------
\* The options of a command line.

\* The recursive definition of OptionsOf is one: there is such a function.
LEMMA OptionsUnrolled ==
    ASSUME NEW a
    PROVE  OptionsOf(a) = [i \in Nat \ {0} |->
             IF i = 1 THEN TRUE ELSE ~(OptionsOf(a)[i - 1] /\ a[i - 1] = "-c")]
  <1> DEFINE Eqn(g) == g = [i \in Nat \ {0} |->
                              IF i = 1 THEN TRUE ELSE ~(g[i - 1] /\ a[i - 1] = "-c")]
             step == [n \in Nat |-> [b \in BOOLEAN |-> ~(b /\ a[n + 1] = "-c")]]
             S == BOOLEAN
             first == TRUE
  <1>1. first \in S /\ IsStep(step, S)
    BY DEF IsStep
  <1> HIDE DEF step, S, first
  <1>2. PICK f : Recurs(f, S, first, step)
    BY <1>1, PrimitiveRecursion
  <1>3. f \in [Nat -> BOOLEAN] /\ f[0] = TRUE /\ \A n \in Nat : f[n + 1] = step[n][f[n]]
    BY <1>2 DEF Recurs, S, first
  <1>4. ASSUME NEW n \in Nat PROVE f[n + 1] = ~(f[n] /\ a[n + 1] = "-c")
    <2>1. f[n] \in BOOLEAN
      BY <1>3
    <2>2. step[n][f[n]] = ~(f[n] /\ a[n + 1] = "-c")
      BY <2>1 DEF step
    <2> QED
      BY <1>3, <2>2
  <1> DEFINE w == [i \in Nat \ {0} |-> f[i - 1]]
  <1>5. Eqn(w)
    <2>1. ASSUME NEW i \in Nat \ {0}
          PROVE  w[i] = IF i = 1 THEN TRUE ELSE ~(w[i - 1] /\ a[i - 1] = "-c")
      <3>1. CASE i = 1
        <4>1. i - 1 = 0 /\ w[i] = f[i - 1]
          BY <3>1
        <4>2. w[i] = TRUE
          BY <1>3, <4>1
        <4> QED
          BY <3>1, <4>2
      <3>2. CASE i # 1
        <4>1. i - 2 \in Nat /\ (i - 2) + 1 = i - 1 /\ i - 1 \in Nat \ {0} /\ (i - 1) - 1 = i - 2
          BY <3>2
        <4>2. f[i - 1] = ~(f[i - 2] /\ a[i - 1] = "-c")
          BY <1>4, <4>1
        <4>3. w[i] = f[i - 1] /\ w[i - 1] = f[i - 2]
          BY <4>1
        <4> QED
          BY <3>2, <4>2, <4>3
      <3> QED
        BY <3>1, <3>2
    <2>2. w = [i \in Nat \ {0} |-> w[i]]
      OBVIOUS
    <2> HIDE DEF w
    <2>3. w = [i \in Nat \ {0} |-> IF i = 1 THEN TRUE ELSE ~(w[i - 1] /\ a[i - 1] = "-c")]
      BY <2>1, <2>2
    <2> QED
      BY <2>3
  <1> HIDE DEF w
  <1>6. OptionsOf(a) = CHOOSE g : Eqn(g)
    BY DEF OptionsOf
  <1> HIDE DEF Eqn
  <1>7. Eqn(OptionsOf(a))
    BY <1>5, <1>6
  <1> QED
    BY <1>7 DEF Eqn

\* The first argument is an option.
LEMMA FirstIsOption == ASSUME NEW a PROVE OptionsOf(a)[1] = TRUE
  <1>1. 1 \in Nat \ {0}
    OBVIOUS
  <1> QED
    BY <1>1, OptionsUnrolled

\* The argument behind an option is one, and the value of a -c is none.
LEMMA NextIsOption ==
    ASSUME NEW a, NEW i \in Nat \ {0}
    PROVE  OptionsOf(a)[i + 1] = ~(OptionsOf(a)[i] /\ a[i] = "-c")
  <1> DEFINE o == OptionsOf(a)
             n == i + 1
  <1>1. n \in Nat \ {0} /\ n # 1 /\ n - 1 = i
    OBVIOUS
  <1>2. o = [k \in Nat \ {0} |-> IF k = 1 THEN TRUE ELSE ~(o[k - 1] /\ a[k - 1] = "-c")]
    BY OptionsUnrolled
  <1> HIDE DEF o, n
  <1>3. o[n] = IF n = 1 THEN TRUE ELSE ~(o[n - 1] /\ a[n - 1] = "-c")
    BY <1>1, <1>2
  <1>4. o[n] = ~(o[i] /\ a[i] = "-c")
    BY <1>1, <1>3
  <1> QED
    BY <1>4 DEF o, n

\* Max gives the element that none exceeds.
LEMMA MaxIs ==
    ASSUME NEW T, T \subseteq Int, NEW m \in T, \A x \in T : x <= m
    PROVE  Max(T) = m
  <1>1. \A y \in T : m >= y
    OBVIOUS
  <1>2. \A x \in T : (\A y \in T : x >= y) => x = m
    OBVIOUS
  <1> QED
    BY <1>1, <1>2 DEF Max

\* The options before the argument behind option i, which is i and, where it is a -c, its
\* value.
LEMMA OptionsGrow ==
    ASSUME NEW a \in Seq(DOMAIN Atoi), NEW i \in 1 .. Len(a), OptionsOf(a)[i]
    PROVE  /\ a[i] # "-c" =>
                OptionsOf(a)[i + 1] /\ OptionsBefore(a, i + 1) = OptionsBefore(a, i) \union {i}
           /\ a[i] = "-c" =>
                OptionsOf(a)[i + 2] /\ OptionsBefore(a, i + 2) = OptionsBefore(a, i) \union {i}
  <1>1. /\ i \in Nat \ {0} /\ i + 1 \in Nat \ {0} /\ (i + 1) + 1 = i + 2
        /\ DOMAIN a = 1 .. Len(a) /\ Len(a) \in Nat
    OBVIOUS
  <1>2. CASE a[i] # "-c"
    <2>1. OptionsOf(a)[i + 1]
      BY <1>1, <1>2, NextIsOption
    <2>2. ASSUME NEW j \in 1 .. Len(a) PROVE j < i + 1 <=> j < i \/ j = i
      BY <1>1
    <2> QED
      BY <1>1, <1>2, <2>1, <2>2 DEF OptionsBefore
  <1>3. CASE a[i] = "-c"
    <2>1. OptionsOf(a)[i + 1] = FALSE
      BY <1>1, <1>3, NextIsOption
    <2>2. OptionsOf(a)[i + 2]
      BY <1>1, <2>1, NextIsOption
    <2>3. ASSUME NEW j \in 1 .. Len(a) PROVE j < i + 2 <=> j < i \/ j = i \/ j = i + 1
      BY <1>1
    <2> QED
      BY <1>1, <1>3, <2>1, <2>2, <2>3 DEF OptionsBefore
  <1> QED
    BY <1>2, <1>3

\* Option i is the last before the argument behind it.
LEMMA LastOption ==
    ASSUME NEW a \in Seq(DOMAIN Atoi), NEW i \in 1 .. Len(a)
    PROVE  /\ Max(OptionsBefore(a, i) \union {i}) = i
           /\ Max(CountsBefore(a, i) \union {i}) = i
  <1>1. /\ OptionsBefore(a, i) \subseteq Nat /\ CountsBefore(a, i) \subseteq Nat
        /\ i \in Nat
    BY DEF OptionsBefore, CountsBefore
  <1>2. \A j \in OptionsBefore(a, i) \union CountsBefore(a, i) : j <= i
    <2>1. ASSUME NEW j \in 1 .. Len(a), j < i PROVE j <= i
      BY <2>1
    <2> QED
      BY <2>1 DEF OptionsBefore, CountsBefore
  <1> DEFINE T == OptionsBefore(a, i) \union {i}
             U == CountsBefore(a, i) \union {i}
  <1>3. T \subseteq Int /\ i \in T /\ \A x \in T : x <= i
    BY <1>1, <1>2
  <1>4. U \subseteq Int /\ i \in U /\ \A x \in U : x <= i
    BY <1>1, <1>2
  <1> HIDE DEF T, U
  <1>5. Max(T) = i
    BY <1>3, MaxIs
  <1>6. Max(U) = i
    BY <1>4, MaxIs
  <1> QED
    BY <1>5, <1>6 DEF T, U

----------------------------------------------------------------------------
\* The invariant, part by part.

\* The invariant holds of every process that starts.
LEMMA StartInit == Init => IInv
  <1> SUFFICES ASSUME Init PROVE IInv
    OBVIOUS
  <1>1. file \in Files /\ argv \in Commands /\ argv \in Seq(DOMAIN Atoi)
    BY StartupAssumption DEF Init
  <1>2. Len(file.plants) \in Nat /\ Len(argv) \in Nat
    BY <1>1, FileTyped
  <1>3. <<>> \in Seq(0 .. UCharRange - 1) /\ Len(<<>>) = 0
    OBVIOUS
  <1>4. TypeOK
    <2>1. plant \in 1 .. Len(file.plants) + 1 /\ arg \in 1 .. Len(argv) + 1
      BY <1>2 DEF Init
    <2>2. count \in 0 .. UIntRange - 1
      BY StartupAssumption DEF Init
    <2>3. Len(invConfigs) <= MAX_INV_NUM /\ invConfigs \in Seq(0 .. UCharRange - 1)
      BY <1>3, StartupAssumption DEF Init
    <2>4. Len(tables) <= Len(invConfigs) /\ tables \in Seq(0 .. UCharRange - 1)
      BY <1>3 DEF Init
    <2>5. pc \in Final \union {"zone", "init", "load", "args", "open", "create"}
      BY DEF Init, Final
    <2>6. device \in Nat \ {0}
      BY DEF Init
    <2>7. ret \in BOOLEAN /\ trace \in BOOLEAN
      BY Zenon DEF Init
    <2> QED
      BY <1>1, <2>1, <2>2, <2>3, <2>4, <2>5, <2>6, <2>7 DEF TypeOK
  <1>5. LoadInv
    BY DEF Init, LoadInv
  <1>6. TablesInv
    BY DEF Init, TablesInv
  <1>9. FitsInv
    BY DEF Init, FitsInv
  <1>7. ArgsInv
    BY DEF Init, ArgsInv
  <1>8. UndefinedOnlyBeyondLimits
    BY DEF Init, UndefinedOnlyBeyondLimits
  <1> QED
    BY <1>4, <1>5, <1>6, <1>7, <1>8, <1>9 DEF IInv

\* The file and the command line stay as they are.
LEMMA InputStays == ASSUME [Next]_vars PROVE file' = file /\ argv' = argv
  BY DEF Next, vars, LocalTimeInit, OpenConf, LoadDevice, NextPlant, RefusePlant, Loaded, ParseArg,
         ParsedArgs, DbOpen, DbCreate, Run, FirstInsert

\* No turn of a loop leaves the limits of the arrays and of the fields.
LEMMA TypeStep == TypeOK /\ [Next]_vars => TypeOK'
  <1> SUFFICES ASSUME TypeOK, [Next]_vars PROVE TypeOK'
    OBVIOUS
  <1>1. /\ file' = file /\ argv' = argv
        /\ argv \in Seq(DOMAIN Atoi) /\ Len(argv) \in Nat /\ Len(file.plants) \in Nat
    <2>1. file \in Files /\ argv \in Seq(DOMAIN Atoi)
      BY StartupAssumption DEF TypeOK
    <2> QED
      BY <2>1, FileTyped, InputStays
  <1> USE DEF TypeOK, Final, Goto
  <1>2. ASSUME NEW ok \in BOOLEAN, LocalTimeInit(ok) PROVE TypeOK'
    BY <1>2 DEF LocalTimeInit, confVars, argVars
  <1>3. CASE OpenConf
    BY <1>3 DEF OpenConf, confVars, argVars
  <1>4. CASE LoadDevice
    <2>1. CASE pc' \in {"abort", "undefined"} /\ UNCHANGED confVars
      BY <1>1, <1>4, <2>1 DEF LoadDevice, confVars, argVars
    <2>2. CASE /\ Slot(Len(invConfigs)) < MAX_INV_NUM
               /\ invConfigs' = Append(invConfigs, Plant.devices[device].mppt % UCharRange)
               /\ device' = device + 1
               /\ UNCHANGED <<pc, plant>>
      <3>1. plant \in 1 .. Len(file.plants) /\ device \in 1 .. Len(file.plants[plant].devices)
        BY <1>1, <1>4, FileTyped DEF LoadDevice, InPlant, Plant
      <3>2. file.plants[plant].devices[device].mppt \in Nat
        BY <3>1, DeviceTyped
      <3> DEFINE mppt == Plant.devices[device].mppt
      <3>3. mppt % UCharRange \in 0 .. UCharRange - 1
        <4>1. mppt \in Int /\ UCharRange \in Nat \ {0}
          BY <3>2, StartupAssumption DEF Plant
        <4> HIDE DEF mppt, TypeOK
        <4> QED
          BY <4>1, ModRange
      <3> HIDE DEF Plant
      <3>4. /\ invConfigs' \in Seq(0 .. UCharRange - 1)
            /\ Len(invConfigs') = Len(invConfigs) + 1 /\ Len(invConfigs) \in Nat
        BY <2>2, <3>3
      <3>5. Len(invConfigs') <= MAX_INV_NUM
        BY <2>2, <3>4, StartupAssumption DEF Slot
      <3>6. UNCHANGED <<argVars, tables>>
        BY <1>4 DEF LoadDevice
      <3>7. Len(tables) \in Nat
        OBVIOUS
      <3> QED
        BY <1>1, <2>2, <3>4, <3>5, <3>6, <3>7 DEF argVars
    <2> QED
      BY <1>4, <2>1, <2>2 DEF LoadDevice
  <1>5. CASE NextPlant
    BY <1>1, <1>5 DEF NextPlant, InPlant, argVars
  <1>6. CASE RefusePlant
    BY <1>6 DEF RefusePlant, confVars, argVars
  <1>7. CASE Loaded
    BY <1>7 DEF Loaded, confVars, argVars
  <1>8. CASE ParseArg
    <2>1. UNCHANGED <<file, argv, plant, device, invConfigs, tables>>
      BY <1>8 DEF ParseArg, confVars
    <2>2. arg \in 1 .. Len(argv) /\ arg + 1 \in 1 .. Len(argv) + 1
      BY <1>1, <1>8 DEF ParseArg
    <2>3. pc' \in {"args", "undefined"}
      BY <1>8 DEF ParseArg, argVars
    <2>4. arg' \in 1 .. Len(argv) + 1
      <3>1. CASE arg' = arg + 1
        BY <2>2, <3>1
      <3>2. CASE arg < Len(argv) /\ arg' = Skip(arg)
        BY <1>1, <2>2, <3>2 DEF Skip
      <3>3. CASE arg' = arg
        BY <3>3
      <3> QED
        BY <1>8, <3>1, <3>2, <3>3 DEF ParseArg, argVars
    <2>5. ret' \in BOOLEAN /\ trace' \in BOOLEAN
      BY <1>8 DEF ParseArg, argVars
    <2>6. count' \in 0 .. UIntRange - 1
      <3>1. CASE arg < Len(argv) /\ count' = Atoi[argv[arg + 1]] % UIntRange
        <4>1. argv[arg + 1] \in DOMAIN Atoi
          BY <1>1, <2>2, <3>1
        <4>2. Atoi[argv[arg + 1]] \in Int
          BY <4>1, StartupAssumption
        <4> QED
          BY <3>1, <4>2, StartupAssumption, ModRange
      <3>2. CASE count' = count
        BY <3>2
      <3> QED
        BY <1>8, <3>1, <3>2 DEF ParseArg, argVars
    <2> QED
      BY <1>1, <2>1, <2>3, <2>4, <2>5, <2>6
  <1>9. CASE ParsedArgs
    BY <1>9 DEF ParsedArgs, confVars, argVars
  <1>10. ASSUME NEW ok \in BOOLEAN, DbOpen(ok) PROVE TypeOK'
    BY <1>10 DEF DbOpen, confVars, argVars
  <1>11. ASSUME NEW ok \in BOOLEAN, DbCreate(ok) PROVE TypeOK'
    <2>1. UNCHANGED <<file, argv, confVars, argVars>> /\ pc' \in {"create", "exit"}
      BY <1>11 DEF DbCreate
    <2>2. Len(tables) < Len(invConfigs) /\ Len(tables) \in Nat /\ Len(invConfigs) \in Nat
      BY <1>11 DEF DbCreate
    <2>3. CASE tables' = Append(tables, invConfigs[Len(tables) + 1])
      <3>1. invConfigs[Len(tables) + 1] \in 0 .. UCharRange - 1
        <4>1. Len(tables) + 1 \in 1 .. Len(invConfigs)
          BY <2>2
        <4>2. invConfigs \in Seq(0 .. UCharRange - 1)
          OBVIOUS
        <4> HIDE DEF TypeOK
        <4> QED
          BY <4>1, <4>2, SeqElement
      <3>2. tables' \in Seq(0 .. UCharRange - 1) /\ Len(tables') = Len(tables) + 1
        BY <2>3, <3>1
      <3> QED
        BY <2>1, <2>2, <3>2 DEF confVars, argVars
    <2>4. CASE tables' = tables
      BY <2>1, <2>4 DEF confVars, argVars
    <2> QED
      BY <1>11, <2>3, <2>4 DEF DbCreate
  <1>12. CASE Run
    BY <1>12 DEF Run, confVars, argVars
  <1>13. ASSUME NEW t \in 1 .. MAX_INV_NUM, FirstInsert(t) PROVE TypeOK'
    BY <1>13 DEF FirstInsert, confVars, argVars
  <1>14. CASE UNCHANGED vars
    BY <1>14 DEF vars
  <1> QED
    BY <1>2, <1>3, <1>4, <1>5, <1>6, <1>7, <1>8, <1>9, <1>10, <1>11, <1>12, <1>13, <1>14 DEF Next

\* One turn of the loops of Configs::init adds the next device of the file.
LEMMA LoadStep == TypeOK /\ LoadInv /\ [Next]_vars => LoadInv'
  <1> SUFFICES ASSUME TypeOK, LoadInv, [Next]_vars PROVE LoadInv'
    OBVIOUS
  <1>1. /\ file' = file /\ file \in Files /\ Len(file.plants) \in Nat
        /\ plant \in 1 .. Len(file.plants) + 1 /\ device \in Nat \ {0}
        /\ Len(invConfigs) \in Nat /\ Len(DevicesIn(file)) \in Nat
    BY FileTyped, DevicesTyped, InputStays DEF TypeOK
  <1>2. ASSUME NEW ok \in BOOLEAN, LocalTimeInit(ok) PROVE LoadInv'
    BY <1>1, <1>2 DEF LocalTimeInit, Goto, confVars, LoadInv
  <1>3. CASE OpenConf
    <2>1. /\ UNCHANGED <<plant, device, invConfigs>> /\ plant = 1 /\ device = 1 /\ invConfigs = <<>>
          /\ pc' \in {"exit", "abort", "load"}
      BY <1>3 DEF OpenConf, Goto, confVars, LoadInv
    <2>2. Len(invConfigs) = Len(Before(file, plant)) + (device - 1)
      BY <1>1, <2>1, BeforeFirst
    <2>3. plant <= Len(file.plants) => device <= Len(file.plants[plant].devices) + 1
      <3>1. ASSUME plant <= Len(file.plants) PROVE Len(file.plants[plant].devices) \in Nat
        BY <1>1, <3>1, FileTyped
      <3> QED
        BY <2>1, <3>1
    <2> QED
      BY <1>1, <2>1, <2>2, <2>3 DEF LoadInv, Plant
  <1>4. CASE LoadDevice
    <2>1. CASE pc' \in {"abort", "undefined"}
      BY <2>1 DEF LoadInv
    <2>2. CASE /\ invConfigs' = Append(invConfigs, Entry(Plant.devices[device]))
               /\ device' = device + 1
               /\ UNCHANGED <<pc, plant>>
      <3>1. /\ pc = "load" /\ plant \in 1 .. Len(file.plants)
            /\ device \in 1 .. Len(file.plants[plant].devices)
        BY <1>1, <1>4, FileTyped DEF LoadDevice, InPlant, Plant
      <3>2. Len(file.plants[plant].devices) \in Nat /\ Len(Before(file, plant)) \in Nat
        BY <1>1, <3>1, FileTyped, BeforeTyped
      <3>3. Len(invConfigs) = Len(Before(file, plant)) + (device - 1)
        BY <3>1 DEF LoadInv
      <3>4. DevicesIn(file)[Len(invConfigs) + 1] = Plant.devices[device]
        <4>1. Len(invConfigs) + 1 = Len(Before(file, plant)) + device
          BY <1>1, <3>2, <3>3
        <4> QED
          BY <1>1, <3>1, <4>1, PlaceOfDevice DEF Plant
      <3>5. /\ Len(invConfigs') = Len(invConfigs) + 1
            /\ invConfigs'[Len(invConfigs) + 1] = Entry(Plant.devices[device])
            /\ \A n \in 1 .. Len(invConfigs) : invConfigs'[n] = invConfigs[n]
        BY <1>1, <2>2 DEF TypeOK
      <3>6. ASSUME NEW n \in 1 .. Len(invConfigs') PROVE invConfigs'[n] = Entry(DevicesIn(file)[n])
        <4>1. CASE n = Len(invConfigs) + 1
          BY <3>4, <3>5, <4>1
        <4>2. CASE n # Len(invConfigs) + 1
          <5>1. n \in 1 .. Len(invConfigs)
            BY <1>1, <3>5, <4>2
          <5> QED
            BY <3>1, <3>5, <5>1 DEF LoadInv
        <4> QED
          BY <4>1, <4>2
      <3>7. /\ Len(invConfigs') = Len(Before(file, plant)) + (device' - 1)
            /\ device' <= Len(file.plants[plant].devices) + 1
        BY <1>1, <2>2, <3>1, <3>2, <3>3, <3>5
      <3> QED
        BY <1>1, <2>2, <3>1, <3>6, <3>7 DEF LoadInv, Plant
    <2> QED
      BY <1>4, <2>1, <2>2 DEF LoadDevice, Goto, Entry
  <1>5. CASE NextPlant
    <2>1. /\ pc = "load" /\ pc' = pc /\ plant \in 1 .. Len(file.plants) /\ plant' = plant + 1
          /\ device' = 1 /\ device > Len(file.plants[plant].devices) /\ invConfigs' = invConfigs
      BY <1>1, <1>5 DEF NextPlant, InPlant, Plant
    <2>2. /\ Len(invConfigs) = Len(Before(file, plant)) + (device - 1)
          /\ device <= Len(file.plants[plant].devices) + 1
      BY <2>1 DEF LoadInv, Plant
    <2>3. /\ file.plants[plant].devices \in Seq(DeviceType)
          /\ Before(file, plant) \in Seq(DeviceType)
          /\ Before(file, plant + 1) = Before(file, plant) \o file.plants[plant].devices
      BY <1>1, <2>1, FileTyped, BeforeTyped, BeforeNext
    <2>4. Len(invConfigs) = Len(Before(file, plant + 1))
      <3> DEFINE s == Before(file, plant)
                 t == file.plants[plant].devices
      <3>1. s \in Seq(DeviceType) /\ t \in Seq(DeviceType) /\ Before(file, plant + 1) = s \o t
        BY <2>3
      <3>2. Len(invConfigs) = Len(s) + (device - 1)
        BY <2>2
      <3>3. device > Len(t) /\ device <= Len(t) + 1 /\ device \in Nat
        BY <1>1, <2>1, <2>2
      <3> HIDE DEF s, t
      <3>4. Len(s \o t) = Len(s) + Len(t) /\ Len(s) \in Nat /\ Len(t) \in Nat
        BY <3>1
      <3>5. device = Len(t) + 1
        BY <3>3, <3>4
      <3> QED
        BY <3>1, <3>2, <3>4, <3>5
    <2>5. plant + 1 <= Len(file.plants) => 1 <= Len(file.plants[plant + 1].devices) + 1
      <3>1. ASSUME plant + 1 <= Len(file.plants)
            PROVE  Len(file.plants[plant + 1].devices) \in Nat
        <4>1. plant + 1 \in 1 .. Len(file.plants)
          BY <1>1, <2>1, <3>1
        <4> QED
          BY <1>1, <4>1, FileTyped
      <3> QED
        BY <3>1
    <2>6. \A n \in 1 .. Len(invConfigs) : invConfigs[n] = Entry(DevicesIn(file)[n])
      BY <2>1 DEF LoadInv
    <2>7. Len(invConfigs') = Len(Before(file, plant')) + (device' - 1)
      BY <1>1, <2>1, <2>4
    <2> QED
      BY <1>1, <2>1, <2>5, <2>6, <2>7 DEF LoadInv, Plant
  <1>6. CASE RefusePlant
    BY <1>6 DEF RefusePlant, Goto, LoadInv
  <1>7. CASE Loaded
    <2>1. /\ pc = "load" /\ pc' = "args" /\ plant > Len(file.plants)
          /\ UNCHANGED <<plant, device, invConfigs>>
      BY <1>7 DEF Loaded, Goto, confVars
    <2>2. plant = Len(file.plants) + 1 /\ device = 1
      BY <1>1, <2>1 DEF LoadInv
    <2>3. Len(invConfigs) = Len(Before(file, plant)) + (device - 1)
      BY <2>1 DEF LoadInv
    <2>4. Len(invConfigs) = Len(DevicesIn(file))
      BY <1>1, <2>2, <2>3, BeforeEnd
    <2> QED
      BY <1>1, <2>1, <2>4 DEF LoadInv
  <1>8. CASE ParseArg
    BY <1>1, <1>8 DEF ParseArg, Goto, confVars, argVars, LoadInv
  <1>9. CASE ParsedArgs
    BY <1>1, <1>9 DEF ParsedArgs, Goto, confVars, LoadInv
  <1>10. ASSUME NEW ok \in BOOLEAN, DbOpen(ok) PROVE LoadInv'
    BY <1>1, <1>10 DEF DbOpen, Goto, confVars, LoadInv
  <1>11. ASSUME NEW ok \in BOOLEAN, DbCreate(ok) PROVE LoadInv'
    BY <1>1, <1>11 DEF DbCreate, Goto, confVars, LoadInv
  <1>12. CASE Run
    BY <1>1, <1>12 DEF Run, Goto, confVars, LoadInv
  <1>13. ASSUME NEW t \in 1 .. MAX_INV_NUM, FirstInsert(t) PROVE LoadInv'
    BY <1>13 DEF FirstInsert, Goto, LoadInv
  <1>14. CASE UNCHANGED vars
    BY <1>1, <1>14 DEF vars, confVars, LoadInv, Plant
  <1> QED
    BY <1>2, <1>3, <1>4, <1>5, <1>6, <1>7, <1>8, <1>9, <1>10, <1>11, <1>12, <1>13, <1>14 DEF Next

\* The loops go past a plant or a device only when it is as expected.
LEMMA FitsStep == TypeOK /\ LoadInv /\ FitsInv /\ [Next]_vars => FitsInv'
  <1> SUFFICES ASSUME TypeOK, LoadInv, FitsInv, [Next]_vars PROVE FitsInv'
    OBVIOUS
  <1>1. /\ file' = file /\ file \in Files /\ file.plants \in Seq(PlantType)
        /\ plant \in 1 .. Len(file.plants) + 1 /\ device \in Nat \ {0}
        /\ Len(file.plants) \in Nat
        /\ \A p \in 1 .. Len(file.plants) : file.plants[p].devices \in Seq(DeviceType)
    BY FileTyped, InputStays DEF TypeOK
  <1>2. /\ \A p : PlantFits(p)' <=> PlantFits(p)
        /\ \A p, k : DeviceFits(p, k)' <=> DeviceFits(p, k)
        /\ FileFits' <=> FileFits
    BY <1>1 DEF PlantFits, DeviceFits, FileFits
  <1>3. FileFits <=>
          /\ file.form = "json" /\ file.hasDuration /\ file.isArray
          /\ \A p \in 1 .. Len(file.plants) : PlantFits(p)
    <2>1. DOMAIN file.plants = 1 .. Len(file.plants)
      BY <1>1
    <2>2. \A p \in 1 .. Len(file.plants) :
            DOMAIN file.plants[p].devices = 1 .. Len(file.plants[p].devices)
      BY <1>1
    <2> QED
      BY <2>1, <2>2 DEF FileFits, PlantFits, DeviceFits
  <1>4. ASSUME UNCHANGED <<pc, plant, device>> \/ (pc' \in Final \union {"init"} /\ pc' \notin {"abort", "running"})
        PROVE  FitsInv'
    BY <1>1, <1>2, <1>4 DEF FitsInv, Final
  <1>5. CASE OpenConf
    <2>1. /\ UNCHANGED <<plant, device>> /\ plant = 1 /\ device = 1
          /\ \/ pc' = "exit"
             \/ pc' = "abort" /\ (file.form = "malformed" \/ ~file.hasDuration)
             \/ pc' = "load" /\ file.form = "json" /\ file.hasDuration /\ file.isArray
      BY <1>5 DEF OpenConf, Goto, confVars, LoadInv
    <2>2. 1 .. 1 - 1 = {}
      OBVIOUS
    <2> QED
      BY <1>1, <1>2, <2>1, <2>2 DEF FitsInv, FileFits
  <1>6. CASE LoadDevice
    <2>0. /\ pc = "load" /\ plant \in 1 .. Len(file.plants)
          /\ device \in 1 .. Len(file.plants[plant].devices)
          /\ Len(file.plants[plant].devices) \in Nat
      BY <1>1, <1>6 DEF LoadDevice, InPlant, Plant
    <2>1. CASE ~Plant.devices[device].whole
      <3>1. ~PlantFits(plant)
        BY <2>0, <2>1 DEF PlantFits, DeviceFits, Plant
      <3>2. pc' = "abort"
        BY <1>6, <2>1 DEF LoadDevice, Goto
      <3> QED
        BY <1>2, <1>3, <2>0, <3>1, <3>2 DEF FitsInv
    <2>2. CASE Plant.devices[device].whole /\ pc' = "undefined"
      BY <1>4, <2>2 DEF Final
    <2>3. CASE /\ Plant.devices[device].whole /\ Plant.devices[device].serial < SerialSize
               /\ device' = device + 1 /\ UNCHANGED <<pc, plant>>
      <3>1. DeviceFits(plant, device)
        BY <2>3 DEF DeviceFits, Plant
      <3>2. \A k \in 1 .. device' - 1 : k \in 1 .. device - 1 \/ k = device
        BY <2>0, <2>3
      <3>3. \A k \in 1 .. device' - 1 : DeviceFits(plant, k)
        BY <2>0, <3>1, <3>2 DEF FitsInv
      <3> QED
        BY <1>1, <1>2, <2>0, <2>3, <3>3 DEF FitsInv
    <2> QED
      BY <1>6, <2>1, <2>2, <2>3 DEF LoadDevice, Goto
  <1>7. CASE NextPlant
    <2>1. /\ pc = "load" /\ pc' = pc /\ plant \in 1 .. Len(file.plants) /\ plant' = plant + 1
          /\ device' = 1 /\ device > Len(file.plants[plant].devices) /\ file.plants[plant].form = "list"
      BY <1>1, <1>7 DEF NextPlant, InPlant, Plant
    <2>2. PlantFits(plant)
      <3>1. Len(file.plants[plant].devices) \in Nat
        BY <1>1, <2>1
      <3>2. \A k \in 1 .. Len(file.plants[plant].devices) : k \in 1 .. device - 1
        BY <1>1, <2>1, <3>1
      <3> QED
        BY <2>1, <3>2 DEF PlantFits, FitsInv
    <2>3. \A p \in 1 .. plant' - 1 : PlantFits(p)
      <3>1. \A p \in 1 .. plant' - 1 : p \in 1 .. plant - 1 \/ p = plant
        BY <2>1
      <3> QED
        BY <2>1, <2>2, <3>1 DEF FitsInv
    <2>4. 1 .. device' - 1 = {}
      BY <2>1
    <2> QED
      BY <1>1, <1>2, <2>1, <2>3, <2>4 DEF FitsInv
  <1>8. CASE RefusePlant
    <2>1. plant \in 1 .. Len(file.plants) /\ ~PlantFits(plant)
      <3>1. plant <= Len(file.plants) /\ file.plants[plant].form # "list"
        BY <1>8 DEF RefusePlant, InPlant, Plant
      <3>2. plant \in 1 .. Len(file.plants)
        BY <1>1, <3>1
      <3> QED
        BY <3>1, <3>2 DEF PlantFits
    <2>2. ~FileFits
      BY <1>3, <2>1
    <2>3. pc' \in {"exit", "abort"}
      BY <1>8 DEF RefusePlant, Goto
    <2> QED
      BY <1>2, <2>2, <2>3 DEF FitsInv
  <1>9. CASE Loaded
    <2>1. pc = "load" /\ pc' = "args" /\ plant - 1 = Len(file.plants)
      BY <1>1, <1>9 DEF Loaded, Goto
    <2>2. FileFits
      BY <1>3, <2>1 DEF FitsInv
    <2> QED
      BY <1>2, <2>1, <2>2 DEF FitsInv
  <1>10. ASSUME pc \in {"args", "open", "create", "running"},
                pc' \in {"args", "open", "create", "running", "exit", "undefined"}
         PROVE  FitsInv'
    BY <1>2, <1>10 DEF FitsInv
  <1>11. CASE ParseArg
    BY <1>10, <1>11 DEF ParseArg, Goto
  <1>12. CASE ParsedArgs
    BY <1>10, <1>12 DEF ParsedArgs, Goto
  <1>13. ASSUME NEW ok \in BOOLEAN, DbOpen(ok) PROVE FitsInv'
    BY <1>10, <1>13 DEF DbOpen, Goto
  <1>14. ASSUME NEW ok \in BOOLEAN, DbCreate(ok) PROVE FitsInv'
    BY <1>10, <1>14 DEF DbCreate, Goto
  <1>15. CASE Run
    BY <1>10, <1>15 DEF Run, Goto
  <1>16. ASSUME NEW t \in 1 .. MAX_INV_NUM, FirstInsert(t) PROVE FitsInv'
    BY <1>10, <1>16 DEF FirstInsert, Goto
  <1>17. ASSUME NEW ok \in BOOLEAN, LocalTimeInit(ok) PROVE FitsInv'
    <2>1. pc' \in {"init", "exit"}
      BY <1>17 DEF LocalTimeInit, Goto
    <2> QED
      BY <1>4, <2>1 DEF Final
  <1>18. CASE UNCHANGED vars
    BY <1>4, <1>18 DEF vars, confVars
  <1> QED
    BY <1>5, <1>6, <1>7, <1>8, <1>9, <1>11, <1>12, <1>13, <1>14, <1>15, <1>16, <1>17, <1>18 DEF Next

\* The tables are made of the entries, in their order.
LEMMA TablesStep == TypeOK /\ TablesInv /\ [Next]_vars => TablesInv'
  <1> SUFFICES ASSUME TypeOK, TablesInv, [Next]_vars PROVE TablesInv'
    OBVIOUS
  <1>1. ASSUME NEW ok \in BOOLEAN, LocalTimeInit(ok) PROVE TablesInv'
    BY <1>1 DEF LocalTimeInit, Goto, TablesInv
  <1>2. CASE OpenConf \/ LoadDevice \/ NextPlant \/ RefusePlant \/ Loaded
    BY <1>2 DEF OpenConf, LoadDevice, NextPlant, RefusePlant, Loaded, InPlant, Goto, confVars, TablesInv
  <1>3. CASE ParseArg \/ ParsedArgs
    BY <1>3 DEF ParseArg, ParsedArgs, Goto, confVars, TablesInv
  <1>4. ASSUME NEW ok \in BOOLEAN, DbOpen(ok) PROVE TablesInv'
    <2>1. tables = <<>> /\ tables' = tables /\ invConfigs' = invConfigs /\ pc' \in {"create", "exit"}
      BY <1>4 DEF DbOpen, Goto, confVars, TablesInv
    <2> QED
      BY <2>1 DEF TablesInv
  <1>5. ASSUME NEW ok \in BOOLEAN, DbCreate(ok) PROVE TablesInv'
    <2>1. invConfigs' = invConfigs /\ pc = "create"
      BY <1>5 DEF DbCreate, confVars
    <2>2. CASE pc' = "exit"
      BY <2>2 DEF TablesInv
    <2>3. CASE tables' = Append(tables, invConfigs[Len(tables) + 1]) /\ pc' = pc
      <3>1. Len(tables) \in Nat /\ tables \in Seq(0 .. UCharRange - 1)
        BY DEF TypeOK
      <3>2. /\ Len(tables') = Len(tables) + 1
            /\ tables'[Len(tables) + 1] = invConfigs[Len(tables) + 1]
            /\ \A i \in 1 .. Len(tables) : tables'[i] = tables[i]
        BY <2>3, <3>1
      <3>3. ASSUME NEW i \in 1 .. Len(tables') PROVE tables'[i] = invConfigs[i]
        <4>1. CASE i = Len(tables) + 1
          BY <3>2, <4>1
        <4>2. CASE i # Len(tables) + 1
          <5>1. i \in 1 .. Len(tables)
            BY <3>1, <3>2, <4>2
          <5> QED
            BY <2>1, <3>2, <5>1 DEF TablesInv
        <4> QED
          BY <4>1, <4>2
      <3> QED
        BY <2>1, <2>3, <3>3 DEF TablesInv
    <2> QED
      BY <1>5, <2>2, <2>3 DEF DbCreate, Goto
  <1>6. CASE Run
    BY <1>6 DEF Run, Goto, confVars, TablesInv
  <1>7. ASSUME NEW t \in 1 .. MAX_INV_NUM, FirstInsert(t) PROVE TablesInv'
    BY <1>7 DEF FirstInsert, Goto, TablesInv
  <1>8. CASE UNCHANGED vars
    BY <1>8 DEF vars, confVars, TablesInv
  <1> QED
    BY <1>1, <1>2, <1>3, <1>4, <1>5, <1>6, <1>7, <1>8 DEF Next

\* What one more option, i, makes of the options before.
LEMMA OneMoreOption ==
    ASSUME NEW a \in Seq(DOMAIN Atoi), NEW i \in 1 .. Len(a), NEW n \in Nat,
           OptionsBefore(a, n) = OptionsBefore(a, i) \union {i}
    PROVE  /\ Max(OptionsBefore(a, n)) = i
           /\ (\E j \in OptionsBefore(a, n) : a[j] = "-T") <=>
                (\E j \in OptionsBefore(a, i) : a[j] = "-T") \/ a[i] = "-T"
           /\ CountAfter(a, n) =
                IF a[i] = "-c" THEN Atoi[a[i + 1]] % UIntRange ELSE CountAfter(a, i)
  <1>1. Max(OptionsBefore(a, n)) = i
    BY LastOption
  <1>2. CASE a[i] = "-c"
    <2>1. CountsBefore(a, n) = CountsBefore(a, i) \union {i}
      BY <1>2 DEF CountsBefore
    <2>2. CountsBefore(a, n) # {} /\ Max(CountsBefore(a, n)) = i
      BY <2>1, LastOption
    <2>3. CountAfter(a, n) = Atoi[a[i + 1]] % UIntRange
      BY <2>2 DEF CountAfter
    <2> QED
      BY <1>1, <1>2, <2>3
  <1>3. CASE a[i] # "-c"
    <2>1. CountsBefore(a, n) = CountsBefore(a, i)
      BY <1>3 DEF CountsBefore
    <2>2. CountAfter(a, n) = CountAfter(a, i)
      BY <2>1 DEF CountAfter
    <2> QED
      BY <1>1, <1>3, <2>2
  <1> QED
    BY <1>2, <1>3

\* parse_args goes from option to option.
LEMMA ArgsStep == TypeOK /\ ArgsInv /\ [Next]_vars => ArgsInv'
  <1> SUFFICES ASSUME TypeOK, ArgsInv, [Next]_vars PROVE ArgsInv'
    OBVIOUS
  <1>1. /\ argv' = argv /\ argv \in Seq(DOMAIN Atoi) /\ Len(argv) \in Nat
        /\ arg \in 1 .. Len(argv) + 1
    <2>1. argv \in Seq(DOMAIN Atoi)
      BY StartupAssumption DEF TypeOK
    <2> QED
      BY <2>1, InputStays DEF TypeOK
  <1>2. ASSUME NEW ok \in BOOLEAN, LocalTimeInit(ok) PROVE ArgsInv'
    BY <1>2 DEF LocalTimeInit, Goto, argVars, ArgsInv
  <1>3. CASE OpenConf \/ LoadDevice \/ NextPlant \/ RefusePlant
    BY <1>3 DEF OpenConf, LoadDevice, NextPlant, RefusePlant, InPlant, Goto, argVars, ArgsInv
  <1>4. CASE Loaded
    <2>1. /\ pc' = "args" /\ arg = 1 /\ UNCHANGED <<arg, ret, count, trace>>
          /\ count = 0 /\ ~trace
      BY <1>4 DEF Loaded, Goto, argVars, ArgsInv
    <2>2. OptionsBefore(argv, 1) = {} /\ CountsBefore(argv, 1) = {}
      <3>1. \A i \in 1 .. Len(argv) : ~(i < 1)
        BY <1>1
      <3>2. DOMAIN argv = 1 .. Len(argv)
        BY <1>1
      <3> QED
        BY <3>1, <3>2 DEF OptionsBefore, CountsBefore
    <2>3. CountAfter(argv, 1) = 0
      BY <2>2 DEF CountAfter
    <2>4. OptionsOf(argv)[1]
      BY FirstIsOption
    <2> QED
      BY <1>1, <2>1, <2>2, <2>3, <2>4 DEF ArgsInv
  <1>5. CASE ParseArg
    <2>1. CASE pc' = "undefined"
      BY <2>1 DEF ArgsInv
    <2>2. CASE pc' = pc
      <3>1. /\ pc = "args" /\ arg \in 1 .. Len(argv) /\ OptionsOf(argv)[arg]
            /\ count = CountAfter(argv, arg)
            /\ trace <=> \E i \in OptionsBefore(argv, arg) : argv[i] = "-T"
        BY <1>1, <1>5 DEF ParseArg, ArgsInv
      <3>2. ASSUME NEW b \in BOOLEAN, NEW c, NEW t \in BOOLEAN, NEW n \in Nat,
                   ret' = b, count' = c, trace' = t, arg' = n,
                   OptionsOf(argv)[n],
                   OptionsBefore(argv, n) = OptionsBefore(argv, arg) \union {arg},
                   b <=> argv[arg] \in {"-v", "-T", "-c"},
                   t <=> trace \/ argv[arg] = "-T",
                   c = IF argv[arg] = "-c" THEN Atoi[argv[arg + 1]] % UIntRange ELSE count
            PROVE  ArgsInv'
        <4>1. /\ Max(OptionsBefore(argv, n)) = arg
              /\ (\E j \in OptionsBefore(argv, n) : argv[j] = "-T") <=>
                   (\E j \in OptionsBefore(argv, arg) : argv[j] = "-T") \/ argv[arg] = "-T"
              /\ CountAfter(argv, n) =
                   IF argv[arg] = "-c" THEN Atoi[argv[arg + 1]] % UIntRange ELSE CountAfter(argv, arg)
          BY <1>1, <3>1, <3>2, OneMoreOption
        <4>2. count' = CountAfter(argv, n)
          BY <3>1, <3>2, <4>1
        <4>3. trace' <=> \E j \in OptionsBefore(argv, n) : argv[j] = "-T"
          BY <3>1, <3>2, <4>1
        <4>4. ret' <=> argv[Max(OptionsBefore(argv, n))] \in {"-v", "-T", "-c"}
          BY <3>2, <4>1
        <4> QED
          BY <1>1, <2>2, <3>1, <3>2, <4>2, <4>3, <4>4 DEF ArgsInv
      <3>3. CASE argv[arg] # "-c"
        <4>1. /\ OptionsOf(argv)[arg + 1] /\ arg + 1 \in Nat
              /\ OptionsBefore(argv, arg + 1) = OptionsBefore(argv, arg) \union {arg}
          BY <1>1, <3>1, <3>3, OptionsGrow
        <4>2. arg' = arg + 1 /\ count' = count
          BY <1>5, <3>3 DEF ParseArg
        <4>3. CASE argv[arg] = "-v"
          BY <1>5, <3>2, <4>1, <4>2, <4>3 DEF ParseArg, TypeOK
        <4>4. CASE argv[arg] = "-T"
          BY <1>5, <3>2, <4>1, <4>2, <4>4 DEF ParseArg, TypeOK
        <4>5. CASE argv[arg] \notin {"-v", "-T", "-c"}
          BY <1>5, <3>2, <4>1, <4>2, <4>5 DEF ParseArg, TypeOK
        <4> QED
          BY <3>3, <4>3, <4>4, <4>5
      <3>4. CASE argv[arg] = "-c"
        <4>1. /\ OptionsOf(argv)[arg + 2] /\ arg + 2 \in Nat
              /\ OptionsBefore(argv, arg + 2) = OptionsBefore(argv, arg) \union {arg}
          BY <1>1, <3>1, <3>4, OptionsGrow
        <4>2. /\ arg' = arg + 2 /\ ret' = TRUE /\ trace' = trace
              /\ count' = Atoi[argv[arg + 1]] % UIntRange
          BY <1>5, <2>2, <3>1, <3>4 DEF ParseArg, Goto, Skip
        <4> QED
          BY <3>2, <3>4, <4>1, <4>2 DEF TypeOK
      <3> QED
        BY <3>3, <3>4
    <2> QED
      BY <1>5, <2>1, <2>2 DEF ParseArg, Goto
  <1>6. CASE ParsedArgs
    <2>1. /\ pc = "args" /\ arg > Len(argv) /\ UNCHANGED <<arg, ret, count, trace>>
          /\ pc' \in {"open", "exit"} /\ (pc' = "open" => ret)
      BY <1>6 DEF ParsedArgs, Goto, argVars
    <2>2. arg = Len(argv) + 1
      BY <1>1, <2>1
    <2> QED
      BY <1>1, <2>1, <2>2 DEF ArgsInv
  <1>7. ASSUME NEW ok \in BOOLEAN, DbOpen(ok) PROVE ArgsInv'
    BY <1>1, <1>7 DEF DbOpen, Goto, argVars, ArgsInv
  <1>8. ASSUME NEW ok \in BOOLEAN, DbCreate(ok) PROVE ArgsInv'
    BY <1>1, <1>8 DEF DbCreate, Goto, argVars, ArgsInv
  <1>9. CASE Run
    BY <1>1, <1>9 DEF Run, Goto, argVars, ArgsInv
  <1>10. ASSUME NEW t \in 1 .. MAX_INV_NUM, FirstInsert(t) PROVE ArgsInv'
    BY <1>10 DEF FirstInsert, Goto, ArgsInv
  <1>11. CASE UNCHANGED vars
    BY <1>1, <1>11 DEF vars, argVars, ArgsInv
  <1> QED
    BY <1>2, <1>3, <1>4, <1>5, <1>6, <1>7, <1>8, <1>9, <1>10, <1>11 DEF Next

\* What UndefinedOnlyBeyondLimits asks of a file f and a command line a.
BeyondLimits(f, a) ==
    \/ Len(DevicesIn(f)) > MAX_INV_NUM
    \/ \E n \in 1 .. Len(DevicesIn(f)) : DevicesIn(f)[n].serial >= SerialSize
    \/ \E n \in 1 .. Len(DevicesIn(f)) : Entry(DevicesIn(f)[n]) > DC_NUM_MAX
    \/ Len(a) \in CountsBefore(a, Len(a) + 1)

\* What comes before the end is all there is.
LEMMA BeforeEndIsAll ==
    TypeOK => /\ Devices = DevicesIn(file) /\ DOMAIN Devices = 1 .. Len(Devices)
              /\ Options = OptionsBefore(argv, Len(argv) + 1)
              /\ CountOptions = CountsBefore(argv, Len(argv) + 1)
  <1> SUFFICES ASSUME TypeOK
               PROVE  /\ Devices = DevicesIn(file) /\ DOMAIN Devices = 1 .. Len(Devices)
                      /\ Options = OptionsBefore(argv, Len(argv) + 1)
                      /\ CountOptions = CountsBefore(argv, Len(argv) + 1)
    OBVIOUS
  <1>1. Devices = DevicesIn(file)
    BY DEF Devices, DevicesIn
  <1>2. Devices \in Seq(DeviceType)
    BY <1>1, DevicesTyped DEF TypeOK
  <1>3. DOMAIN argv = 1 .. Len(argv) /\ Len(argv) \in Nat
    <2>1. argv \in Seq(DOMAIN Atoi)
      BY StartupAssumption DEF TypeOK
    <2> QED
      BY <2>1
  <1>4. \A i \in 1 .. Len(argv) : i < Len(argv) + 1
    BY <1>3
  <1>5. Options = OptionsBefore(argv, Len(argv) + 1)
    BY <1>3, <1>4 DEF Options, OptionsBefore
  <1> QED
    BY <1>1, <1>2, <1>5 DEF CountOptions, CountsBefore

\* The program only loses its meaning when a limit is passed.
LEMMA UndefinedStep ==
    TypeOK /\ LoadInv /\ TablesInv /\ ArgsInv /\ UndefinedOnlyBeyondLimits /\ [Next]_vars
      => UndefinedOnlyBeyondLimits'
  <1> SUFFICES ASSUME TypeOK, LoadInv, TablesInv, ArgsInv, UndefinedOnlyBeyondLimits, [Next]_vars
               PROVE  UndefinedOnlyBeyondLimits'
    OBVIOUS
  <1>1. UndefinedOnlyBeyondLimits <=> (pc = "undefined" => BeyondLimits(file, argv))
    BY BeforeEndIsAll DEF UndefinedOnlyBeyondLimits, BeyondLimits, Entry
  <1>2. UndefinedOnlyBeyondLimits' <=> (pc' = "undefined" => BeyondLimits(file, argv))
    <2>1. file' = file /\ argv' = argv
      BY InputStays
    <2>2. Devices' = Devices /\ CountOptions' = CountOptions
      BY <2>1 DEF Devices, CountOptions, Options
    <2> QED
      BY <2>1, <2>2, BeforeEndIsAll DEF UndefinedOnlyBeyondLimits, BeyondLimits, Entry
  <1>3. file \in Files /\ Len(DevicesIn(file)) \in Nat
    BY DevicesTyped DEF TypeOK
  <1>4. CASE LoadDevice
    <2> SUFFICES ASSUME pc' = "undefined" PROVE BeyondLimits(file, argv)
      BY <1>2
    <2> DEFINE d == file.plants[plant].devices[device]
               n == Len(Before(file, plant)) + device
    <2>1. /\ pc = "load" /\ plant \in 1 .. Len(file.plants)
          /\ device \in 1 .. Len(file.plants[plant].devices)
      <3>1. Len(file.plants) \in Nat /\ plant \in 1 .. Len(file.plants)
        BY <1>3, <1>4, FileTyped DEF LoadDevice, InPlant, TypeOK
      <3>2. Len(file.plants[plant].devices) \in Nat
        BY <1>3, <3>1, FileTyped
      <3> QED
        BY <1>4, <3>1, <3>2 DEF LoadDevice, InPlant, Plant, TypeOK
    <2>2. d.serial >= SerialSize \/ Len(invConfigs) >= MAX_INV_NUM
      BY <1>4, <2>1 DEF LoadDevice, Goto, Plant, Slot
    <2>3. n \in 1 .. Len(DevicesIn(file)) /\ DevicesIn(file)[n] = d
      BY <1>3, <2>1, PlaceOfDevice
    <2>4. CASE d.serial >= SerialSize
      BY <2>3, <2>4 DEF BeyondLimits
    <2>5. CASE Len(invConfigs) >= MAX_INV_NUM
      <3>1. Len(invConfigs) = Len(Before(file, plant)) + (device - 1)
        BY <2>1 DEF LoadInv
      <3>2. Len(Before(file, plant)) \in Nat /\ device \in Nat
        <4>1. plant \in 1 .. Len(file.plants) + 1
          BY DEF TypeOK
        <4> QED
          BY <1>3, <4>1, BeforeTyped DEF TypeOK
      <3>3. n > MAX_INV_NUM
        BY <2>5, <3>1, <3>2, StartupAssumption
      <3>4. Len(DevicesIn(file)) > MAX_INV_NUM
        BY <1>3, <2>3, <3>2, <3>3, StartupAssumption
      <3> QED
        BY <3>4 DEF BeyondLimits
    <2> QED
      BY <2>2, <2>4, <2>5
  <1>5. CASE ParseArg
    <2> SUFFICES ASSUME pc' = "undefined" PROVE BeyondLimits(file, argv)
      BY <1>2
    <2>1. pc = "args" /\ argv[arg] = "-c" /\ arg = Len(argv) /\ arg \in 1 .. Len(argv) + 1
      BY <1>5 DEF ParseArg, Goto, argVars, TypeOK
    <2>2. OptionsOf(argv)[arg]
      BY <2>1 DEF ArgsInv
    <2>3. arg \in DOMAIN argv /\ arg < Len(argv) + 1
      <3>1. argv \in Seq(DOMAIN Atoi)
        BY StartupAssumption DEF TypeOK
      <3> QED
        BY <2>1, <3>1
    <2> QED
      BY <2>1, <2>2, <2>3 DEF BeyondLimits, CountsBefore, OptionsBefore
  <1>6. ASSUME NEW t \in 1 .. MAX_INV_NUM, FirstInsert(t) PROVE UndefinedOnlyBeyondLimits'
    <2>1. pc = "running" /\ t \in 1 .. Len(tables) /\ tables[t] > DC_NUM_MAX
      BY <1>6 DEF FirstInsert, TypeOK
    <2>2. tables[t] = invConfigs[t] /\ t \in 1 .. Len(invConfigs)
      BY <2>1 DEF TablesInv
    <2>3. t \in 1 .. Len(DevicesIn(file)) /\ invConfigs[t] = Entry(DevicesIn(file)[t])
      BY <2>1, <2>2 DEF LoadInv
    <2>4. BeyondLimits(file, argv)
      BY <2>1, <2>2, <2>3 DEF BeyondLimits
    <2> QED
      BY <1>2, <2>4
  <1>7. ASSUME NEW ok \in BOOLEAN, LocalTimeInit(ok) \/ DbOpen(ok) \/ DbCreate(ok)
        PROVE  UndefinedOnlyBeyondLimits'
    BY <1>2, <1>7 DEF LocalTimeInit, DbOpen, DbCreate, Goto
  <1>8. CASE OpenConf \/ NextPlant \/ RefusePlant \/ Loaded \/ ParsedArgs \/ Run
    BY <1>2, <1>8 DEF OpenConf, NextPlant, RefusePlant, Loaded, ParsedArgs, Run, InPlant, Goto
  <1>9. CASE UNCHANGED vars
    BY <1>1, <1>2, <1>9 DEF vars
  <1> QED
    BY <1>4, <1>5, <1>6, <1>7, <1>8, <1>9 DEF Next

----------------------------------------------------------------------------
\* Theorems.

\* The invariant holds in every state.
LEMMA Invariant == Spec => []IInv
  <1>1. Init => IInv
    BY StartInit
  <1>2. IInv /\ [Next]_vars => IInv'
    BY TypeStep, LoadStep, FitsStep, TablesStep, ArgsStep, UndefinedStep DEF IInv
  <1> QED
    BY <1>1, <1>2, PTL DEF Spec

\* The invariant, where the poller runs.
LEMMA RunsInv == IInv => RunsAsGiven
  <1> SUFFICES ASSUME IInv, pc = "running" PROVE DevicesInOrder /\ OptionsTaken
    BY DEF RunsAsGiven, IInv, FitsInv
  <1> USE DEF IInv
  <1>1. DevicesInOrder
    <2> DEFINE entries == [n \in DOMAIN Devices |-> Devices[n].mppt % UCharRange]
    <2>1. DOMAIN Devices = 1 .. Len(invConfigs)
      BY BeforeEndIsAll DEF LoadInv
    <2>2. /\ DOMAIN invConfigs = 1 .. Len(invConfigs) /\ DOMAIN tables = 1 .. Len(invConfigs)
          /\ invConfigs = [n \in DOMAIN invConfigs |-> invConfigs[n]]
          /\ tables = [n \in DOMAIN tables |-> tables[n]]
      BY DEF TypeOK, TablesInv
    <2>3. \A n \in 1 .. Len(invConfigs) : invConfigs[n] = Devices[n].mppt % UCharRange
      BY BeforeEndIsAll DEF LoadInv, Entry
    <2>4. \A n \in 1 .. Len(invConfigs) : tables[n] = invConfigs[n]
      BY DEF TablesInv
    <2>5. invConfigs = entries
      BY <2>1, <2>2, <2>3
    <2>6. tables = invConfigs
      BY <2>2, <2>4
    <2> QED
      BY <2>5, <2>6 DEF DevicesInOrder
  <1>2. OptionsTaken
    <2>1. arg = Len(argv) + 1 /\ ret
      BY DEF ArgsInv
    <2>2. Options = OptionsBefore(argv, arg) /\ CountOptions = CountsBefore(argv, arg)
      BY <2>1, BeforeEndIsAll
    <2> QED
      BY <2>1, <2>2 DEF OptionsTaken, ArgsInv, CountAfter
  <1> QED
    BY <1>1, <1>2

\* Start-up keeps its types: at most MAX_INV_NUM entries are loaded, no more tables than
\* entries are made, parse_args ends behind the last argument.
THEOREM TypeCorrect == Spec => []TypeOK
  <1>1. IInv => TypeOK
    BY DEF IInv
  <1> QED
    BY <1>1, Invariant, PTL

\* However many plants, devices and arguments there are, the poller runs with the devices
\* and the options that were given, and with nothing of a file that is amiss anywhere.
THEOREM AsGiven == Spec => []RunsAsGiven
  BY RunsInv, Invariant, PTL

\* There is no other way to undefined behaviour than past the limits.
THEOREM DefinedWithinLimits == Spec => []UndefinedOnlyBeyondLimits
  <1>1. IInv => UndefinedOnlyBeyondLimits
    BY DEF IInv
  <1> QED
    BY <1>1, Invariant, PTL
=============================================================================

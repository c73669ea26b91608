------------------------- MODULE EmbedderConfig_proofs -------------------------
(***************************************************************************)
(* An instance has its own options, of each kind that nobody sets while it *)
(* starts, whatever other threads start meanwhile.  What a history of      *)
(* values says is defined by the last one of each name, so the first part  *)
(* is about histories that grow by one value; the second is about          *)
(* configurations, which follow theirs field by field, the third about the *)
(* memory that start makes.  OptionsInv brings configurations, histories   *)
(* and the steps of create and start together.                             *)
(***************************************************************************)
EXTENDS Embedder_proofs, WellFoundedInduction

-----------------------------------------------------------------------------
\* Instances and their options.

\* A field holds what the values of its option say, one given after another.
FieldObeys(f, v, h) ==
    CASE f = "preOpenDirs" -> DirsFollow(v, h)
      [] f = "envVars" -> EnvFollows(v, h)
      [] f = "args" -> ArgvFollows(v, h)
      [] f = "maxMemory" -> v = Limit(h) /\ v \in 0 .. UInt32 - 1
      [] OTHER -> TRUE

\* A configuration holds what the values g of each option say.
Obeys(conf, g) ==
    /\ DOMAIN conf = Fields
    /\ \A f \in Fields : FieldObeys(f, conf[f], g[OptionOf[f]])

NoOptions == [opt \in Kinds |-> <<>>]

\* The texts that start reads, a of these parts, are what the values say, but for the
\* options given since start looked at the state, when there were n of each.
Parts == DOMAIN ReadBy

ArgsOK(g, n, a, parts) ==
    \A p \in parts :
        LET opt == OptionOf[ReadBy[p]] IN
        n[opt] = Len(g[opt]) => FieldObeys(ReadBy[p], a[p], g[opt])

\* The memory is as large as its module's or as the limit says.
Sized(mem, own, limit) ==
    LET size == Max({own.memory_data_size, limit})
        told == WamrExtSysctl("sysinfo.vm_mem_total", mem, 0, 8)
    IN EnlargeAssert(own) =>
       /\ mem.memory_data_size = size /\ mem.allocated = size /\ mem.heap_data_end = size
       /\ mem.max_page_count = 1 => told.ret = 0 /\ told.value = size

SizedOK(h, n, mem, own) == n = Len(h) => Sized(mem, own, Limit(h))

\* The memory while start enlarges it, of what it was instantiated with.
Enlarging == {"enlarge", "heap size", "page bytes", "allocate", "data size"}

Rewritten(own, limit, s) ==
    CASE s = "allocate" -> [own EXCEPT !.num_bytes_per_page = limit]
      [] s = "data size" -> [own EXCEPT !.num_bytes_per_page = limit, !.allocated = limit]
      [] OTHER -> own

MakingOK(h, n, mem, own, s, read) ==
    n = Len(h) =>
        /\ mem = Rewritten(own, Limit(h), s)
        /\ s # "enlarge" => Limit(h) > MaxBytes(own)
        /\ s \in {"page bytes", "allocate", "data size"} => read.heapSize = HeapSize(own, Limit(h))

DomainInv ==
    /\ DOMAIN instDefaultConf = Modules /\ DOMAIN wasiArgs = Modules
    /\ DOMAIN config = Instances /\ DOMAIN got = Instances /\ DOMAIN memory = Instances
    /\ DOMAIN collected = Clients

\* Start counts the options given so far; it needs an instance.
SeenInv ==
    /\ given \in [Modules \cup Instances -> [Kinds -> Seq(Values)]]
    /\ seen \in [Instances -> [Kinds -> Nat]]
    /\ \A i \in Instances : \A opt \in Kinds :
          /\ seen[i][opt] <= Len(given[i][opt])
          /\ state[i] = "none" => seen[i][opt] = 0

\* Each configuration says what its options say.
ModulesObey ==
    \A m \in Modules : IF m \in loaded THEN Obeys(instDefaultConf[m], given[m]) ELSE given[m] = NoOptions

ConfigInv ==
    /\ ModulesObey
    /\ \A i \in Instances : /\ DOMAIN config[i] \subseteq Fields
                            /\ state[i] # "none" => Obeys(config[i], given[i])

\* A thread that creates an instance copies the defaults member by member, each with the
\* values given for it until then.
Before ==
    [preOpenDirs |-> {}, envVars |-> {"preOpenDirs"},
     hostCmdWhitelist |-> {"preOpenDirs", "envVars"},
     args |-> {"preOpenDirs", "envVars", "hostCmdWhitelist"},
     maxMemory |-> {"preOpenDirs", "envVars", "hostCmdWhitelist", "args"},
     exceptionCB |-> {"preOpenDirs", "envVars", "hostCmdWhitelist", "args", "maxMemory"}]

CopyOK(c) ==
    LET i == Call(c).inst IN
    step[c] \in Fields =>
        /\ state[i] = "none" /\ Call(c).module \in loaded
        /\ \A f \in Before[step[c]] : /\ f \in DOMAIN config[i]
                                      /\ FieldObeys(f, config[i][f], given[i][OptionOf[f]])

CopyInv == \A c \in DOMAIN prog.calls : CopyOK(c)

\* A start against its instance, which no other thread takes on.  From the time the
\* arguments are in the module until the memory is made, no other start gets there.
Done ==
    [s \in Parts \cup {"args of module"} |->
        CASE s = "dirs" -> {} [] s = "env" -> {"dirs"} [] s = "argv" -> {"dirs", "env"} [] OTHER -> Parts]

StartOK(c) ==
    LET i == Call(c).inst
        limits == given[i]["MAX_MEMORY"]
        known == seen[i]["MAX_MEMORY"]
    IN step[c] \in Starting =>
       /\ state[i] = "new"
       /\ step[c] \in DOMAIN Done =>
             DOMAIN collected[c] = Parts /\ ArgsOK(given[i], seen[i], collected[c], Done[step[c]])
       /\ step[c] \in {"instantiate"} \cup Enlarging => gWasmLock = c
       /\ step[c] = "instantiate" => ArgsOK(given[i], seen[i], wasiArgs[Call(c).module], Parts)
       /\ step[c] \in {"initialize"} \cup Enlarging => ArgsOK(given[i], seen[i], got[i], Parts)
       /\ step[c] \in Enlarging =>
             MakingOK(limits, known, memory[i], OwnMemory(prog, i), step[c], collected[c])
       /\ step[c] = "initialize" => SizedOK(limits, known, memory[i], OwnMemory(prog, i))

StartInv == \A c \in DOMAIN prog.calls : StartOK(c)

\* What an instance has got, it keeps.
GotOK(i) ==
    /\ state[i] \in {"started", "ended"} => ArgsOK(given[i], seen[i], got[i], Parts)
    /\ state[i] = "started" =>
          SizedOK(given[i]["MAX_MEMORY"], seen[i]["MAX_MEMORY"], memory[i], OwnMemory(prog, i))

GotInv == \A i \in Instances : GotOK(i)

OptionsInv == DomainInv /\ SeenInv /\ ConfigInv /\ CopyInv /\ StartInv /\ GotInv

-----------------------------------------------------------------------------
\* The fields of a configuration and the options that set them.

LEMMA FieldKinds ==
  /\ OptionOf["preOpenDirs"] = "ADD_HOST_DIR" /\ OptionOf["envVars"] = "ADD_ENV_VAR"
  /\ OptionOf["hostCmdWhitelist"] = "ADD_HOST_COMMAND" /\ OptionOf["args"] = "ARG"
  /\ OptionOf["maxMemory"] = "MAX_MEMORY" /\ OptionOf["exceptionCB"] = "EXCEPTION_CALLBACK"
BY DEF OptionOf

LEMMA KindsAre ==
  Kinds = {"ADD_HOST_DIR", "ADD_ENV_VAR", "ADD_HOST_COMMAND", "ARG", "MAX_MEMORY", "EXCEPTION_CALLBACK"}
BY FieldsAre, FieldKinds DEF Kinds

LEMMA PartsRead ==
  /\ Parts = {"dirs", "env", "argv"}
  /\ ReadBy["dirs"] = "preOpenDirs" /\ ReadBy["env"] = "envVars" /\ ReadBy["argv"] = "args"
  /\ \A p \in Parts : ReadBy[p] \in Fields /\ OptionOf[ReadBy[p]] \in Kinds
<1>1. Parts = {"dirs", "env", "argv"}
  BY DEF Parts, ReadBy
<1>2. ReadBy["dirs"] = "preOpenDirs" /\ ReadBy["env"] = "envVars" /\ ReadBy["argv"] = "args"
  BY DEF ReadBy
<1> QED
  BY <1>1, <1>2, FieldsAre DEF Kinds

\* What start has read before each of its steps.
LEMMA DoneBefore ==
  /\ DOMAIN Done = {"dirs", "env", "argv", "args of module"}
  /\ Done["dirs"] = {} /\ Done["env"] = {"dirs"} /\ Done["argv"] = {"dirs", "env"}
  /\ Done["args of module"] = Parts
BY PartsRead DEF Done

-----------------------------------------------------------------------------
\* Histories.

Less == {pair \in Nat \X Nat : pair[1] < pair[2]}

\* Of finitely many positions one is the last.
LEMMA LastPosition ==
  ASSUME NEW n \in Nat, NEW S \in SUBSET (1 .. n), S # {}
  PROVE  Max(S) \in S
<1> DEFINE T == {n - x : x \in S}
<1>1. T \subseteq Nat
  OBVIOUS
<1>2. T # {}
  OBVIOUS
<1>3. IsWellFoundedOn(Less, Nat)
  BY NatLessThanWellFounded DEF OpToRel, Less
<1>4. PICK y \in T : \A x \in T : ~(<<x, y>> \in Less)
  BY <1>1, <1>2, <1>3, WFMin
<1>5. PICK m \in S : y = n - m
  OBVIOUS
<1>6. \A x \in S : m >= x
  <2> TAKE x \in S
  <2>1. n - x \in T /\ n - x \in Nat /\ y \in Nat
    BY <1>1
  <2>2. ~(n - x < y)
    BY <1>4, <2>1 DEF Less
  <2> QED
    BY <1>5, <2>2
<1> QED
  BY <1>6 DEF Max

LEMMA MaxIs ==
  ASSUME NEW n \in Nat, NEW S \in SUBSET (1 .. n)
  PROVE  Max(S \cup {n + 1}) = n + 1
<1> DEFINE T == S \cup {n + 1}
<1>1. n + 1 \in T /\ \A y \in T : n + 1 >= y
  OBVIOUS
<1>2. \A x \in T : (\A y \in T : x >= y) => x = n + 1
  OBVIOUS
<1> HIDE DEF T
<1>3. Max(T) = n + 1
  BY <1>1, <1>2 DEF Max
<1> QED
  BY <1>3 DEF T

\* The last value with a name is the new one if it has it.
LEMMA LastWithAppended ==
  ASSUME NEW h \in Seq(Values), NEW e \in Values, NEW side, NEW name, NEW default
  PROVE  LastWith(Append(h, e), side, name, default) =
           IF e[side] = name THEN e ELSE LastWith(h, side, name, default)
<1> DEFINE S == {n \in DOMAIN h : h[n][side] = name}
<1> DEFINE T == {n \in DOMAIN Append(h, e) : Append(h, e)[n][side] = name}
<1>1. /\ Len(h) \in Nat /\ S \in SUBSET (1 .. Len(h)) /\ DOMAIN Append(h, e) = 1 .. Len(h) + 1
      /\ Append(h, e)[Len(h) + 1] = e /\ \A n \in 1 .. Len(h) : Append(h, e)[n] = h[n]
  OBVIOUS
<1>2. CASE e[side] = name
  <2>1. T = S \cup {Len(h) + 1}
    BY <1>1, <1>2
  <2>2. Max(T) = Len(h) + 1 /\ T # {}
    BY <1>1, <2>1, MaxIs
  <2> QED
    BY <1>1, <1>2, <2>2 DEF LastWith
<1>3. CASE e[side] # name
  <2>1. T = S
    BY <1>1, <1>3
  <2>2. CASE S = {}
    BY <1>3, <2>1, <2>2 DEF LastWith
  <2>3. CASE S # {}
    <3>1. Max(S) \in 1 .. Len(h)
      BY <1>1, <2>3, LastPosition
    <3>2. Append(h, e)[Max(S)] = h[Max(S)]
      BY <1>1, <3>1
    <3> QED
      BY <1>3, <2>1, <2>3, <3>2 DEF LastWith
  <2> QED
    BY <2>2, <2>3
<1> QED
  BY <1>2, <1>3

LEMMA NamesAppended ==
  ASSUME NEW h \in Seq(Values), NEW e \in Values, NEW side
  PROVE  {Append(h, e)[n][side] : n \in DOMAIN Append(h, e)} =
           {h[n][side] : n \in DOMAIN h} \cup {e[side]}
<1>1. /\ Len(h) \in Nat /\ DOMAIN h = 1 .. Len(h) /\ DOMAIN Append(h, e) = 1 .. Len(h) + 1
      /\ Append(h, e)[Len(h) + 1] = e /\ \A n \in 1 .. Len(h) : Append(h, e)[n] = h[n]
  OBVIOUS
<1>2. 1 .. Len(h) + 1 = (1 .. Len(h)) \cup {Len(h) + 1}
  BY <1>1
<1> QED
  BY <1>1, <1>2

LEMMA LastOfAppended ==
  ASSUME NEW h \in Seq(Values), NEW e \in Values, NEW default
  PROVE  LastOf(Append(h, e), default) = e
BY DEF LastOf

-----------------------------------------------------------------------------
\* Configurations.

\* Rounding down to pages.
LEMMA Rounding ==
  ASSUME NEW n \in Nat
  PROVE  RoundedToPages(n) \in 0 .. n
BY SizesAssumption DEF RoundedToPages

\* What the values of one more option say.
LEMMA DirsAppended ==
  ASSUME NEW h \in Seq(Values), NEW e \in Values, NEW dirs, DirsFollow(dirs, h)
  PROVE  DirsFollow(Put(dirs, e.v, e.k), Append(h, e))
<1> DEFINE default == WamrExtInstanceConfig.preOpenDirs
<1> HIDE DEF default
<1>1. /\ DOMAIN dirs = DOMAIN default \cup {h[n].v : n \in DOMAIN h}
      /\ \A d \in DOMAIN dirs : dirs[d] = LastWith(h, "v", d, [k |-> Lookup(default, d)]).k
  BY DEF DirsFollow, default
<1>2. DOMAIN Put(dirs, e.v, e.k) = DOMAIN dirs \cup {e.v}
  BY DEF Put
<1>3. \A d \in DOMAIN dirs \cup {e.v} : Put(dirs, e.v, e.k)[d] = IF d = e.v THEN e.k ELSE dirs[d]
  BY DEF Put
<1>4. {Append(h, e)[n].v : n \in DOMAIN Append(h, e)} = {h[n].v : n \in DOMAIN h} \cup {e.v}
  BY NamesAppended
<1>5. ASSUME NEW d \in DOMAIN dirs \cup {e.v}
      PROVE  Put(dirs, e.v, e.k)[d] = LastWith(Append(h, e), "v", d, [k |-> Lookup(default, d)]).k
  <2>1. CASE d = e.v
    BY <1>3, <2>1, LastWithAppended
  <2>2. CASE d # e.v
    BY <1>1, <1>3, <2>2, LastWithAppended
  <2> QED
    BY <2>1, <2>2
<1> QED
  BY <1>1, <1>2, <1>4, <1>5 DEF DirsFollow, default

LEMMA EnvAppended ==
  ASSUME NEW h \in Seq(Values), NEW e \in Values, NEW env, EnvFollows(env, h)
  PROVE  EnvFollows(Put(env, e.k, e.v), Append(h, e))
<1> DEFINE default == WamrExtInstanceConfig.envVars
<1> HIDE DEF default
<1>1. /\ DOMAIN env = DOMAIN default \cup {h[n].k : n \in DOMAIN h}
      /\ \A x \in DOMAIN env : env[x] = LastWith(h, "k", x, [v |-> Lookup(default, x)]).v
  BY DEF EnvFollows, default
<1>2. DOMAIN Put(env, e.k, e.v) = DOMAIN env \cup {e.k}
  BY DEF Put
<1>3. \A x \in DOMAIN env \cup {e.k} : Put(env, e.k, e.v)[x] = IF x = e.k THEN e.v ELSE env[x]
  BY DEF Put
<1>4. {Append(h, e)[n].k : n \in DOMAIN Append(h, e)} = {h[n].k : n \in DOMAIN h} \cup {e.k}
  BY NamesAppended
<1>5. ASSUME NEW x \in DOMAIN env \cup {e.k}
      PROVE  Put(env, e.k, e.v)[x] = LastWith(Append(h, e), "k", x, [v |-> Lookup(default, x)]).v
  <2>1. CASE x = e.k
    BY <1>3, <2>1, LastWithAppended
  <2>2. CASE x # e.k
    BY <1>1, <1>3, <2>2, LastWithAppended
  <2> QED
    BY <2>1, <2>2
<1> QED
  BY <1>1, <1>2, <1>4, <1>5 DEF EnvFollows, default

\* A new configuration says what no option says.
LEMMA DefaultObeys == Obeys(WamrExtInstanceConfig, NoOptions)
<1>1. \A side, name, default : LastWith(<<>>, side, name, default) = default
  BY DEF LastWith
<1>2. \A default : LastOf(<<>>, default) = default
  BY DEF LastOf
<1>3. DOMAIN WamrExtInstanceConfig = Fields
  BY FieldsAre DEF WamrExtInstanceConfig
<1>4. DirsFollow(WamrExtInstanceConfig.preOpenDirs, <<>>)
  BY <1>1 DEF DirsFollow, Lookup
<1>5. EnvFollows(WamrExtInstanceConfig.envVars, <<>>)
  BY <1>1 DEF EnvFollows, Lookup
<1>6. ArgvFollows(WamrExtInstanceConfig.args, <<>>)
  BY <1>2 DEF ArgvFollows
<1>7. WamrExtInstanceConfig.maxMemory = Limit(<<>>) /\ Limit(<<>>) \in 0 .. UInt32 - 1
  <2>1. WamrExtInstanceConfig.maxMemory = RoundedToPages(DefaultMaxMemory)
    BY DEF WamrExtInstanceConfig
  <2>2. RoundedToPages(DefaultMaxMemory) \in 0 .. UInt32 - 1
    BY Rounding, SizesAssumption
  <2> QED
    BY <1>2, <2>1, <2>2 DEF Limit
<1>8. \A opt \in Kinds : NoOptions[opt] = <<>>
  BY DEF NoOptions
<1>9. \A f \in Fields : FieldObeys(f, WamrExtInstanceConfig[f], <<>>)
  BY <1>4, <1>5, <1>6, <1>7, FieldsAre DEF FieldObeys
<1> QED
  BY <1>3, <1>8, <1>9 DEF Obeys, Kinds

\* A configuration that changes in one field, and with it the values of its option.
LEMMA ObeysInField ==
  ASSUME NEW g \in [Kinds -> Seq(Values)], NEW conf, Obeys(conf, g), NEW f \in Fields, NEW v,
         NEW h, FieldObeys(f, v, h)
  PROVE  Obeys([conf EXCEPT ![f] = v], [g EXCEPT ![OptionOf[f]] = h])
<1>1. \A x \in Fields : OptionOf[x] \in Kinds /\ (OptionOf[x] = OptionOf[f] => x = f)
  BY FieldsAre, FieldKinds DEF Kinds
<1>2. DOMAIN conf = Fields /\ \A x \in Fields : FieldObeys(x, conf[x], g[OptionOf[x]])
  BY DEF Obeys
<1>3. ASSUME NEW x \in Fields
      PROVE  FieldObeys(x, [conf EXCEPT ![f] = v][x], [g EXCEPT ![OptionOf[f]] = h][OptionOf[x]])
  <2>1. CASE x = f
    BY <1>1, <1>2, <2>1
  <2>2. CASE x # f
    <3>1. [conf EXCEPT ![f] = v][x] = conf[x]
      BY <1>2, <2>2
    <3>2. [g EXCEPT ![OptionOf[f]] = h][OptionOf[x]] = g[OptionOf[x]]
      BY <1>1, <2>2
    <3> QED
      BY <1>2, <3>1, <3>2
  <2> QED
    BY <2>1, <2>2
<1>4. DOMAIN [conf EXCEPT ![f] = v] = Fields
  BY <1>2
<1> QED
  BY <1>3, <1>4 DEF Obeys

\* An accepted option is stored, a refused one is not: the configuration goes on to say
\* what the values of its options say.
LEMMA OptionObeyed ==
  ASSUME NEW g \in [Kinds -> Seq(Values)], NEW conf, Obeys(conf, g), NEW opt, NEW value \in Values,
         opt = "MAX_MEMORY" => value = NULL \/ value \in 0 .. UInt32 - 1
  PROVE  LET set == WamrExtSetInstanceOpt(conf, opt, value)
         IN IF set.ret = 0
            THEN opt \in Kinds /\ Obeys(set.config, [g EXCEPT ![opt] = Append(@, value)])
            ELSE set.config = conf
<1> DEFINE set == WamrExtSetInstanceOpt(conf, opt, value)
<1> DEFINE Good == IF set.ret = 0
                   THEN opt \in Kinds /\ Obeys(set.config, [g EXCEPT ![opt] = Append(@, value)])
                   ELSE set.config = conf
<1> DEFINE h == Append(g[opt], value)
<1>1. ASSUME NEW f \in Fields, opt = OptionOf[f], NEW v, FieldObeys(f, v, h),
             set = [ret |-> 0, config |-> [conf EXCEPT ![f] = v]]
      PROVE  Good
  <2>1. Obeys([conf EXCEPT ![f] = v], [g EXCEPT ![opt] = h])
    BY <1>1, ObeysInField
  <2>2. opt \in Kinds
    BY <1>1 DEF Kinds
  <2> QED
    BY <1>1, <2>1, <2>2
<1>2. ASSUME set = [ret |-> EINVAL, config |-> conf]
      PROVE  Good
  BY <1>2 DEF EINVAL
<1>3. ASSUME NEW f \in Fields
      PROVE  FieldObeys(f, conf[f], g[OptionOf[f]]) /\ g[OptionOf[f]] \in Seq(Values)
  BY DEF Obeys, Kinds
<1> USE DEF Accept, Reject
<1>4. CASE value = NULL
  BY <1>2, <1>4 DEF WamrExtSetInstanceOpt
<1>5. CASE value # NULL /\ opt = "ADD_HOST_DIR"
  <2>1. DirsFollow(conf.preOpenDirs, g[opt]) /\ g[opt] \in Seq(Values)
    BY <1>3, <1>5, FieldsAre, FieldKinds DEF FieldObeys
  <2>2. FieldObeys("preOpenDirs", Put(conf.preOpenDirs, value.v, value.k), h)
    BY <2>1, DirsAppended DEF FieldObeys
  <2>3. set = [ret |-> 0, config |-> [conf EXCEPT !["preOpenDirs"] = Put(conf.preOpenDirs, value.v, value.k)]]
    BY <1>5 DEF WamrExtSetInstanceOpt
  <2> QED
    BY <1>1, <1>5, <2>2, <2>3, FieldsAre, FieldKinds
<1>6. CASE value # NULL /\ opt = "ADD_ENV_VAR"
  <2>1. EnvFollows(conf.envVars, g[opt]) /\ g[opt] \in Seq(Values)
    BY <1>3, <1>6, FieldsAre, FieldKinds DEF FieldObeys
  <2>2. FieldObeys("envVars", Put(conf.envVars, value.k, value.v), h)
    BY <2>1, EnvAppended DEF FieldObeys
  <2>3. set = [ret |-> 0, config |-> [conf EXCEPT !["envVars"] = Put(conf.envVars, value.k, value.v)]]
    BY <1>6 DEF WamrExtSetInstanceOpt
  <2> QED
    BY <1>1, <1>6, <2>2, <2>3, FieldsAre, FieldKinds
<1>7. CASE value # NULL /\ opt = "ARG"
  <2>1. g[opt] \in Seq(Values)
    BY <1>3, <1>7, FieldsAre, FieldKinds
  <2>2. FieldObeys("args", value, h)
    BY <2>1, LastOfAppended DEF FieldObeys, ArgvFollows
  <2>3. set = [ret |-> 0, config |-> [conf EXCEPT !["args"] = value]]
    BY <1>7 DEF WamrExtSetInstanceOpt
  <2> QED
    BY <1>1, <1>7, <2>2, <2>3, FieldsAre, FieldKinds
<1>8. CASE value # NULL /\ opt = "EXCEPTION_CALLBACK"
  <2>1. FieldObeys("exceptionCB", TRUE, h)
    BY DEF FieldObeys
  <2>2. set = [ret |-> 0, config |-> [conf EXCEPT !["exceptionCB"] = TRUE]]
    BY <1>8 DEF WamrExtSetInstanceOpt
  <2> QED
    BY <1>1, <1>8, <2>1, <2>2, FieldsAre, FieldKinds
<1>9. CASE value # NULL /\ opt = "ADD_HOST_COMMAND"
  <2>1. CASE value.k \in Separated
    BY <1>2, <1>9, <2>1 DEF WamrExtSetInstanceOpt, AddHostCommand
  <2>2. CASE value.k \notin Separated
    <3> DEFINE v == Put(conf.hostCmdWhitelist, value.k, value.v)
    <3>1. FieldObeys("hostCmdWhitelist", v, h)
      BY DEF FieldObeys
    <3>2. set = [ret |-> 0, config |-> [conf EXCEPT !["hostCmdWhitelist"] = v]]
      BY <1>9, <2>2 DEF WamrExtSetInstanceOpt, AddHostCommand
    <3> QED
      BY <1>1, <1>9, <3>1, <3>2, FieldsAre, FieldKinds
  <2> QED
    BY <2>1, <2>2
<1>10. CASE value # NULL /\ opt = "MAX_MEMORY"
  <2>1. CASE RoundedToPages(value) = 0
    BY <1>2, <1>10, <2>1 DEF WamrExtSetInstanceOpt, SetMaxMemory
  <2>2. CASE RoundedToPages(value) # 0
    <3>1. value \in 0 .. UInt32 - 1 /\ g[opt] \in Seq(Values)
      BY <1>3, <1>10, FieldsAre, FieldKinds
    <3>2. RoundedToPages(value) \in 0 .. UInt32 - 1
      BY <3>1, Rounding, SizesAssumption
    <3>3. FieldObeys("maxMemory", RoundedToPages(value), h)
      BY <3>1, <3>2, LastOfAppended DEF FieldObeys, Limit
    <3>4. set = [ret |-> 0, config |-> [conf EXCEPT !["maxMemory"] = RoundedToPages(value)]]
      BY <1>10, <2>2 DEF WamrExtSetInstanceOpt, SetMaxMemory
    <3> QED
      BY <1>1, <1>10, <3>3, <3>4, FieldsAre, FieldKinds
  <2> QED
    BY <2>1, <2>2
<1>11. CASE value # NULL /\ opt \notin {"ADD_HOST_DIR", "ADD_ENV_VAR", "ARG", "EXCEPTION_CALLBACK",
                                        "ADD_HOST_COMMAND", "MAX_MEMORY"}
  BY <1>2, <1>11 DEF WamrExtSetInstanceOpt
<1> QED
  BY <1>4, <1>5, <1>6, <1>7, <1>8, <1>9, <1>10, <1>11

\* Texts that are equal to what they were stay what they are, whatever the pointers lead to.
LEMMA TextsSame ==
  ASSUME NEW old, NEW now, DOMAIN now = DOMAIN old, \A x \in DOMAIN old : now[x] = old[x],
         NEW f \in Texts(old, now)
  PROVE  DOMAIN f = DOMAIN old /\ \A x \in DOMAIN old : f[x] = old[x]
BY DEF Texts, Lookup

-----------------------------------------------------------------------------
\* What one step leaves alone.

Still(c) == step'[c] = step[c] /\ at'[c] = at[c]
Away(c) == step[c] \notin Starting /\ step'[c] \notin Starting /\ CopyOK(c)'

\* Nothing is taken from the values of an option, and what start knew is known to be old.
Grown(i) ==
    /\ seen'[i] = seen[i]
    /\ \A opt \in Kinds :
          given'[i][opt] = given[i][opt] \/ Len(given'[i][opt]) > Len(given[i][opt])

LEMMA UntouchedFrame ==
  ASSUME SeenInv, NEW i \in Instances, Grown(i), NEW opt \in Kinds,
         seen'[i][opt] = Len(given'[i][opt])
  PROVE  seen[i][opt] = Len(given[i][opt]) /\ given'[i][opt] = given[i][opt]
<1>1. /\ seen[i][opt] \in Nat /\ seen[i][opt] <= Len(given[i][opt]) /\ seen'[i][opt] = seen[i][opt]
      /\ Len(given[i][opt]) \in Nat
  BY DEF SeenInv, Grown
<1>2. Len(given'[i][opt]) = seen[i][opt]
  BY <1>1
<1>3. ~(Len(given'[i][opt]) > Len(given[i][opt]))
  BY <1>1, <1>2
<1> QED
  BY <1>1, <1>2, <1>3 DEF Grown

\* What is known of an instance stays known.
LEMMA KnownFrame ==
  ASSUME SeenInv, NEW i \in Instances, Grown(i)
  PROVE  /\ \A a, parts : parts \subseteq Parts /\ ArgsOK(given[i], seen[i], a, parts)
                          => ArgsOK(given'[i], seen'[i], a, parts)
         /\ \A mem, own : SizedOK(given[i]["MAX_MEMORY"], seen[i]["MAX_MEMORY"], mem, own)
                          => SizedOK(given'[i]["MAX_MEMORY"], seen'[i]["MAX_MEMORY"], mem, own)
         /\ \A mem, own, s, read :
               MakingOK(given[i]["MAX_MEMORY"], seen[i]["MAX_MEMORY"], mem, own, s, read)
               => MakingOK(given'[i]["MAX_MEMORY"], seen'[i]["MAX_MEMORY"], mem, own, s, read)
<1>1. "MAX_MEMORY" \in Kinds /\ \A p \in Parts : OptionOf[ReadBy[p]] \in Kinds
  BY KindsAre, PartsRead
<1>2. \A opt \in Kinds : seen'[i][opt] = Len(given'[i][opt]) =>
         seen[i][opt] = Len(given[i][opt]) /\ given'[i][opt] = given[i][opt]
  BY UntouchedFrame
<1>3. ASSUME NEW a, NEW parts, parts \subseteq Parts, ArgsOK(given[i], seen[i], a, parts)
      PROVE  ArgsOK(given'[i], seen'[i], a, parts)
  <2> SUFFICES ASSUME NEW p \in parts, seen'[i][OptionOf[ReadBy[p]]] = Len(given'[i][OptionOf[ReadBy[p]]])
               PROVE  FieldObeys(ReadBy[p], a[p], given'[i][OptionOf[ReadBy[p]]])
    BY DEF ArgsOK
  <2>1. /\ seen[i][OptionOf[ReadBy[p]]] = Len(given[i][OptionOf[ReadBy[p]]])
        /\ given'[i][OptionOf[ReadBy[p]]] = given[i][OptionOf[ReadBy[p]]]
    BY <1>1, <1>2, <1>3
  <2> QED
    BY <1>3, <2>1 DEF ArgsOK
<1>4. \A mem, own : SizedOK(given[i]["MAX_MEMORY"], seen[i]["MAX_MEMORY"], mem, own)
                    => SizedOK(given'[i]["MAX_MEMORY"], seen'[i]["MAX_MEMORY"], mem, own)
  BY <1>1, <1>2 DEF SizedOK
<1>5. \A mem, own, s, read :
         MakingOK(given[i]["MAX_MEMORY"], seen[i]["MAX_MEMORY"], mem, own, s, read)
         => MakingOK(given'[i]["MAX_MEMORY"], seen'[i]["MAX_MEMORY"], mem, own, s, read)
  BY <1>1, <1>2 DEF MakingOK
<1> QED
  BY <1>3, <1>4, <1>5

\* One thread creates, starts, runs and destroys an instance.
LEMMA OneOwner ==
  ASSUME CallType, NEW c \in DOMAIN prog.calls, NEW d \in DOMAIN prog.calls,
         Calling(c), Calling(d), Call(c).call \in {"create", "start", "main", "destroy"},
         Call(d).call \in {"create", "start", "main", "destroy"}, Call(d).inst = Call(c).inst
  PROVE  c = d
<1>1. PICK name \in DOMAIN Programs : prog = Programs[name]
  BY DEF CallType
<1>2. OfOneThread(Call(c), Call(d))
  BY DEF OfOneThread
<1> QED
  BY <1>1, <1>2, ProgramsAssumption DEF Calling, Call

\* Threads in the middle of create or start.
LEMMA Owners ==
  ASSUME Inv, NEW c \in DOMAIN prog.calls, step[c] \in Starting \cup Fields
  PROVE  /\ Calling(c) /\ Call(c).inst \in Instances /\ Call(c).module \in Modules
         /\ step[c] \in Starting => Call(c).call = "start"
         /\ step[c] \in Fields => Call(c).call = "create"
<1>1. step[c] \notin {"call", "leave", "exit"}
  BY FieldsAre DEF Starting
<1>2. Calling(c) /\ (step[c] \in Starting => Call(c).call = "start")
      /\ (step[c] \in Fields => Call(c).call = "create")
  BY <1>1, InsideCall DEF Inv, CallInv
<1> QED
  BY <1>2, CallOperands DEF Inv

\* A thread that copies defaults goes on as long as its instance and its module's being
\* loaded are left alone.
LEMMA CopyFrame ==
  ASSUME Inv, OptionsInv, NEW c \in DOMAIN prog.calls, Still(c), UNCHANGED prog, loaded \subseteq loaded',
         step[c] \in Fields => /\ state'[Call(c).inst] = state[Call(c).inst]
                               /\ config'[Call(c).inst] = config[Call(c).inst]
                               /\ given'[Call(c).inst] = given[Call(c).inst]
  PROVE  CopyOK(c)'
<1>1. Call(c)' = Call(c) /\ step'[c] = step[c]
  BY DEF Still, Call
<1>2. CopyOK(c)
  BY DEF OptionsInv, CopyInv
<1> QED
  BY <1>1, <1>2 DEF CopyOK

\* A step outside start keeps a start that is under way, if it leaves the instance alone
\* but for its options.
LEMMA StartFrame ==
  ASSUME Inv, OptionsInv, NEW c \in DOMAIN prog.calls, Still(c), UNCHANGED prog,
         step[c] \in Starting => /\ state'[Call(c).inst] = state[Call(c).inst]
                                 /\ memory'[Call(c).inst] = memory[Call(c).inst]
                                 /\ got'[Call(c).inst] = got[Call(c).inst]
                                 /\ Grown(Call(c).inst)
                                 /\ collected'[c] = collected[c],
         step[c] \in {"instantiate"} \cup Enlarging => UNCHANGED <<gWasmLock, wasiArgs>>
  PROVE  StartOK(c)'
<1> DEFINE i == Call(c).inst
<1>1. Call(c)' = Call(c) /\ step'[c] = step[c]
  BY DEF Still, Call
<1>2. CASE step[c] \notin Starting
  BY <1>1, <1>2 DEF StartOK
<1>3. CASE step[c] \in Starting
  <2>1. i \in Instances
    BY <1>3, Owners
  <2>2. StartOK(c) /\ SeenInv
    BY DEF OptionsInv, StartInv
  <2>3. /\ state'[i] = state[i] /\ memory'[i] = memory[i] /\ got'[i] = got[i]
        /\ collected'[c] = collected[c] /\ Grown(i)
    BY <1>3
  <2>4. /\ \A a, parts : parts \subseteq Parts /\ ArgsOK(given[i], seen[i], a, parts)
                          => ArgsOK(given'[i], seen'[i], a, parts)
        /\ \A mem, own : SizedOK(given[i]["MAX_MEMORY"], seen[i]["MAX_MEMORY"], mem, own)
                         => SizedOK(given'[i]["MAX_MEMORY"], seen'[i]["MAX_MEMORY"], mem, own)
        /\ \A mem, own, s, read :
              MakingOK(given[i]["MAX_MEMORY"], seen[i]["MAX_MEMORY"], mem, own, s, read)
              => MakingOK(given'[i]["MAX_MEMORY"], seen'[i]["MAX_MEMORY"], mem, own, s, read)
    BY <2>1, <2>2, <2>3, KnownFrame
  <2>5. \A s \in DOMAIN Done : Done[s] \subseteq Parts
    BY DoneBefore, PartsRead
  <2>6. OwnMemory(prog, i)' = OwnMemory(prog, i)
    BY <1>1
  <2> QED
    BY <1>1, <1>3, <2>2, <2>3, <2>4, <2>5, <2>6 DEF StartOK
<1> QED
  BY <1>2, <1>3

LEMMA GotFrame ==
  ASSUME Inv, OptionsInv, NEW i \in Instances, UNCHANGED prog,
         \/ state'[i] = state[i]
         \/ state[i] = "started" /\ state'[i] = "ended"
         \/ state'[i] = "destroyed",
         got'[i] = got[i], Grown(i), state'[i] = "started" => memory'[i] = memory[i]
  PROVE  GotOK(i)'
<1>1. GotOK(i) /\ SeenInv
  BY DEF OptionsInv, GotInv
<1>2. \A a : ArgsOK(given[i], seen[i], a, Parts) => ArgsOK(given'[i], seen'[i], a, Parts)
  BY <1>1, KnownFrame
<1>3. \A mem, own : SizedOK(given[i]["MAX_MEMORY"], seen[i]["MAX_MEMORY"], mem, own)
                    => SizedOK(given'[i]["MAX_MEMORY"], seen'[i]["MAX_MEMORY"], mem, own)
  BY <1>1, KnownFrame
<1> QED
  BY <1>1, <1>2, <1>3 DEF GotOK

\* What may happen to an instance outside start: options are given and obeyed, defaults
\* are copied, or it ends.
Kept(i) ==
    /\ state'[i] = state[i] /\ memory'[i] = memory[i] /\ Grown(i)
    /\ given'[i] \in [Kinds -> Seq(Values)]
    /\ state[i] # "none" => Obeys(config'[i], given'[i])
    /\ state[i] = "none" => config'[i] = config[i] /\ given'[i] = given[i]

Copied(i) ==
    /\ state[i] = "none" /\ state'[i] \in {"none", "new"} /\ seen'[i] = seen[i]
    /\ given'[i] \in [Kinds -> Seq(Values)]
    /\ DOMAIN config'[i] \subseteq Fields
    /\ state'[i] = "new" => Obeys(config'[i], given'[i])
    /\ \A c \in DOMAIN prog.calls : step[c] \in Fields /\ Still(c) => Call(c).inst # i

Gone(i) ==
    /\ \/ state[i] = "started" /\ state'[i] = "ended"
       \/ state[i] # "none" /\ state'[i] = "destroyed"
    /\ given'[i] = given[i] /\ config'[i] = config[i] /\ seen'[i] = seen[i]
    /\ \A c \in DOMAIN prog.calls : step[c] \in Starting => Call(c).inst # i

LEMMA OutsideStart ==
  ASSUME Inv, OptionsInv, UNCHANGED <<prog, wasiArgs, gWasmLock, collected, got, seen>>,
         loaded \subseteq loaded',
         \A c \in DOMAIN prog.calls : Still(c) \/ Away(c),
         \A i \in Instances : Kept(i) \/ Copied(i) \/ Gone(i),
         given' \in [Modules \cup Instances -> [Kinds -> Seq(Values)]], ModulesObey', DomainInv'
  PROVE  OptionsInv'
<1> USE DEF OptionsInv
<1>1. ASSUME NEW i \in Instances
      PROVE  /\ \A opt \in Kinds : seen'[i][opt] <= Len(given'[i][opt])
             /\ state'[i] = "none" => \A opt \in Kinds : seen'[i][opt] = 0
             /\ DOMAIN config'[i] \subseteq Fields
             /\ state'[i] # "none" => Obeys(config'[i], given'[i])
  <2>1. /\ seen[i] \in [Kinds -> Nat] /\ given[i] \in [Kinds -> Seq(Values)]
        /\ \A opt \in Kinds : seen[i][opt] <= Len(given[i][opt])
        /\ state[i] = "none" => \A opt \in Kinds : seen[i][opt] = 0
        /\ DOMAIN config[i] \subseteq Fields /\ (state[i] # "none" => Obeys(config[i], given[i]))
    BY DEF SeenInv, ConfigInv
  <2>2. given'[i] \in [Kinds -> Seq(Values)]
    OBVIOUS
  <2>3. CASE Kept(i)
    <3>1. ASSUME NEW opt \in Kinds
          PROVE  seen'[i][opt] <= Len(given'[i][opt])
      <4>1. /\ seen'[i][opt] = seen[i][opt] /\ seen[i][opt] <= Len(given[i][opt])
            /\ given'[i][opt] = given[i][opt] \/ Len(given'[i][opt]) > Len(given[i][opt])
        BY <2>1, <2>3 DEF Kept, Grown
      <4>2. seen[i][opt] \in Nat /\ Len(given[i][opt]) \in Nat /\ Len(given'[i][opt]) \in Nat
        BY <2>1, <2>2
      <4> QED
        BY <4>1, <4>2
    <3> QED
      BY <2>1, <2>3, <3>1 DEF Kept, Obeys
  <2>4. CASE Copied(i)
    <3>1. \A opt \in Kinds : seen'[i][opt] = 0 /\ Len(given'[i][opt]) \in Nat
      BY <2>1, <2>2, <2>4 DEF Copied
    <3> QED
      BY <2>4, <3>1 DEF Copied
  <2>5. CASE Gone(i)
    BY <2>1, <2>5 DEF Gone
  <2> QED
    BY <2>3, <2>4, <2>5
<1>2. SeenInv' /\ ConfigInv'
  BY <1>1 DEF SeenInv, ConfigInv
<1>3. ASSUME NEW c \in DOMAIN prog.calls
      PROVE  CopyOK(c)'
  <2>1. CASE Away(c)
    BY <2>1 DEF Away
  <2>2. CASE Still(c) /\ step[c] \notin Fields
    BY <2>2, CopyFrame
  <2>3. CASE Still(c) /\ step[c] \in Fields
    <3>1. Call(c).inst \in Instances /\ state[Call(c).inst] = "none"
      BY <2>3, Owners DEF CopyInv, CopyOK
    <3>2. Kept(Call(c).inst)
      BY <2>3, <3>1 DEF Copied, Gone
    <3> QED
      BY <2>3, <3>1, <3>2, CopyFrame DEF Kept
  <2> QED
    BY <2>1, <2>2, <2>3
<1>4. ASSUME NEW c \in DOMAIN prog.calls
      PROVE  StartOK(c)'
  <2>1. CASE Away(c)
    BY <2>1 DEF Away, StartOK
  <2>2. CASE Still(c) /\ step[c] \in Starting
    <3>1. Call(c).inst \in Instances /\ state[Call(c).inst] = "new"
      BY <2>2, Owners DEF StartInv, StartOK
    <3>2. Kept(Call(c).inst)
      BY <2>2, <3>1 DEF Copied, Gone
    <3> QED
      BY <2>2, <3>2, StartFrame DEF Kept
  <2>3. CASE Still(c) /\ step[c] \notin Starting
    BY <2>3, StartFrame DEF Starting, Enlarging
  <2> QED
    BY <2>1, <2>2, <2>3
<1>5. ASSUME NEW i \in Instances
      PROVE  GotOK(i)'
  <2>1. CASE Kept(i)
    BY <2>1, GotFrame DEF Kept
  <2>2. CASE Gone(i)
    BY <2>2, GotFrame DEF Gone, Grown
  <2>3. CASE Copied(i)
    BY <2>3 DEF Copied, GotOK
  <2> QED
    BY <2>1, <2>2, <2>3
<1> QED
  BY <1>2, <1>3, <1>4, <1>5 DEF CopyInv, StartInv, GotInv

\* A step of start concerns its own instance, and the lock and the module's arguments,
\* which another start uses only while it has the lock.
LEMMA InsideStart ==
  ASSUME Inv, OptionsInv, NEW c \in DOMAIN prog.calls, Calling(c), Call(c).call = "start",
         NEW j \in Instances, j = Call(c).inst,
         UNCHANGED <<prog, given, config, instDefaultConf, loaded>>, DomainInv', step'[c] \notin Fields,
         \A d \in DOMAIN prog.calls \ {c} : Still(d) /\ collected'[d] = collected[d],
         \A i \in Instances \ {j} : /\ state'[i] = state[i] /\ memory'[i] = memory[i]
                                    /\ seen'[i] = seen[i] /\ got'[i] = got[i],
         state[j] # "none", state'[j] # "none", SeenInv',
         \/ UNCHANGED <<gWasmLock, wasiArgs>>
         \/ \A d \in DOMAIN prog.calls \ {c} : step[d] \notin {"instantiate"} \cup Enlarging,
         StartOK(c)', GotOK(j)'
  PROVE  OptionsInv'
<1>1. ConfigInv'
  BY DEF ConfigInv, ModulesObey, OptionsInv
<1>2. ASSUME NEW d \in DOMAIN prog.calls \ {c}, step[d] \in Starting \cup Fields
      PROVE  Call(d).inst \in Instances \ {j}
  BY <1>2, Owners, OneOwner DEF Inv
<1>3. ASSUME NEW d \in DOMAIN prog.calls
      PROVE  CopyOK(d)'
  <2>1. CASE d = c
    BY <2>1 DEF CopyOK
  <2>2. CASE d # c
    BY <1>2, <2>2, CopyFrame
  <2> QED
    BY <2>1, <2>2
<1>4. ASSUME NEW d \in DOMAIN prog.calls \ {c}
      PROVE  StartOK(d)'
  BY <1>2, <1>4, StartFrame DEF Grown
<1>5. ASSUME NEW i \in Instances \ {j}
      PROVE  GotOK(i)'
  BY <1>5, GotFrame DEF Grown
<1>6. \A i \in Instances : GotOK(i)'
  BY <1>5
<1>7. \A d \in DOMAIN prog.calls : StartOK(d)'
  BY <1>4
<1> QED
  BY <1>1, <1>3, <1>6, <1>7 DEF OptionsInv, CopyInv, StartInv, GotInv

-----------------------------------------------------------------------------
\* The steps outside start.

\* A step that neither gives options nor takes part in a start.
LEMMA QuietStep ==
  ASSUME Inv, OptionsInv,
         UNCHANGED <<prog, wasiArgs, gWasmLock, collected, got, seen, given, config, instDefaultConf,
                     loaded, memory>>,
         \A c \in DOMAIN prog.calls : Still(c) \/ Away(c),
         \A i \in Instances : state'[i] = state[i] \/ (state[i] = "started" /\ state'[i] = "ended")
  PROVE  OptionsInv'
<1>1. \A i \in Instances : Kept(i) \/ Gone(i)
  <2> TAKE i \in Instances
  <2>1. CASE state'[i] = state[i]
    BY <2>1 DEF Kept, Grown, OptionsInv, ConfigInv, SeenInv
  <2>2. CASE state[i] = "started" /\ state'[i] = "ended"
    BY <2>2 DEF Gone, OptionsInv, StartInv, StartOK
  <2> QED
    BY <2>1, <2>2
<1>2. ModulesObey' /\ DomainInv' /\ given' \in [Modules \cup Instances -> [Kinds -> Seq(Values)]]
  BY DEF OptionsInv, ConfigInv, SeenInv, ModulesObey, DomainInv
<1> QED
  BY <1>1, <1>2, OutsideStart

\* A thread that is neither in start nor copies defaults, and does not begin to.
LEMMA Outside ==
  ASSUME Inv, NEW c \in DOMAIN prog.calls, step[c] \notin Starting,
         (\E err : Return(c, err)) \/ (\E s \in CallSteps \ (Starting \cup Fields) : Goto(c, s))
  PROVE  /\ \A d \in DOMAIN prog.calls : Still(d) \/ Away(d)
         /\ step'[c] \notin Fields /\ (\A d \in DOMAIN prog.calls \ {c} : Still(d))
<1>1. c \in Clients /\ DOMAIN prog.calls \subseteq Clients
  BY ProgramCalls DEF Inv
<1>2. Returned(c) \/ \E s \in CallSteps \ (Starting \cup Fields) :
                        step' = [step EXCEPT ![c] = s] /\ at' = at
  BY ReturnMoves DEF Goto
<1>3. \A d \in DOMAIN prog.calls \ {c} : Still(d)
  BY <1>1, <1>2 DEF Still, Returned, Inv, CallType
<1>4. step'[c] \notin Starting \cup Fields
  BY <1>1, <1>2, FieldsAre DEF Returned, Inv, CallType, Starting
<1>5. Away(c)
  BY <1>4 DEF Away, CopyOK
<1> QED
  BY <1>3, <1>4, <1>5

LEMMA InitQuiet ==
  ASSUME Inv, OptionsInv, NEW c \in DOMAIN prog.calls, InitStep(c)
  PROVE  OptionsInv'
<1>1. UNCHANGED <<prog, gWasmLock, given, moduleVars, instanceVars>>
  BY DEF InitStep, InitRuntime, InitStart, InitPost, InitSend, otherVars
<1>2. step[c] \notin Starting
  BY DEF InitStep, InitRuntime, InitStart, InitPost, InitSend, Makes, Starting
<1>3. (\E err : Return(c, err)) \/ (\E s \in CallSteps \ (Starting \cup Fields) : Goto(c, s))
  BY FieldsAre DEF InitStep, InitRuntime, InitStart, InitPost, InitSend, Starting, CallSteps
<1>4. \A d \in DOMAIN prog.calls : Still(d) \/ Away(d)
  BY <1>2, <1>3, Outside
<1> QED
  BY <1>1, <1>4, QuietStep DEF moduleVars, instanceVars

LEMMA OthersQuiet ==
  ASSUME Inv, OptionsInv, LoopStep \/ Stopping \/ (\E i \in Instances : GuestTrap(i)) \/ UNCHANGED vars
  PROVE  OptionsInv'
<1> USE DEF moduleVars, instanceVars, otherVars, clientVars
<1>1. UNCHANGED <<prog, step, at, wasiArgs, gWasmLock, collected, got, seen, given, config,
                  instDefaultConf, loaded, memory>>
  BY DEF LoopStep, LoopCheckInstanceRoutine, LoopVisit, ReportTrap, LoopPassEnds, RoutineAfterExit,
     Stopping, GuestTrap, vars
<1>2. \A c \in DOMAIN prog.calls : Still(c)
  BY <1>1 DEF Still
<1>3. \A i \in Instances : state'[i] = state[i] \/ (state[i] = "started" /\ state'[i] = "ended")
  <2>1. UNCHANGED state \/ \E i \in Instances : LoopVisit(i)
    BY DEF LoopStep, LoopCheckInstanceRoutine, ReportTrap, LoopPassEnds, RoutineAfterExit, Stopping,
       GuestTrap, vars
  <2>2. ASSUME NEW i \in Instances, LoopVisit(i)
        PROVE  \A x \in Instances : state'[x] = state[x] \/ (state[x] = "started" /\ state'[x] = "ended")
    BY <2>2 DEF LoopVisit, Inv, ApiType
  <2> QED
    BY <2>1, <2>2
<1> QED
  BY <1>1, <1>2, <1>3, QuietStep

LEMMA ExitQuiet ==
  ASSUME Inv, OptionsInv, NEW c \in DOMAIN prog.calls, ExitStep(c)
  PROVE  OptionsInv'
<1> USE DEF moduleVars, instanceVars, otherVars, clientVars
<1>1. UNCHANGED <<prog, at, wasiArgs, gWasmLock, collected, got, seen, given, config,
                  instDefaultConf, loaded, memory, state>>
  BY DEF ExitStep, ExitCall, ExitStop, ExitDone
<1>2. DOMAIN prog.calls \subseteq Clients
  BY ProgramCalls DEF Inv
<1>3. \A d \in DOMAIN prog.calls : Still(d) \/ Away(d)
  <2>1. CASE ExitCall(c)
    <3>1. step[c] \notin Starting /\ step' = [step EXCEPT ![c] = "exit"]
      BY <2>1 DEF ExitCall, Makes, Starting
    <3>2. \A d \in DOMAIN prog.calls \ {c} : Still(d)
      BY <1>1, <1>2, <3>1 DEF Still, Inv, CallType
    <3>3. step'[c] = "exit"
      BY <1>2, <3>1 DEF Inv, CallType
    <3>4. "exit" \notin Starting \cup Fields
      BY FieldsAre DEF Starting
    <3>5. CopyOK(c)'
      BY <3>3, <3>4 DEF CopyOK
    <3>6. Away(c)
      BY <3>1, <3>3, <3>4, <3>5 DEF Away
    <3> QED
      BY <3>2, <3>6
  <2>2. CASE ExitStop(c) \/ ExitDone(c)
    BY <1>1, <2>2 DEF ExitStop, ExitDone, Still
  <2> QED
    BY <2>1, <2>2 DEF ExitStep
<1> QED
  BY <1>1, <1>3, QuietStep

LEMMA LoadModuleKeeps ==
  ASSUME Inv, OptionsInv, NEW c \in DOMAIN prog.calls, LoadModule(c)
  PROVE  OptionsInv'
<1> DEFINE m == Call(c).module
<1> USE DEF instanceVars, otherVars
<1>1. m \in Modules
  BY InsideCall, CallOperands DEF LoadModule, Inv, CallInv
<1>2. \A d \in DOMAIN prog.calls : Still(d) \/ Away(d)
  <2>1. step[c] \notin Starting /\ \E err : Return(c, err)
    BY DEF LoadModule, Starting
  <2> QED
    BY <2>1, Outside
<1>3. UNCHANGED <<prog, wasiArgs, gWasmLock, collected, got, seen, given, config, memory, state>>
  BY DEF LoadModule
<1>4. \A i \in Instances : Kept(i)
  BY <1>3 DEF Kept, Grown, OptionsInv, ConfigInv, SeenInv
<1>5. ModulesObey' /\ DomainInv' /\ loaded \subseteq loaded'
  <2>1. CASE Call(c).file = "not wasm" \/ ~initialized
    BY <1>3, <2>1 DEF LoadModule, OptionsInv, ConfigInv, ModulesObey, DomainInv
  <2>2. CASE ~(Call(c).file = "not wasm" \/ ~initialized)
    <3>1. /\ m \notin loaded /\ loaded' = loaded \cup {m}
          /\ instDefaultConf' = [instDefaultConf EXCEPT ![m] = WamrExtInstanceConfig]
          /\ UNCHANGED wasiArgs
      BY <2>2 DEF LoadModule
    <3>2. given[m] = NoOptions
      BY <1>1, <3>1 DEF OptionsInv, ConfigInv, ModulesObey
    <3> QED
      BY <1>1, <1>3, <3>1, <3>2, DefaultObeys DEF OptionsInv, ConfigInv, ModulesObey, DomainInv
  <2> QED
    BY <2>1, <2>2
<1> QED
  BY <1>2, <1>3, <1>4, <1>5, OutsideStart DEF OptionsInv, SeenInv

\* A call that gives an option that the program may give.
LEMMA GivesOption ==
  ASSUME Inv, NEW c \in DOMAIN prog.calls, NEW call \in {"default", "set_opt"}, Makes(c, call)
  PROVE  /\ Calling(c) /\ Call(c).call = call /\ step[c] \notin Starting
         /\ Call(c).value \in Values
         /\ Call(c).opt = "MAX_MEMORY" => Call(c).value = NULL \/ Call(c).value \in 0 .. UInt32 - 1
<1>1. Calling(c) /\ Call(c).call = call /\ step[c] = "call"
  BY MakesCall
<1>2. Call(c) \in ApiCalls
  BY <1>1, CallOperands DEF Inv
<1>3. Call(c) \in {made \in ApiCalls : made.call \in {"default", "set_opt"}}
  BY <1>1, <1>2
<1>4. Call(c).value \in Values
  BY <1>3 DEF Values
<1> QED
  BY <1>1, <1>2, <1>4, ProgramsAssumption DEF Starting

LEMMA SetDefaultOptKeeps ==
  ASSUME Inv, OptionsInv, NEW c \in DOMAIN prog.calls, SetDefaultOpt(c)
  PROVE  OptionsInv'
<1> DEFINE m == Call(c).module
<1> DEFINE opt == Call(c).opt
<1> DEFINE value == Call(c).value
<1> DEFINE set == WamrExtSetInstanceOpt(instDefaultConf[m], opt, value)
<1> USE DEF instanceVars, otherVars
<1>1. /\ m \in Modules /\ m \notin Instances /\ value \in Values /\ step[c] \notin Starting
      /\ opt = "MAX_MEMORY" => value = NULL \/ value \in 0 .. UInt32 - 1
  BY GivesOption, CallOperands, NamesAssumption DEF SetDefaultOpt, Inv
<1>2. \A d \in DOMAIN prog.calls : Still(d) \/ Away(d)
  <2>1. \E err : Return(c, err)
    BY DEF SetDefaultOpt
  <2> QED
    BY <1>1, <2>1, Outside
<1>3. UNCHANGED <<prog, wasiArgs, gWasmLock, collected, got, seen, config, memory, state, loaded>>
  BY DEF SetDefaultOpt
<1>4. CASE m \notin loaded
  <2>1. UNCHANGED <<instDefaultConf, given>>
    BY <1>4 DEF SetDefaultOpt
  <2>2. \A i \in Instances : state'[i] = state[i]
    BY <1>3
  <2> QED
    BY <1>2, <1>3, <2>1, <2>2, QuietStep
<1>5. CASE m \in loaded
  <2>1. /\ instDefaultConf' = [instDefaultConf EXCEPT ![m] = set.config]
        /\ given' = IF set.ret = 0 THEN [given EXCEPT ![m][opt] = Append(@, value)] ELSE given
    BY <1>5 DEF SetDefaultOpt, Accepted
  <2>2. /\ given \in [Modules \cup Instances -> [Kinds -> Seq(Values)]]
        /\ given[m] \in [Kinds -> Seq(Values)] /\ Obeys(instDefaultConf[m], given[m])
    BY <1>1, <1>5 DEF OptionsInv, ConfigInv, SeenInv, ModulesObey
  <2>3. IF set.ret = 0
        THEN opt \in Kinds /\ Obeys(set.config, [given[m] EXCEPT ![opt] = Append(@, value)])
        ELSE set.config = instDefaultConf[m]
    <3>1. PICK g, conf : g = given[m] /\ conf = instDefaultConf[m]
      OBVIOUS
    <3>2. PICK o, v : o = opt /\ v = value
      OBVIOUS
    <3>3. /\ g \in [Kinds -> Seq(Values)] /\ Obeys(conf, g) /\ v \in Values
          /\ o = "MAX_MEMORY" => v = NULL \/ v \in 0 .. UInt32 - 1
      BY <1>1, <2>2, <3>1, <3>2
    <3>4. IF WamrExtSetInstanceOpt(conf, o, v).ret = 0
          THEN o \in Kinds /\ Obeys(WamrExtSetInstanceOpt(conf, o, v).config, [g EXCEPT ![o] = Append(@, v)])
          ELSE WamrExtSetInstanceOpt(conf, o, v).config = conf
      BY <3>3, OptionObeyed
    <3> QED
      BY <3>1, <3>2, <3>4
  <2> HIDE DEF set, opt, value
  <2>4. given'[m] = IF set.ret = 0 THEN [given[m] EXCEPT ![opt] = Append(@, value)] ELSE given[m]
    BY <1>1, <2>1, <2>2
  <2>5. given' \in [Modules \cup Instances -> [Kinds -> Seq(Values)]]
    <3>1. CASE set.ret = 0
      <4>1. Append(given[m][opt], value) \in Seq(Values)
        BY <1>1, <2>2, <2>3, <3>1
      <4> QED
        BY <1>1, <2>1, <2>2, <2>3, <3>1, <4>1
    <3> QED
      BY <2>1, <2>2, <3>1
  <2>6. DomainInv'
    BY <1>1, <1>3, <2>1 DEF OptionsInv, DomainInv
  <2>7. Obeys(instDefaultConf'[m], given'[m])
    BY <1>1, <2>1, <2>2, <2>3, <2>4 DEF OptionsInv, DomainInv
  <2>8. \A x \in (Modules \cup Instances) \ {m} : given'[x] = given[x]
    BY <2>1, <2>2
  <2>9. \A x \in Modules \ {m} : instDefaultConf'[x] = instDefaultConf[x]
    BY <2>1 DEF OptionsInv, DomainInv
  <2>10. ModulesObey'
    BY <1>3, <1>5, <2>7, <2>8, <2>9 DEF OptionsInv, ConfigInv, ModulesObey
  <2>11. \A i \in Instances : Kept(i)
    BY <1>1, <1>3, <2>2, <2>8 DEF Kept, Grown, OptionsInv, ConfigInv
  <2> QED
    BY <1>2, <1>3, <2>5, <2>6, <2>10, <2>11, OutsideStart
<1> QED
  BY <1>4, <1>5

LEMMA ModuleStepKeeps ==
  ASSUME Inv, OptionsInv, NEW c \in DOMAIN prog.calls, ModuleStep(c)
  PROVE  OptionsInv'
<1> USE DEF moduleVars, instanceVars, otherVars
<1>1. CASE LoadModule(c) \/ SetDefaultOpt(c)
  BY <1>1, LoadModuleKeeps, SetDefaultOptKeeps
<1>2. CASE LoadName(c) \/ LoadOpen(c) \/ LoadMap(c) \/ LoadCopy(c)
  <2>1. UNCHANGED <<prog, wasiArgs, gWasmLock, collected, got, seen, given, config, instDefaultConf,
                    loaded, memory, state>>
    BY <1>2 DEF LoadName, LoadOpen, LoadMap, LoadCopy
  <2>2. step[c] \notin Starting
    BY <1>2 DEF LoadName, LoadOpen, LoadMap, LoadCopy, Makes, Starting
  <2>3. (\E err : Return(c, err)) \/ (\E s \in CallSteps \ (Starting \cup Fields) : Goto(c, s))
    BY <1>2, FieldsAre DEF LoadName, LoadOpen, LoadMap, LoadCopy, Starting, CallSteps
  <2>4. \A d \in DOMAIN prog.calls : Still(d) \/ Away(d)
    BY <2>2, <2>3, Outside
  <2>5. \A i \in Instances : state'[i] = state[i]
    BY <2>1
  <2> QED
    BY <2>1, <2>4, <2>5, QuietStep
<1> QED
  BY <1>1, <1>2 DEF ModuleStep

LEMMA CreateNewKeeps ==
  ASSUME Inv, OptionsInv, NEW c \in DOMAIN prog.calls, CreateNew(c)
  PROVE  OptionsInv'
<1> USE DEF moduleVars, instanceVars, otherVars
<1>1. step[c] \notin Starting
  BY DEF CreateNew, Makes, Starting
<1>2. UNCHANGED <<prog, wasiArgs, gWasmLock, collected, got, seen, given, config, instDefaultConf,
                  loaded, memory, state>>
  BY DEF CreateNew
<1>3. \A d \in DOMAIN prog.calls : Still(d) \/ Away(d)
  <2>1. CASE Call(c).module \notin loaded
    BY <1>1, <2>1, Outside DEF CreateNew
  <2>2. CASE Call(c).module \in loaded
    <3>1. state[Call(c).inst] = "none" /\ Goto(c, "preOpenDirs")
      BY <2>2 DEF CreateNew
    <3>2. c \in Clients /\ DOMAIN prog.calls \subseteq Clients
      BY ProgramCalls DEF Inv
    <3>3. \A d \in DOMAIN prog.calls \ {c} : Still(d)
      BY <3>1, <3>2 DEF Goto, Still, Inv, CallType
    <3>4. step'[c] = "preOpenDirs" /\ Call(c)' = Call(c)
      BY <1>2, <3>1, <3>2 DEF Goto, Inv, CallType, Call
    <3>5. Before["preOpenDirs"] = {}
      BY DEF Before
    <3>6. CopyOK(c)'
      BY <1>2, <2>2, <3>1, <3>4, <3>5 DEF CopyOK
    <3>7. Away(c)
      BY <1>1, <3>4, <3>6 DEF Away, Starting
    <3> QED
      BY <3>3, <3>7
  <2> QED
    BY <2>1, <2>2
<1>4. \A i \in Instances : state'[i] = state[i]
  BY <1>2
<1> QED
  BY <1>2, <1>3, <1>4, QuietStep

\* What has been copied before the next field, or by the end.
LEMMA BeforeNext ==
  /\ \A f \in Fields : NextField[f] # "list" =>
        NextField[f] \in Fields /\ Before[NextField[f]] = Before[f] \cup {f}
  /\ \A f \in Fields : NextField[f] = "list" => Before[f] \cup {f} = Fields
  /\ \A f \in Fields : Before[f] \subseteq Fields /\ f \notin Before[f]
<1>1. /\ NextField["preOpenDirs"] = "envVars" /\ NextField["envVars"] = "hostCmdWhitelist"
      /\ NextField["hostCmdWhitelist"] = "args" /\ NextField["args"] = "maxMemory"
      /\ NextField["maxMemory"] = "exceptionCB" /\ NextField["exceptionCB"] = "list"
  BY DEF NextField
<1>2. /\ Before["preOpenDirs"] = {} /\ Before["envVars"] = {"preOpenDirs"}
      /\ Before["hostCmdWhitelist"] = {"preOpenDirs", "envVars"}
      /\ Before["args"] = {"preOpenDirs", "envVars", "hostCmdWhitelist"}
      /\ Before["maxMemory"] = {"preOpenDirs", "envVars", "hostCmdWhitelist", "args"}
      /\ Before["exceptionCB"] = {"preOpenDirs", "envVars", "hostCmdWhitelist", "args", "maxMemory"}
  BY DEF Before
<1> QED
  BY <1>1, <1>2, FieldsAre

LEMMA CreateCopyKeeps ==
  ASSUME Inv, OptionsInv, NEW c \in DOMAIN prog.calls, CreateCopy(c)
  PROVE  OptionsInv'
<1> USE DEF moduleVars
<1>1. PICK f, m, i : f = step[c] /\ m = Call(c).module /\ i = Call(c).inst
  OBVIOUS
<1>2. /\ f \in Fields /\ m \in Modules /\ i \in Instances /\ i \notin Modules /\ c \in Clients
      /\ Calling(c) /\ Call(c).call = "create" /\ f \notin Starting
  BY <1>1, Owners, CallOperands, NamesAssumption, FieldsAre DEF CreateCopy, Inv, Starting
<1>3. /\ config' = [config EXCEPT ![i] = Put(@, f, instDefaultConf[m][f])]
      /\ given' = [given EXCEPT ![i][OptionOf[f]] = given[m][OptionOf[f]]]
      /\ state' = IF NextField[f] = "list" THEN [state EXCEPT ![i] = "new"] ELSE state
      /\ Goto(c, NextField[f])
      /\ UNCHANGED <<prog, wasiArgs, gWasmLock, collected, got, seen, memory, loaded, instDefaultConf>>
  BY <1>1 DEF CreateCopy
<1>4. /\ state[i] = "none" /\ m \in loaded
      /\ \A x \in Before[f] : x \in DOMAIN config[i] /\ FieldObeys(x, config[i][x], given[i][OptionOf[x]])
  BY <1>1, <1>2 DEF OptionsInv, CopyInv, CopyOK
<1>5. /\ given \in [Modules \cup Instances -> [Kinds -> Seq(Values)]]
      /\ FieldObeys(f, instDefaultConf[m][f], given[m][OptionOf[f]])
      /\ given[m] \in [Kinds -> Seq(Values)] /\ OptionOf[f] \in Kinds
      /\ given[m][OptionOf[f]] \in Seq(Values)
  <2>1. given \in [Modules \cup Instances -> [Kinds -> Seq(Values)]]
    BY DEF OptionsInv, SeenInv
  <2>2. given[m] \in [Kinds -> Seq(Values)] /\ OptionOf[f] \in Kinds
    BY <1>2, <2>1 DEF Kinds
  <2>3. Obeys(instDefaultConf[m], given[m])
    BY <1>2, <1>4 DEF OptionsInv, ConfigInv, ModulesObey
  <2>4. FieldObeys(f, instDefaultConf[m][f], given[m][OptionOf[f]])
    BY <1>2, <2>3 DEF Obeys
  <2> QED
    BY <2>1, <2>2, <2>4
<1>6. /\ config'[i] = Put(config[i], f, instDefaultConf[m][f])
      /\ given'[i] = [given[i] EXCEPT ![OptionOf[f]] = given[m][OptionOf[f]]]
      /\ \A x \in (Modules \cup Instances) \ {i} : given'[x] = given[x]
      /\ \A x \in Instances \ {i} : config'[x] = config[x]
  BY <1>2, <1>3, <1>5 DEF OptionsInv, DomainInv
<1>7. given' \in [Modules \cup Instances -> [Kinds -> Seq(Values)]]
  BY <1>2, <1>3, <1>5
<1>8. DOMAIN config'[i] = DOMAIN config[i] \cup {f} /\ DOMAIN config[i] \subseteq Fields
  BY <1>2, <1>6 DEF Put, OptionsInv, ConfigInv
<1>9. ASSUME NEW x \in Before[f] \cup {f}
      PROVE  x \in DOMAIN config'[i] /\ FieldObeys(x, config'[i][x], given'[i][OptionOf[x]])
  <2>1. CASE x = f
    <3>1. config'[i][x] = instDefaultConf[m][f]
      BY <1>6, <2>1 DEF Put
    <3>2. given'[i][OptionOf[x]] = given[m][OptionOf[f]]
      BY <1>2, <1>5, <1>6, <2>1
    <3> QED
      BY <1>5, <1>8, <2>1, <3>1, <3>2
  <2>2. CASE x # f
    <3>1. x \in DOMAIN config[i] /\ FieldObeys(x, config[i][x], given[i][OptionOf[x]])
      BY <1>4, <2>2
    <3>2. x \in Fields /\ OptionOf[x] \in Kinds /\ OptionOf[x] # OptionOf[f]
      BY <1>2, <2>2, BeforeNext, FieldsAre, FieldKinds DEF Kinds
    <3>3. config'[i][x] = config[i][x]
      BY <1>6, <2>2, <3>1 DEF Put
    <3>4. given'[i][OptionOf[x]] = given[i][OptionOf[x]]
      BY <1>2, <1>5, <1>6, <3>2
    <3> QED
      BY <1>8, <3>1, <3>3, <3>4
  <2> QED
    BY <2>1, <2>2
<1>10. DOMAIN prog.calls \subseteq Clients
  BY ProgramCalls DEF Inv
<1>11. step'[c] = NextField[f] /\ Call(c)' = Call(c) /\ \A d \in DOMAIN prog.calls \ {c} : Still(d)
  BY <1>2, <1>3, <1>10 DEF Goto, Call, Still, Inv, CallType
<1>12. CopyOK(c)'
  <2>1. CASE NextField[f] = "list"
    BY <1>11, <2>1, FieldsAre DEF CopyOK
  <2>2. CASE NextField[f] # "list"
    BY <1>1, <1>2, <1>3, <1>4, <1>9, <1>11, <2>2, BeforeNext DEF CopyOK
  <2> QED
    BY <2>1, <2>2
<1>13. step'[c] \notin Starting
  BY <1>2, <1>11, BeforeNext, FieldsAre DEF Starting
<1>14. Copied(i)
  <2>1. \A d \in DOMAIN prog.calls : step[d] \in Fields /\ Still(d) => Call(d).inst # i
    <3> SUFFICES ASSUME NEW d \in DOMAIN prog.calls, step[d] \in Fields, Still(d), Call(d).inst = i
                 PROVE  FALSE
      OBVIOUS
    <3>1. d = c
      BY <1>1, <1>2, Owners, OneOwner DEF Inv
    <3>2. NextField[f] # f
      BY <1>2, FieldsAre DEF NextField
    <3> QED
      BY <1>1, <1>11, <3>1, <3>2 DEF Still
  <2>2. state'[i] = IF NextField[f] = "list" THEN "new" ELSE "none"
    BY <1>2, <1>3, <1>4 DEF Inv, ApiType
  <2>3. state'[i] = "new" => Obeys(config'[i], given'[i])
    <3> SUFFICES ASSUME NextField[f] = "list"
                 PROVE  Obeys(config'[i], given'[i])
      BY <2>2
    <3>1. Before[f] \cup {f} = Fields
      BY <1>2, BeforeNext
    <3> QED
      BY <1>8, <1>9, <3>1 DEF Obeys
  <2> QED
    BY <1>2, <1>3, <1>4, <1>7, <1>8, <2>1, <2>2, <2>3 DEF Copied
<1>15. \A x \in Instances \ {i} : Kept(x)
  <2>1. \A x \in Instances \ {i} : state'[x] = state[x] /\ given[x] \in [Kinds -> Seq(Values)]
    BY <1>3, <1>5 DEF Inv, ApiType
  <2> QED
    BY <1>3, <1>6, <2>1 DEF Kept, Grown, OptionsInv, ConfigInv
<1>16. ModulesObey' /\ DomainInv'
  BY <1>2, <1>3, <1>6 DEF OptionsInv, ConfigInv, ModulesObey, DomainInv
<1>17. \A d \in DOMAIN prog.calls : Still(d) \/ Away(d)
  BY <1>1, <1>2, <1>11, <1>12, <1>13 DEF Away
<1> QED
  BY <1>3, <1>7, <1>14, <1>15, <1>16, <1>17, OutsideStart

LEMMA SetOptKeeps ==
  ASSUME Inv, OptionsInv, NEW c \in DOMAIN prog.calls, SetOpt(c)
  PROVE  OptionsInv'
<1> DEFINE i == Call(c).inst
<1> DEFINE opt == Call(c).opt
<1> DEFINE value == Call(c).value
<1> DEFINE set == WamrExtSetInstanceOpt(config[i], opt, value)
<1> USE DEF moduleVars
<1>1. /\ i \in Instances /\ i \notin Modules /\ value \in Values /\ step[c] \notin Starting
      /\ opt = "MAX_MEMORY" => value = NULL \/ value \in 0 .. UInt32 - 1
  BY GivesOption, CallOperands, NamesAssumption DEF SetOpt, Uses, Inv
<1>2. \A d \in DOMAIN prog.calls : Still(d) \/ Away(d)
  <2>1. \E err : Return(c, err)
    BY DEF SetOpt
  <2> QED
    BY <1>1, <2>1, Outside
<1>3. UNCHANGED <<prog, wasiArgs, gWasmLock, collected, got, seen, memory, loaded, instDefaultConf, state>>
  BY DEF SetOpt
<1>4. /\ state[i] # "none"
      /\ config' = [config EXCEPT ![i] = set.config]
      /\ given' = IF set.ret = 0 THEN [given EXCEPT ![i][opt] = Append(@, value)] ELSE given
  BY DEF SetOpt, Accepted, Uses
<1>5. /\ given \in [Modules \cup Instances -> [Kinds -> Seq(Values)]]
      /\ given[i] \in [Kinds -> Seq(Values)] /\ Obeys(config[i], given[i])
  BY <1>1, <1>4 DEF OptionsInv, ConfigInv, SeenInv
<1>6. IF set.ret = 0
      THEN opt \in Kinds /\ Obeys(set.config, [given[i] EXCEPT ![opt] = Append(@, value)])
      ELSE set.config = config[i]
  <2>1. PICK g, conf : g = given[i] /\ conf = config[i]
    OBVIOUS
  <2>2. PICK o, v : o = opt /\ v = value
    OBVIOUS
  <2>3. /\ g \in [Kinds -> Seq(Values)] /\ Obeys(conf, g) /\ v \in Values
        /\ o = "MAX_MEMORY" => v = NULL \/ v \in 0 .. UInt32 - 1
    BY <1>1, <1>5, <2>1, <2>2
  <2>4. IF WamrExtSetInstanceOpt(conf, o, v).ret = 0
        THEN o \in Kinds /\ Obeys(WamrExtSetInstanceOpt(conf, o, v).config, [g EXCEPT ![o] = Append(@, v)])
        ELSE WamrExtSetInstanceOpt(conf, o, v).config = conf
    BY <2>3, OptionObeyed
  <2> QED
    BY <2>1, <2>2, <2>4
<1> HIDE DEF set, opt, value
<1>7. given'[i] = IF set.ret = 0 THEN [given[i] EXCEPT ![opt] = Append(@, value)] ELSE given[i]
  BY <1>1, <1>4, <1>5
<1>8. given' \in [Modules \cup Instances -> [Kinds -> Seq(Values)]] /\ Grown(i)
  <2>1. CASE set.ret = 0
    <3>1. /\ Append(given[i][opt], value) \in Seq(Values) /\ opt \in Kinds
          /\ Len(Append(given[i][opt], value)) > Len(given[i][opt])
      BY <1>1, <1>5, <1>6, <2>1
    <3>2. given' \in [Modules \cup Instances -> [Kinds -> Seq(Values)]]
      BY <1>1, <1>4, <1>5, <2>1, <3>1
    <3> QED
      BY <1>3, <1>5, <1>7, <2>1, <3>1, <3>2 DEF Grown
  <2>2. CASE set.ret # 0
    BY <1>3, <1>4, <1>5, <2>2 DEF Grown
  <2> QED
    BY <2>1, <2>2
<1>9. DomainInv'
  BY <1>1, <1>3, <1>4 DEF OptionsInv, DomainInv
<1>10. Obeys(config'[i], given'[i])
  BY <1>1, <1>4, <1>5, <1>6, <1>7 DEF OptionsInv, DomainInv
<1>11. \A x \in (Modules \cup Instances) \ {i} : given'[x] = given[x]
  BY <1>4, <1>5
<1>12. ModulesObey'
  BY <1>1, <1>3, <1>11 DEF OptionsInv, ConfigInv, ModulesObey
<1>13. \A j \in Instances \ {i} : Kept(j)
  BY <1>3, <1>4, <1>5, <1>11 DEF Kept, Grown, OptionsInv, ConfigInv, DomainInv
<1>14. Kept(i)
  BY <1>1, <1>3, <1>4, <1>8, <1>10 DEF Kept
<1> QED
  BY <1>2, <1>3, <1>8, <1>9, <1>12, <1>13, <1>14, OutsideStart

LEMMA DestroyKeeps ==
  ASSUME Inv, OptionsInv, NEW c \in DOMAIN prog.calls, Destroy(c)
  PROVE  OptionsInv'
<1> DEFINE i == Call(c).inst
<1> USE DEF moduleVars, otherVars
<1>1. i \in Instances /\ Calling(c) /\ Call(c).call = "destroy" /\ step[c] \notin Starting
  BY MakesCall, CallOperands DEF Destroy, Uses, Inv, Starting
<1>2. \A d \in DOMAIN prog.calls : Still(d) \/ Away(d)
  <2>1. \E s \in CallSteps \ (Starting \cup Fields) : Goto(c, s)
    BY FieldsAre DEF Destroy, CallSteps, Starting
  <2> QED
    BY <1>1, <2>1, Outside
<1>3. UNCHANGED <<prog, wasiArgs, gWasmLock, collected, got, seen, loaded, instDefaultConf, given, config>>
  BY DEF Destroy
<1>4. /\ state[i] # "none" /\ state' = [state EXCEPT ![i] = "destroyed"]
      /\ memory' = [memory EXCEPT ![i] = None]
  BY DEF Destroy, Uses
<1>5. \A d \in DOMAIN prog.calls : step[d] \in Starting => Call(d).inst # i
  BY <1>1, Owners, OneOwner DEF Inv
<1>6. Gone(i)
  BY <1>1, <1>3, <1>4, <1>5 DEF Gone, Inv, ApiType
<1>7. \A j \in Instances \ {i} : Kept(j)
  BY <1>3, <1>4 DEF Kept, Grown, OptionsInv, ConfigInv, SeenInv, DomainInv, Inv, ApiType
<1>8. ModulesObey' /\ DomainInv' /\ given' \in [Modules \cup Instances -> [Kinds -> Seq(Values)]]
  BY <1>3, <1>4 DEF OptionsInv, ConfigInv, SeenInv, ModulesObey, DomainInv
<1> QED
  BY <1>2, <1>3, <1>6, <1>7, <1>8, OutsideStart

LEMMA InstanceStepKeeps ==
  ASSUME Inv, OptionsInv, NEW c \in DOMAIN prog.calls, InstanceStep(c)
  PROVE  OptionsInv'
<1> USE DEF moduleVars, instanceVars, otherVars
<1>1. CASE CreateNew(c) \/ CreateCopy(c) \/ SetOpt(c) \/ Destroy(c)
  BY <1>1, CreateNewKeeps, CreateCopyKeeps, SetOptKeeps, DestroyKeeps
<1>2. CASE CreateList(c) \/ NoInstance(c) \/ ExecMain(c) \/ MainReturns(c) \/ DestroyReturns(c)
  <2>1. UNCHANGED <<prog, wasiArgs, gWasmLock, collected, got, seen, given, config, instDefaultConf,
                    loaded, memory, state>>
    BY <1>2 DEF CreateList, NoInstance, ExecMain, MainReturns, DestroyReturns
  <2>2. step[c] \notin Starting
    BY <1>2 DEF CreateList, NoInstance, ExecMain, MainReturns, DestroyReturns, Uses, Makes, Starting
  <2>3. (\E err : Return(c, err)) \/ (\E s \in CallSteps \ (Starting \cup Fields) : Goto(c, s))
    <3>1. CASE MainReturns(c)
      BY <3>1 DEF MainReturns, MainFails
    <3>2. CASE ~MainReturns(c)
      BY <1>2, <3>2, FieldsAre DEF CreateList, NoInstance, ExecMain, MainFails, DestroyReturns, Starting,
         CallSteps
    <3> QED
      BY <3>1, <3>2
  <2>4. \A d \in DOMAIN prog.calls : Still(d) \/ Away(d)
    BY <2>2, <2>3, Outside
  <2>5. \A i \in Instances : state'[i] = state[i]
    BY <2>1
  <2> QED
    BY <2>1, <2>4, <2>5, QuietStep
<1> QED
  BY <1>1, <1>2 DEF InstanceStep

-----------------------------------------------------------------------------
\* The memory that start makes.

LEMMA LargerOf ==
  ASSUME NEW a \in Nat, NEW b \in Nat
  PROVE  Max({a, b}) = IF a < b THEN b ELSE a
<1> DEFINE m == IF a < b THEN b ELSE a
<1> DEFINE S == {a, b}
<1>1. m \in S /\ \A y \in S : m >= y
  OBVIOUS
<1>2. \A x \in S : (\A y \in S : x >= y) => x = m
  OBVIOUS
<1> HIDE DEF m, S
<1>3. Max(S) = m
  BY <1>1, <1>2 DEF Max
<1> QED
  BY <1>3 DEF m, S

\* What the guest is told of its memory.
LEMMA VmMemTotal ==
  ASSUME NEW mem
  PROVE  /\ WamrExtSysctl("sysinfo.vm_mem_total", mem, 0, 8).ret = 0
         /\ WamrExtSysctl("sysinfo.vm_mem_total", mem, 0, 8).value =
               mem.num_bytes_per_page * mem.max_page_count
<1>1. "sysinfo.vm_mem_total" \in DOMAIN SysctlSize /\ SysctlSize["sysinfo.vm_mem_total"] = 8
  BY DEF SysctlSize
<1>2. SysctlValue("sysinfo.vm_mem_total", mem, 0) = mem.num_bytes_per_page * mem.max_page_count
  BY DEF SysctlValue
<1> QED
  BY <1>1, <1>2 DEF WamrExtSysctl

LEMMA NoOverflow ==
  ASSUME NEW a \in Nat, NEW b \in Nat, a < b
  PROVE  a % b = a
OBVIOUS

\* A memory that does not grow has all its pages.
LEMMA WholeMemory ==
  ASSUME NEW own, Instantiable(own), EnlargeAssert(own)
  PROVE  /\ own.memory_data_size \in 1 .. UInt32 - 1 /\ MaxBytes(own) = own.memory_data_size
         /\ own.heap_data_end = own.memory_data_size /\ own.allocated = own.memory_data_size
         /\ own.heap_data \in 0 .. own.memory_data_size
         /\ own.max_page_count = 1 => own.num_bytes_per_page = own.memory_data_size
         /\ DOMAIN own = {"cur_page_count", "max_page_count", "num_bytes_per_page", "memory_data_size",
                          "heap_data", "heap_data_end", "allocated"}
<1>1. PICK cur, bytes, appHeap : /\ cur = own.cur_page_count /\ bytes = own.num_bytes_per_page
                                 /\ appHeap = own.heap_data
  OBVIOUS
<1>2. own.max_page_count = cur /\ own = ExternalMemory(cur, cur, bytes, appHeap)
  BY <1>1 DEF Instantiable, EnlargeAssert
<1>3. /\ own.memory_data_size = cur * bytes /\ own.heap_data_end = cur * bytes
      /\ own.allocated = cur * bytes
      /\ DOMAIN own = {"cur_page_count", "max_page_count", "num_bytes_per_page", "memory_data_size",
                       "heap_data", "heap_data_end", "allocated"}
  BY <1>2 DEF ExternalMemory
<1>4. /\ cur * bytes \in 1 .. UInt32 - 1 /\ appHeap \in 0 .. cur * bytes /\ bytes \in 1 .. UInt32 - 1
      /\ UInt32 \in Nat
  BY <1>1, <1>3, SizesAssumption DEF Instantiable
<1>5. MaxBytes(own) = cur * bytes
  <2>1. MaxBytes(own) = (cur * bytes) % UInt32
    BY <1>1, <1>2 DEF MaxBytes
  <2>2. PICK size : size = cur * bytes
    OBVIOUS
  <2>3. size % UInt32 = size
    BY <1>4, <2>2, NoOverflow
  <2> QED
    BY <2>1, <2>2, <2>3
<1>6. cur = 1 => cur * bytes = bytes
  BY <1>4
<1> QED
  BY <1>1, <1>2, <1>3, <1>4, <1>5, <1>6

\* If the limit is not above its size, it stays.
LEMMA SizedAsItIs ==
  ASSUME NEW own, Instantiable(own), NEW limit \in 0 .. UInt32 - 1, ~(limit > MaxBytes(own))
  PROVE  Sized(own, own, limit)
<1> SUFFICES ASSUME EnlargeAssert(own)
             PROVE  Sized(own, own, limit)
  BY DEF Sized
<1>1. PICK size : size = own.memory_data_size
  OBVIOUS
<1>2. size \in 1 .. UInt32 - 1 /\ UInt32 \in Nat /\ ~(limit > size)
  BY <1>1, WholeMemory, SizesAssumption
<1>3. Max({size, limit}) = size
  BY <1>2, LargerOf
<1>4. own.max_page_count = 1 => own.num_bytes_per_page * own.max_page_count = size
  BY <1>1, <1>2, WholeMemory
<1> QED
  BY <1>1, <1>3, <1>4, WholeMemory, VmMemTotal DEF Sized

\* The 32-bit arithmetic of start makes no mistake: no difference is negative, and no
\* sum is too large.
LEMMA SizedEnlarged ==
  ASSUME NEW own, Instantiable(own), NEW limit \in 0 .. UInt32 - 1, limit > MaxBytes(own)
  PROVE  Sized(Resized(Rewritten(own, limit, "data size"), limit, HeapSize(own, limit)), own, limit)
<1> DEFINE mem == Rewritten(own, limit, "data size")
<1> DEFINE new == Resized(mem, limit, HeapSize(own, limit))
<1> SUFFICES ASSUME EnlargeAssert(own)
             PROVE  Sized(new, own, limit)
  BY DEF Sized
<1>1. PICK size, appHeap : size = own.memory_data_size /\ appHeap = own.heap_data
  OBVIOUS
<1>2. /\ size \in 1 .. UInt32 - 1 /\ appHeap \in 0 .. size /\ UInt32 \in Nat /\ limit > size
      /\ MaxBytes(own) = size /\ own.heap_data_end = size
  BY <1>1, WholeMemory, SizesAssumption
<1>3. HeapSize(own, limit) = limit - appHeap
  <2>1. (own.heap_data_end - own.heap_data) + (limit - MaxBytes(own)) = limit - appHeap
    BY <1>1, <1>2
  <2>2. limit - appHeap \in Nat /\ limit - appHeap < UInt32
    BY <1>2
  <2>3. (limit - appHeap) % UInt32 = limit - appHeap
    BY <1>2, <2>2, NoOverflow
  <2> QED
    BY <2>1, <2>3 DEF HeapSize
<1>4. /\ mem.heap_data = appHeap /\ mem.num_bytes_per_page = limit /\ mem.allocated = limit
      /\ mem.max_page_count = own.max_page_count /\ DOMAIN mem = DOMAIN own
  BY <1>1, WholeMemory DEF Rewritten
<1>5. /\ new.memory_data_size = limit /\ new.heap_data_end = appHeap + HeapSize(own, limit)
      /\ new.num_bytes_per_page = limit /\ new.allocated = limit
      /\ new.max_page_count = own.max_page_count
  <2> HIDE DEF mem
  <2> QED
    BY <1>4, WholeMemory DEF Resized
<1> HIDE DEF new
<1>6. new.heap_data_end = limit
  BY <1>2, <1>3, <1>5
<1>7. Max({size, limit}) = limit
  BY <1>2, LargerOf
<1>8. new.max_page_count = 1 => new.num_bytes_per_page * new.max_page_count = limit
  BY <1>5
<1> QED
  BY <1>1, <1>5, <1>6, <1>7, <1>8, VmMemTotal DEF Sized

-----------------------------------------------------------------------------
\* The steps of start.

LEMMA MemoryIsOwn ==
  ASSUME Inv, NEW c \in DOMAIN prog.calls, Calling(c), Call(c).call = "start"
  PROVE  prog.memory[Call(c).module] = OwnMemory(prog, Call(c).inst)
<1> DEFINE Starts(m) ==
      \E d \in DOMAIN prog.calls : \E n \in DOMAIN prog.calls[d] :
         /\ prog.calls[d][n].call = "start" /\ prog.calls[d][n].inst = Call(c).inst
         /\ prog.calls[d][n].module = m
<1>1. Call(c).module \in Modules /\ Starts(Call(c).module)
  BY CallOperands DEF Inv, Calling, Call
<1>2. ASSUME NEW m \in Modules, Starts(m)
      PROVE  m = Call(c).module
  <2>1. PICK name \in DOMAIN Programs : prog = Programs[name]
    BY DEF Inv, CallType
  <2>2. PICK d \in DOMAIN prog.calls : \E n \in DOMAIN prog.calls[d] :
           /\ prog.calls[d][n].call = "start" /\ prog.calls[d][n].inst = Call(c).inst
           /\ prog.calls[d][n].module = m
    BY <1>2
  <2> QED
    BY <2>1, <2>2, ProgramsAssumption DEF Calling, Call
<1>3. Call(c).module = CHOOSE m \in Modules : Starts(m)
  BY <1>1, <1>2
<1> QED
  BY <1>3 DEF OwnMemory

LEMMA StartContext ==
  ASSUME Inv, OptionsInv, NEW c \in DOMAIN prog.calls, StartStep(c)
  PROVE  /\ c \in Clients /\ Calling(c) /\ Call(c).call = "start"
         /\ Call(c).inst \in Instances /\ Call(c).module \in Modules
         /\ UNCHANGED <<prog, given, config, instDefaultConf, loaded>>
         /\ \A d \in DOMAIN prog.calls \ {c} : Still(d)
         /\ step'[c] \notin Fields
         /\ given[Call(c).inst] \in [Kinds -> Seq(Values)]
<1> USE DEF moduleVars, instanceVars, otherVars
<1>1. c \in Clients /\ Calling(c) /\ Call(c).call = "start" /\ Moves(c)
  BY StartMoves, CallOperands DEF Inv
<1>2. Call(c).inst \in Instances /\ Call(c).module \in Modules
  BY <1>1, CallOperands DEF Inv
<1>3. UNCHANGED <<prog, given, config, instDefaultConf, loaded>>
  BY DEF StartStep, StartCheck, StartLoop, StartArgs, StartInstantiate, StartEnlarge, EnlargeHeap,
     EnlargePage, EnlargeAllocate, EnlargeEnd, StartInitialize
<1>4. DOMAIN prog.calls \subseteq Clients
  BY ProgramCalls DEF Inv
<1>5. \A d \in DOMAIN prog.calls \ {c} : Still(d)
  BY <1>1, <1>4 DEF Still, Moves, Goes, Returned, Inv, CallType
<1>6. step'[c] \notin Fields
  <2>1. CASE Returned(c)
    BY <1>1, <2>1, FieldsAre DEF Returned, Inv, CallType
  <2>2. ASSUME NEW s \in CallSteps, Goes(c, s)
        PROVE  step'[c] \notin Fields
    BY <1>1, <2>2 DEF Goes, Fits, Inv, CallType
  <2> QED
    BY <1>1, <2>1, <2>2 DEF Moves
<1>7. given[Call(c).inst] \in [Kinds -> Seq(Values)]
  BY <1>2 DEF OptionsInv, SeenInv
<1> QED
  BY <1>1, <1>2, <1>3, <1>5, <1>6, <1>7

\* A thread inside start.
LEMMA InStart ==
  ASSUME Inv, OptionsInv, NEW c \in DOMAIN prog.calls, step[c] \in Starting
  PROVE  LET j == Call(c).inst
             limits == given[j]["MAX_MEMORY"]
         IN /\ state[j] = "new" /\ StartOK(c)
            /\ MaxMemory(c) = Limit(limits) /\ MaxMemory(c) \in 0 .. UInt32 - 1
            /\ Instantiable(OwnMemory(prog, j))
            /\ \A p \in Parts : FieldObeys(ReadBy[p], config[j][ReadBy[p]], given[j][OptionOf[ReadBy[p]]])
<1> DEFINE j == Call(c).inst
<1>1. Calling(c) /\ Call(c).call = "start" /\ j \in Instances /\ Call(c).module \in Modules
  BY Owners
<1>2. state[j] = "new" /\ StartOK(c)
  BY DEF OptionsInv, StartInv, StartOK
<1>3. Obeys(config[j], given[j])
  BY <1>1, <1>2 DEF OptionsInv, ConfigInv
<1>4. \A f \in Fields : FieldObeys(f, config[j][f], given[j][OptionOf[f]])
  BY <1>3 DEF Obeys
<1>5. FieldObeys("maxMemory", config[j]["maxMemory"], given[j][OptionOf["maxMemory"]])
  BY <1>4, FieldsAre
<1>6. MaxMemory(c) = Limit(given[j]["MAX_MEMORY"]) /\ MaxMemory(c) \in 0 .. UInt32 - 1
  BY <1>5, FieldKinds DEF FieldObeys, MaxMemory
<1>7. Instantiable(OwnMemory(prog, j))
  BY <1>1, MemoryIsOwn, ProgramCalls DEF Inv
<1> QED
  BY <1>2, <1>4, <1>6, <1>7, PartsRead

\* Who has gWasmLock in start has it alone.
LEMMA LockedOut ==
  ASSUME Inv, OptionsInv, NEW c \in DOMAIN prog.calls, gWasmLock \in {None, c}
  PROVE  \A d \in DOMAIN prog.calls \ {c} : step[d] \notin {"instantiate"} \cup Enlarging
<1> SUFFICES ASSUME NEW d \in DOMAIN prog.calls \ {c}, step[d] \in {"instantiate"} \cup Enlarging
             PROVE  FALSE
  OBVIOUS
<1>1. step[d] \in Starting /\ d \in Clients
  BY ProgramCalls DEF Enlarging, Starting, Inv
<1>2. gWasmLock = d
  BY <1>1 DEF OptionsInv, StartInv, StartOK
<1> QED
  BY <1>1, <1>2, NamesAssumption

\* The instance still is one, and nothing is known to be older than before.
LEMMA SeenKept ==
  ASSUME SeenInv, UNCHANGED <<given, seen>>, \A i \in Instances : state'[i] = "none" => state[i] = "none"
  PROVE  SeenInv'
BY DEF SeenInv

LEMMA StartCheckKeeps ==
  ASSUME Inv, OptionsInv, NEW c \in DOMAIN prog.calls, StartCheck(c)
  PROVE  OptionsInv'
<1> USE DEF moduleVars, otherVars
<1>1. StartStep(c)
  BY DEF StartStep
<1>2. PICK j \in Instances : j = Call(c).inst
  BY <1>1, StartContext
<1>3. step[c] = "call" /\ step[c] \notin Starting /\ state[j] # "none"
      /\ UNCHANGED <<prog, wasiArgs, gWasmLock, got, given, config, instDefaultConf, loaded, memory, state>>
  BY <1>2 DEF StartCheck, Uses, Makes, Starting
<1>4. CASE state[j] # "new"
  <2>1. UNCHANGED <<collected, seen>> /\ \E err : Return(c, err)
    BY <1>2, <1>4 DEF StartCheck
  <2>2. \A d \in DOMAIN prog.calls : Still(d) \/ Away(d)
    BY <1>3, <2>1, Outside
  <2>3. \A x \in Instances : state'[x] = state[x]
    BY <1>3
  <2> QED
    BY <1>3, <2>1, <2>2, <2>3, QuietStep
<1>5. CASE state[j] = "new"
  <2>1. /\ collected' = [collected EXCEPT ![c] = [dirs |-> <<>>, env |-> <<>>, argv |-> <<>>]]
        /\ seen' = [seen EXCEPT ![j] = [opt \in Kinds |-> Len(given[j][opt])]]
        /\ Goto(c, "dirs")
    BY <1>2, <1>5 DEF StartCheck
  <2>2. step'[c] = "dirs" /\ Call(c)' = Call(c)
    BY <1>1, <1>3, <2>1, StartContext DEF Goto, Call, Inv, CallType
  <2>3. DOMAIN collected'[c] = Parts
    BY <1>1, <2>1, StartContext, PartsRead DEF OptionsInv, DomainInv
  <2>4. StartOK(c)'
    <3>1. "dirs" \notin {"instantiate", "initialize"} \cup Enlarging
      BY DEF Enlarging
    <3>2. \A g, n, a : ArgsOK(g, n, a, Done["dirs"])
      BY DoneBefore DEF ArgsOK
    <3> QED
      BY <1>2, <1>3, <1>5, <2>2, <2>3, <3>1, <3>2 DEF StartOK
  <2>5. SeenInv'
    <3>1. \A opt \in Kinds : given[j][opt] \in Seq(Values) /\ Len(given[j][opt]) \in Nat
      BY DEF OptionsInv, SeenInv
    <3>2. seen'[j] = [opt \in Kinds |-> Len(given[j][opt])] /\ \A x \in Instances \ {j} : seen'[x] = seen[x]
      BY <2>1 DEF OptionsInv, SeenInv
    <3>3. seen' \in [Instances -> [Kinds -> Nat]]
      BY <2>1, <3>1 DEF OptionsInv, SeenInv
    <3>4. \A opt \in Kinds : seen'[j][opt] <= Len(given'[j][opt])
      BY <1>3, <3>1, <3>2
    <3> QED
      BY <1>3, <3>2, <3>3, <3>4 DEF OptionsInv, SeenInv
  <2>6. GotOK(j)'
    BY <1>3, <1>5 DEF GotOK
  <2>7. DomainInv'
    BY <1>3, <2>1 DEF OptionsInv, DomainInv
  <2>8. \A d \in DOMAIN prog.calls \ {c} : collected'[d] = collected[d]
    BY <2>1 DEF OptionsInv, DomainInv
  <2>9. \A x \in Instances \ {j} : /\ state'[x] = state[x] /\ memory'[x] = memory[x]
                                   /\ seen'[x] = seen[x] /\ got'[x] = got[x]
    BY <1>3, <2>1 DEF OptionsInv, SeenInv
  <2> QED
    BY <1>1, <1>2, <1>3, <2>4, <2>5, <2>6, <2>7, <2>8, <2>9, StartContext, InsideStart
<1> QED
  BY <1>4, <1>5

\* What every later step of start shares: it concerns instance j, and no option is counted.
LEMMA StartStepKeeps ==
  ASSUME Inv, OptionsInv, NEW c \in DOMAIN prog.calls, StartStep(c), step[c] \in Starting,
         NEW j \in Instances, j = Call(c).inst,
         UNCHANGED seen, DomainInv',
         \A d \in DOMAIN prog.calls \ {c} : collected'[d] = collected[d],
         \A x \in Instances \ {j} : state'[x] = state[x] /\ memory'[x] = memory[x] /\ got'[x] = got[x],
         state'[j] # "none",
         UNCHANGED <<gWasmLock, wasiArgs>> \/ gWasmLock \in {None, c},
         StartOK(c)', GotOK(j)'
  PROVE  OptionsInv'
<1>1. state[j] # "none"
  BY InStart
<1>2. SeenInv'
  <2>1. \A i \in Instances : state'[i] = "none" => state[i] = "none"
    OBVIOUS
  <2> QED
    BY <2>1, StartContext, SeenKept DEF OptionsInv
<1>3. gWasmLock \in {None, c} => \A d \in DOMAIN prog.calls \ {c} : step[d] \notin {"instantiate"} \cup Enlarging
  BY LockedOut
<1> QED
  BY <1>1, <1>2, <1>3, StartContext, InsideStart

LEMMA StartLoopKeeps ==
  ASSUME Inv, OptionsInv, NEW c \in DOMAIN prog.calls, StartLoop(c)
  PROVE  OptionsInv'
<1> USE DEF moduleVars, otherVars
<1>1. StartStep(c)
  BY DEF StartStep
<1>2. PICK j \in Instances, p \in Parts : j = Call(c).inst /\ p = step[c]
  BY <1>1, StartContext DEF StartLoop, Parts
<1>3. /\ collected' = [collected EXCEPT ![c][p] = config[j][ReadBy[p]]]
      /\ Goto(c, AfterLoop[p])
      /\ UNCHANGED <<prog, wasiArgs, gWasmLock, got, given, memory, state, seen>>
  BY <1>2 DEF StartLoop
<1>4. /\ step[c] \in Starting /\ p \in DOMAIN Done /\ AfterLoop[p] \in DOMAIN Done
      /\ Done[AfterLoop[p]] = Done[p] \cup {p} /\ p \notin Done[p] /\ Done[p] \subseteq Parts
      /\ AfterLoop[p] \notin {"instantiate", "initialize"} \cup Enlarging
  <2>1. AfterLoop["dirs"] = "env" /\ AfterLoop["env"] = "argv" /\ AfterLoop["argv"] = "args of module"
    BY DEF AfterLoop
  <2> QED
    BY <1>2, <2>1, DoneBefore, PartsRead DEF Starting, Enlarging
<1>5. /\ state[j] = "new" /\ DOMAIN collected[c] = Parts
      /\ ArgsOK(given[j], seen[j], collected[c], Done[p])
      /\ FieldObeys(ReadBy[p], config[j][ReadBy[p]], given[j][OptionOf[ReadBy[p]]])
  BY <1>2, <1>4, InStart DEF StartOK
<1>6. /\ step'[c] = AfterLoop[p] /\ Call(c)' = Call(c)
      /\ collected'[c] = [collected[c] EXCEPT ![p] = config[j][ReadBy[p]]]
  BY <1>1, <1>3, StartContext DEF Goto, Call, Inv, CallType, OptionsInv, DomainInv
<1>7. DOMAIN collected'[c] = Parts /\ ArgsOK(given[j], seen[j], collected'[c], Done[p] \cup {p})
  <2>1. collected'[c][p] = config[j][ReadBy[p]] /\ \A q \in Done[p] : collected'[c][q] = collected[c][q]
    BY <1>4, <1>5, <1>6
  <2> QED
    BY <1>5, <1>6, <2>1 DEF ArgsOK
<1>8. StartOK(c)'
  BY <1>2, <1>3, <1>4, <1>5, <1>6, <1>7 DEF StartOK
<1>9. GotOK(j)'
  BY <1>3, <1>5 DEF GotOK
<1>10. DomainInv' /\ \A d \in DOMAIN prog.calls \ {c} : collected'[d] = collected[d]
  BY <1>1, <1>3, StartContext DEF OptionsInv, DomainInv
<1> QED
  BY <1>1, <1>2, <1>3, <1>4, <1>5, <1>8, <1>9, <1>10, StartStepKeeps

LEMMA StartArgsKeeps ==
  ASSUME Inv, OptionsInv, NEW c \in DOMAIN prog.calls, StartArgs(c)
  PROVE  OptionsInv'
<1> USE DEF instanceVars
<1>1. StartStep(c)
  BY DEF StartStep
<1>2. PICK j \in Instances, m \in Modules : j = Call(c).inst /\ m = Call(c).module
  BY <1>1, StartContext
<1>3. /\ step[c] = "args of module" /\ gWasmLock = None /\ gWasmLock' = c
      /\ wasiArgs' = [wasiArgs EXCEPT ![m] = collected[c]] /\ Goto(c, "instantiate")
      /\ UNCHANGED <<prog, collected, got, given, memory, state, seen>>
  BY <1>2 DEF StartArgs, WasmLockHeld
<1>4. step[c] \in Starting /\ "instantiate" \notin DOMAIN Done \cup {"initialize"} \cup Enlarging
  BY <1>3, DoneBefore DEF Starting, Enlarging
<1>5. state[j] = "new" /\ ArgsOK(given[j], seen[j], collected[c], Parts)
  BY <1>2, <1>3, <1>4, InStart, DoneBefore DEF StartOK
<1>6. step'[c] = "instantiate" /\ Call(c)' = Call(c) /\ wasiArgs'[m] = collected[c]
  BY <1>1, <1>2, <1>3, StartContext DEF Goto, Call, Inv, CallType, OptionsInv, DomainInv
<1>7. StartOK(c)'
  BY <1>2, <1>3, <1>4, <1>5, <1>6 DEF StartOK
<1>8. GotOK(j)'
  BY <1>3, <1>5 DEF GotOK
<1>9. DomainInv'
  BY <1>1, <1>3, StartContext DEF OptionsInv, DomainInv
<1> QED
  BY <1>1, <1>2, <1>3, <1>4, <1>5, <1>7, <1>8, <1>9, StartStepKeeps

\* What an instance reads through the pointers is what its options say, unless one of
\* them was given meanwhile.
LEMMA InstantiatedAsTold ==
  ASSUME NEW i \in Instances, NEW m \in Modules, DomainInv, Instantiate(i, m),
         ArgsOK(given[i], seen[i], wasiArgs[m], Parts),
         \A p \in Parts : FieldObeys(ReadBy[p], config[i][ReadBy[p]], given[i][OptionOf[ReadBy[p]]])
  PROVE  ArgsOK(given[i], seen[i], got'[i], Parts)
<1> DEFINE args == wasiArgs[m]
<1> DEFINE conf == config[i]
<1>1. PICK dirs \in Texts(args.dirs, conf.preOpenDirs), argv \in Texts(args.argv, conf.args) :
         got' = [got EXCEPT ![i] = [dirs |-> dirs, env |-> args.env, argv |-> argv]]
  BY DEF Instantiate
<1>2. got'[i] = [dirs |-> dirs, env |-> args.env, argv |-> argv]
  BY <1>1 DEF DomainInv
<1>3. ASSUME NEW h, FieldObeys("preOpenDirs", args.dirs, h), FieldObeys("preOpenDirs", conf.preOpenDirs, h)
      PROVE  FieldObeys("preOpenDirs", dirs, h)
  <2>1. DirsFollow(args.dirs, h) /\ DirsFollow(conf.preOpenDirs, h)
    BY <1>3 DEF FieldObeys
  <2>2. /\ DOMAIN conf.preOpenDirs = DOMAIN args.dirs
        /\ \A d \in DOMAIN args.dirs : conf.preOpenDirs[d] = args.dirs[d]
    BY <2>1 DEF DirsFollow
  <2>3. DOMAIN dirs = DOMAIN args.dirs /\ \A d \in DOMAIN args.dirs : dirs[d] = args.dirs[d]
    BY <2>2, TextsSame
  <2> QED
    BY <2>1, <2>3 DEF FieldObeys, DirsFollow
<1>4. ASSUME NEW h, FieldObeys("args", args.argv, h), FieldObeys("args", conf.args, h)
      PROVE  FieldObeys("args", argv, h)
  <2>1. ArgvFollows(args.argv, h) /\ ArgvFollows(conf.args, h)
    BY <1>4 DEF FieldObeys
  <2>2. /\ DOMAIN conf.args = DOMAIN args.argv
        /\ \A n \in DOMAIN args.argv : conf.args[n] = args.argv[n]
    BY <2>1 DEF ArgvFollows
  <2>3. DOMAIN argv = DOMAIN args.argv /\ \A n \in DOMAIN args.argv : argv[n] = args.argv[n]
    BY <2>2, TextsSame
  <2> QED
    BY <2>1, <2>3 DEF FieldObeys, ArgvFollows
<1>5. ASSUME NEW p \in Parts, seen[i][OptionOf[ReadBy[p]]] = Len(given[i][OptionOf[ReadBy[p]]])
      PROVE  FieldObeys(ReadBy[p], got'[i][p], given[i][OptionOf[ReadBy[p]]])
  <2>1. /\ FieldObeys(ReadBy[p], args[p], given[i][OptionOf[ReadBy[p]]])
        /\ FieldObeys(ReadBy[p], conf[ReadBy[p]], given[i][OptionOf[ReadBy[p]]])
    BY <1>5 DEF ArgsOK
  <2>2. CASE p = "dirs"
    BY <1>2, <1>3, <2>1, <2>2, PartsRead
  <2>3. CASE p = "env"
    BY <1>2, <2>1, <2>3, PartsRead
  <2>4. CASE p = "argv"
    BY <1>2, <1>4, <2>1, <2>4, PartsRead
  <2> QED
    BY <2>2, <2>3, <2>4, PartsRead
<1> QED
  BY <1>5 DEF ArgsOK

LEMMA StartInstantiateKeeps ==
  ASSUME Inv, OptionsInv, NEW c \in DOMAIN prog.calls, StartInstantiate(c)
  PROVE  OptionsInv'
<1> USE DEF moduleVars
<1>1. StartStep(c)
  BY DEF StartStep
<1>2. PICK j \in Instances, m \in Modules : j = Call(c).inst /\ m = Call(c).module
  BY <1>1, StartContext
<1>3. /\ step[c] = "instantiate" /\ UNCHANGED <<prog, wasiArgs, collected, given, state, seen>>
      /\ \/ Instantiate(j, m) /\ Goto(c, "enlarge") /\ UNCHANGED gWasmLock
         \/ Instantiate(j, m) /\ \E err : Return(c, err)
         \/ UNCHANGED <<got, memory>> /\ \E err : Return(c, err)
  BY <1>2 DEF StartInstantiate
<1>4. step[c] \in Starting /\ "enlarge" \in Enlarging /\ "enlarge" \notin DOMAIN Done
  BY <1>3, DoneBefore DEF Starting, Enlarging
<1>5. /\ state[j] = "new" /\ gWasmLock = c /\ ArgsOK(given[j], seen[j], wasiArgs[m], Parts)
      /\ \A p \in Parts : FieldObeys(ReadBy[p], config[j][ReadBy[p]], given[j][OptionOf[ReadBy[p]]])
  BY <1>2, <1>3, <1>4, InStart DEF StartOK
<1>6. /\ DOMAIN got' = Instances /\ DOMAIN memory' = Instances
      /\ \A x \in Instances \ {j} : got'[x] = got[x] /\ memory'[x] = memory[x]
  BY <1>3 DEF Instantiate, OptionsInv, DomainInv
<1>7. StartOK(c)'
  <2>1. CASE Instantiate(j, m) /\ Goto(c, "enlarge") /\ UNCHANGED gWasmLock
    <3>1. step'[c] = "enlarge" /\ Call(c)' = Call(c)
      BY <1>1, <1>3, <2>1, StartContext DEF Goto, Call, Inv, CallType
    <3>2. ArgsOK(given[j], seen[j], got'[j], Parts)
      BY <1>5, <2>1, InstantiatedAsTold DEF OptionsInv
    <3>3. memory'[j] = OwnMemory(prog, j)
      BY <1>1, <1>2, <2>1, StartContext, MemoryIsOwn DEF Instantiate, OptionsInv, DomainInv
    <3>4. MakingOK(given[j]["MAX_MEMORY"], seen[j]["MAX_MEMORY"], memory'[j], OwnMemory(prog, j),
                   "enlarge", collected[c])
      BY <3>3 DEF MakingOK, Rewritten
    <3> QED
      BY <1>2, <1>3, <1>4, <1>5, <2>1, <3>1, <3>2, <3>4 DEF StartOK
  <2>2. ASSUME NEW err, Return(c, err)
        PROVE  StartOK(c)'
    <3>1. step'[c] \notin Starting
      BY <1>1, <2>2, StartContext, ReturnMoves DEF Returned, Inv, CallType, Starting
    <3> QED
      BY <3>1 DEF StartOK
  <2> QED
    BY <1>3, <2>1, <2>2
<1>8. GotOK(j)'
  BY <1>3, <1>5 DEF GotOK
<1>9. DomainInv'
  BY <1>1, <1>3, <1>6, StartContext DEF OptionsInv, DomainInv
<1> QED
  BY <1>1, <1>2, <1>3, <1>4, <1>5, <1>6, <1>7, <1>8, <1>9, StartStepKeeps

LEMMA StartEnlargeKeeps ==
  ASSUME Inv, OptionsInv, NEW c \in DOMAIN prog.calls, StartEnlarge(c)
  PROVE  OptionsInv'
<1> USE DEF moduleVars, instanceVars
<1>1. StartStep(c)
  BY DEF StartStep
<1>2. PICK j \in Instances : j = Call(c).inst
  BY <1>1, StartContext
<1>3. PICK limit : limit = MaxMemory(c)
  OBVIOUS
<1>4. /\ step[c] = "enlarge"
      /\ UNCHANGED <<prog, wasiArgs, collected, given, state, seen, got, memory>>
      /\ IF ToEnlarge(memory[j], limit)
         THEN Goto(c, "heap size") /\ UNCHANGED gWasmLock
         ELSE Goto(c, "initialize")
  BY <1>2, <1>3 DEF StartEnlarge
<1>5. /\ step[c] \in Starting /\ {"enlarge", "heap size"} \subseteq Enlarging
      /\ {"heap size", "initialize"} \cap DOMAIN Done = {} /\ "initialize" \notin Enlarging
  BY <1>4, DoneBefore DEF Starting, Enlarging
<1>6. /\ state[j] = "new" /\ gWasmLock = c /\ ArgsOK(given[j], seen[j], got[j], Parts)
      /\ MakingOK(given[j]["MAX_MEMORY"], seen[j]["MAX_MEMORY"], memory[j], OwnMemory(prog, j),
                  "enlarge", collected[c])
      /\ limit = Limit(given[j]["MAX_MEMORY"]) /\ limit \in 0 .. UInt32 - 1
      /\ Instantiable(OwnMemory(prog, j))
  BY <1>2, <1>3, <1>4, <1>5, InStart DEF StartOK
<1>7. StartOK(c)'
  <2>1. CASE ToEnlarge(memory[j], limit)
    <3>1. step'[c] = "heap size" /\ Call(c)' = Call(c)
      BY <1>1, <1>4, <2>1, StartContext DEF Goto, Call, Inv, CallType
    <3>2. MakingOK(given[j]["MAX_MEMORY"], seen[j]["MAX_MEMORY"], memory[j], OwnMemory(prog, j),
                   "heap size", collected[c])
      BY <1>6, <2>1 DEF MakingOK, Rewritten, ToEnlarge
    <3> QED
      BY <1>2, <1>4, <1>5, <1>6, <2>1, <3>1, <3>2 DEF StartOK
  <2>2. CASE ~ToEnlarge(memory[j], limit)
    <3>1. step'[c] = "initialize" /\ Call(c)' = Call(c)
      BY <1>1, <1>4, <2>2, StartContext DEF Goto, Call, Inv, CallType
    <3>2. SizedOK(given[j]["MAX_MEMORY"], seen[j]["MAX_MEMORY"], memory[j], OwnMemory(prog, j))
      <4> SUFFICES ASSUME seen[j]["MAX_MEMORY"] = Len(given[j]["MAX_MEMORY"])
                   PROVE  Sized(memory[j], OwnMemory(prog, j), limit)
        BY <1>6 DEF SizedOK
      <4>1. memory[j] = OwnMemory(prog, j)
        BY <1>6 DEF MakingOK, Rewritten
      <4> QED
        BY <1>6, <2>2, <4>1, SizedAsItIs DEF ToEnlarge
    <3> QED
      BY <1>2, <1>4, <1>5, <1>6, <3>1, <3>2 DEF StartOK
  <2> QED
    BY <2>1, <2>2
<1>8. GotOK(j)'
  BY <1>4, <1>6 DEF GotOK
<1>9. DomainInv'
  BY <1>1, <1>4, StartContext DEF OptionsInv, DomainInv
<1> QED
  BY <1>1, <1>2, <1>4, <1>5, <1>6, <1>7, <1>8, <1>9, StartStepKeeps

LEMMA EnlargeHeapKeeps ==
  ASSUME Inv, OptionsInv, NEW c \in DOMAIN prog.calls, EnlargeHeap(c)
  PROVE  OptionsInv'
<1> USE DEF moduleVars, otherVars
<1>1. StartStep(c)
  BY DEF StartStep
<1>0. PICK limit : limit = MaxMemory(c)
  OBVIOUS
<1>2. PICK j \in Instances : j = Call(c).inst
  BY <1>1, StartContext
<1>3. /\ step[c] = "heap size" /\ Goto(c, "page bytes")
      /\ collected' = [collected EXCEPT ![c] = [heapSize |-> HeapSize(memory[j], limit)]]
      /\ UNCHANGED <<prog, wasiArgs, gWasmLock, given, state, seen, got, memory>>
  BY <1>0, <1>2 DEF EnlargeHeap
<1>4. /\ step[c] \in Starting /\ {"heap size", "page bytes"} \subseteq Enlarging
      /\ "page bytes" \notin DOMAIN Done
  BY <1>3, DoneBefore DEF Starting, Enlarging
<1>5. /\ state[j] = "new" /\ gWasmLock = c /\ ArgsOK(given[j], seen[j], got[j], Parts)
      /\ MakingOK(given[j]["MAX_MEMORY"], seen[j]["MAX_MEMORY"], memory[j], OwnMemory(prog, j),
                  "heap size", collected[c])
      /\ limit = Limit(given[j]["MAX_MEMORY"])
  BY <1>0, <1>2, <1>3, <1>4, InStart DEF StartOK
<1>6. /\ step'[c] = "page bytes" /\ Call(c)' = Call(c)
      /\ collected'[c].heapSize = HeapSize(memory[j], limit)
  BY <1>1, <1>3, StartContext DEF Goto, Call, Inv, CallType, OptionsInv, DomainInv
<1>7. MakingOK(given[j]["MAX_MEMORY"], seen[j]["MAX_MEMORY"], memory[j], OwnMemory(prog, j),
               "page bytes", collected'[c])
  BY <1>5, <1>6 DEF MakingOK, Rewritten
<1>8. StartOK(c)'
  BY <1>2, <1>3, <1>4, <1>5, <1>6, <1>7 DEF StartOK
<1>9. GotOK(j)'
  BY <1>3, <1>5 DEF GotOK
<1>10. DomainInv'
  BY <1>1, <1>3, StartContext DEF OptionsInv, DomainInv
<1>11. \A d \in DOMAIN prog.calls \ {c} : collected'[d] = collected[d]
  <2>1. DOMAIN prog.calls \subseteq Clients
    BY ProgramCalls DEF Inv
  <2> QED
    BY <1>3, <2>1 DEF OptionsInv, DomainInv
<1> QED
  BY <1>1, <1>2, <1>3, <1>4, <1>5, <1>8, <1>9, <1>10, <1>11, StartStepKeeps

LEMMA EnlargePageKeeps ==
  ASSUME Inv, OptionsInv, NEW c \in DOMAIN prog.calls, EnlargePage(c)
  PROVE  OptionsInv'
<1> USE DEF moduleVars, otherVars
<1>1. StartStep(c)
  BY DEF StartStep
<1>0. PICK limit : limit = MaxMemory(c)
  OBVIOUS
<1>2. PICK j \in Instances : j = Call(c).inst
  BY <1>1, StartContext
<1>3. /\ step[c] = "page bytes" /\ Goto(c, "allocate")
      /\ memory' = [memory EXCEPT ![j].num_bytes_per_page = limit]
      /\ UNCHANGED <<prog, wasiArgs, gWasmLock, collected, given, state, seen, got>>
  BY <1>0, <1>2 DEF EnlargePage
<1>4. /\ step[c] \in Starting /\ {"page bytes", "allocate"} \subseteq Enlarging
      /\ "allocate" \notin DOMAIN Done
  BY <1>3, DoneBefore DEF Starting, Enlarging
<1>5. /\ state[j] = "new" /\ gWasmLock = c /\ ArgsOK(given[j], seen[j], got[j], Parts)
      /\ MakingOK(given[j]["MAX_MEMORY"], seen[j]["MAX_MEMORY"], memory[j], OwnMemory(prog, j),
                  "page bytes", collected[c])
      /\ limit = Limit(given[j]["MAX_MEMORY"])
  BY <1>0, <1>2, <1>3, <1>4, InStart DEF StartOK
<1>6. /\ step'[c] = "allocate" /\ Call(c)' = Call(c)
      /\ memory'[j] = [memory[j] EXCEPT !.num_bytes_per_page = limit]
  BY <1>1, <1>3, StartContext DEF Goto, Call, Inv, CallType, OptionsInv, DomainInv
<1>7. MakingOK(given[j]["MAX_MEMORY"], seen[j]["MAX_MEMORY"], memory'[j], OwnMemory(prog, j),
               "allocate", collected[c])
  BY <1>5, <1>6 DEF MakingOK, Rewritten
<1>8. StartOK(c)'
  BY <1>2, <1>3, <1>4, <1>5, <1>6, <1>7 DEF StartOK
<1>9. GotOK(j)'
  BY <1>3, <1>5 DEF GotOK
<1>10. DomainInv' /\ \A x \in Instances \ {j} : memory'[x] = memory[x]
  BY <1>1, <1>3, StartContext DEF OptionsInv, DomainInv
<1> QED
  BY <1>1, <1>2, <1>3, <1>4, <1>5, <1>8, <1>9, <1>10, StartStepKeeps

LEMMA EnlargeAllocateKeeps ==
  ASSUME Inv, OptionsInv, NEW c \in DOMAIN prog.calls, EnlargeAllocate(c)
  PROVE  OptionsInv'
<1> USE DEF moduleVars
<1>1. StartStep(c)
  BY DEF StartStep
<1>0. PICK limit : limit = MaxMemory(c)
  OBVIOUS
<1>2. PICK j \in Instances : j = Call(c).inst
  BY <1>1, StartContext
<1>3. /\ step[c] = "allocate"
      /\ UNCHANGED <<prog, wasiArgs, collected, given, seen, got>>
      /\ \/ /\ memory' = [memory EXCEPT ![j].allocated = limit] /\ Goto(c, "data size")
            /\ UNCHANGED <<state, gWasmLock>>
         \/ /\ state' = [state EXCEPT ![j] = "ended"] /\ UNCHANGED memory
            /\ \E err : Return(c, err)
  BY <1>0, <1>2 DEF EnlargeAllocate
<1>4. /\ step[c] \in Starting /\ {"allocate", "data size"} \subseteq Enlarging
      /\ "data size" \notin DOMAIN Done
  BY <1>3, DoneBefore DEF Starting, Enlarging
<1>5. /\ state[j] = "new" /\ gWasmLock = c /\ ArgsOK(given[j], seen[j], got[j], Parts)
      /\ MakingOK(given[j]["MAX_MEMORY"], seen[j]["MAX_MEMORY"], memory[j], OwnMemory(prog, j),
                  "allocate", collected[c])
      /\ limit = Limit(given[j]["MAX_MEMORY"])
  BY <1>0, <1>2, <1>3, <1>4, InStart DEF StartOK
<1>6. CASE memory' = [memory EXCEPT ![j].allocated = limit] /\ Goto(c, "data size")
           /\ UNCHANGED <<state, gWasmLock>>
  <2>1. /\ step'[c] = "data size" /\ Call(c)' = Call(c)
        /\ memory'[j] = [memory[j] EXCEPT !.allocated = limit]
    BY <1>1, <1>3, <1>6, StartContext DEF Goto, Call, Inv, CallType, OptionsInv, DomainInv
  <2>2. MakingOK(given[j]["MAX_MEMORY"], seen[j]["MAX_MEMORY"], memory'[j], OwnMemory(prog, j),
                 "data size", collected[c])
    BY <1>5, <2>1 DEF MakingOK, Rewritten
  <2>3. StartOK(c)'
    BY <1>2, <1>3, <1>4, <1>5, <1>6, <2>1, <2>2 DEF StartOK
  <2>4. GotOK(j)'
    BY <1>5, <1>6 DEF GotOK
  <2>5. DomainInv' /\ \A x \in Instances \ {j} : memory'[x] = memory[x]
    BY <1>1, <1>3, <1>6, StartContext DEF OptionsInv, DomainInv
  <2> QED
    BY <1>1, <1>2, <1>3, <1>4, <1>5, <1>6, <2>3, <2>4, <2>5, StartStepKeeps
<1>7. CASE state' = [state EXCEPT ![j] = "ended"] /\ UNCHANGED memory /\ \E err : Return(c, err)
  <2>1. step'[c] \notin Starting
    BY <1>1, <1>7, StartContext, ReturnMoves DEF Returned, Inv, CallType, Starting
  <2>2. state'[j] = "ended" /\ \A x \in Instances \ {j} : state'[x] = state[x]
    BY <1>7 DEF Inv, ApiType
  <2>3. StartOK(c)'
    BY <2>1 DEF StartOK
  <2>4. GotOK(j)'
    BY <1>3, <1>5, <2>2 DEF GotOK
  <2>5. DomainInv'
    BY <1>1, <1>3, <1>7, StartContext DEF OptionsInv, DomainInv
  <2> QED
    BY <1>1, <1>2, <1>3, <1>4, <1>5, <1>7, <2>2, <2>3, <2>4, <2>5, StartStepKeeps
<1> QED
  BY <1>3, <1>6, <1>7

LEMMA EnlargeEndKeeps ==
  ASSUME Inv, OptionsInv, NEW c \in DOMAIN prog.calls, EnlargeEnd(c)
  PROVE  OptionsInv'
<1> USE DEF moduleVars
<1>1. StartStep(c)
  BY DEF StartStep
<1>0. PICK limit : limit = MaxMemory(c)
  OBVIOUS
<1>2. PICK j \in Instances : j = Call(c).inst
  BY <1>1, StartContext
<1>3. /\ step[c] = "data size" /\ Goto(c, "initialize")
      /\ memory' = [memory EXCEPT ![j] = Resized(@, limit, collected[c].heapSize)]
      /\ UNCHANGED <<prog, wasiArgs, collected, given, state, seen, got>>
  BY <1>0, <1>2 DEF EnlargeEnd
<1>4. /\ step[c] \in Starting /\ "data size" \in Enlarging
      /\ "initialize" \notin DOMAIN Done \cup {"instantiate"} \cup Enlarging
  BY <1>3, DoneBefore DEF Starting, Enlarging
<1>5. /\ state[j] = "new" /\ gWasmLock = c /\ ArgsOK(given[j], seen[j], got[j], Parts)
      /\ MakingOK(given[j]["MAX_MEMORY"], seen[j]["MAX_MEMORY"], memory[j], OwnMemory(prog, j),
                  "data size", collected[c])
      /\ limit = Limit(given[j]["MAX_MEMORY"]) /\ limit \in 0 .. UInt32 - 1
      /\ Instantiable(OwnMemory(prog, j))
  BY <1>0, <1>2, <1>3, <1>4, InStart DEF StartOK
<1>6. /\ step'[c] = "initialize" /\ Call(c)' = Call(c)
      /\ memory'[j] = Resized(memory[j], limit, collected[c].heapSize)
  BY <1>1, <1>3, StartContext DEF Goto, Call, Inv, CallType, OptionsInv, DomainInv
<1>7. SizedOK(given[j]["MAX_MEMORY"], seen[j]["MAX_MEMORY"], memory'[j], OwnMemory(prog, j))
  <2> SUFFICES ASSUME seen[j]["MAX_MEMORY"] = Len(given[j]["MAX_MEMORY"])
               PROVE  Sized(memory'[j], OwnMemory(prog, j), limit)
    BY <1>5 DEF SizedOK
  <2>1. /\ memory[j] = Rewritten(OwnMemory(prog, j), limit, "data size")
        /\ limit > MaxBytes(OwnMemory(prog, j))
        /\ collected[c].heapSize = HeapSize(OwnMemory(prog, j), limit)
    BY <1>5 DEF MakingOK
  <2> QED
    BY <1>5, <1>6, <2>1, SizedEnlarged
<1>8. StartOK(c)'
  BY <1>2, <1>3, <1>4, <1>5, <1>6, <1>7 DEF StartOK
<1>9. GotOK(j)'
  BY <1>3, <1>5 DEF GotOK
<1>10. DomainInv' /\ \A x \in Instances \ {j} : memory'[x] = memory[x]
  BY <1>1, <1>3, StartContext DEF OptionsInv, DomainInv
<1> QED
  BY <1>1, <1>2, <1>3, <1>4, <1>5, <1>8, <1>9, <1>10, StartStepKeeps

LEMMA StartInitializeKeeps ==
  ASSUME Inv, OptionsInv, NEW c \in DOMAIN prog.calls, StartInitialize(c)
  PROVE  OptionsInv'
<1> USE DEF moduleVars, otherVars
<1>1. StartStep(c)
  BY DEF StartStep
<1>2. PICK j \in Instances : j = Call(c).inst
  BY <1>1, StartContext
<1>3. /\ step[c] = "initialize" /\ (\E err : Return(c, err))
      /\ \E s \in {"started", "ended"} : state' = [state EXCEPT ![j] = s]
      /\ UNCHANGED <<prog, wasiArgs, gWasmLock, collected, got, given, seen, memory>>
  BY <1>2 DEF StartInitialize
<1>4. step[c] \in Starting /\ "initialize" \in Starting
  BY <1>3 DEF Starting
<1>5. step'[c] \notin Starting
  BY <1>1, <1>3, StartContext, ReturnMoves DEF Returned, Inv, CallType, Starting
<1>6. StartOK(c)'
  BY <1>5 DEF StartOK
<1>7. /\ ArgsOK(given[j], seen[j], got[j], Parts)
      /\ SizedOK(given[j]["MAX_MEMORY"], seen[j]["MAX_MEMORY"], memory[j], OwnMemory(prog, j))
  BY <1>2, <1>3, <1>4, InStart DEF StartOK
<1>8. state'[j] \in {"started", "ended"} /\ \A x \in Instances \ {j} : state'[x] = state[x]
  BY <1>3 DEF Inv, ApiType
<1>9. GotOK(j)'
  BY <1>3, <1>7, <1>8 DEF GotOK
<1>10. DomainInv'
  BY <1>1, <1>3, StartContext DEF OptionsInv, DomainInv
<1> QED
  BY <1>1, <1>2, <1>3, <1>4, <1>6, <1>8, <1>9, <1>10, StartStepKeeps

-----------------------------------------------------------------------------
\* Every instance gets what its options say.

LEMMA InitOptions == Init => OptionsInv
<1> SUFFICES ASSUME Init PROVE OptionsInv
  OBVIOUS
<1>1. DomainInv
  BY DEF Init, DomainInv
<1>2. SeenInv
  <2>1. given = [x \in Modules \cup Instances |-> [opt \in Kinds |-> <<>>]]
        /\ seen = [i \in Instances |-> [opt \in Kinds |-> 0]]
    BY DEF Init
  <2>2. <<>> \in Seq(Values) /\ Len(<<>>) = 0
    OBVIOUS
  <2> QED
    BY <2>1, <2>2 DEF SeenInv
<1>3. ConfigInv
  <2>1. \A m \in Modules : m \notin loaded /\ given[m] = NoOptions
    BY DEF Init, NoOptions
  <2>2. \A i \in Instances : state[i] = "none" /\ DOMAIN config[i] = {}
    BY DEF Init
  <2> QED
    BY <2>1, <2>2 DEF ConfigInv, ModulesObey
<1>4. \A c \in DOMAIN prog.calls : step[c] \notin Starting \cup Fields
  <2>1. DOMAIN prog.calls \subseteq Clients
    BY InitTypeInv, ProgramCalls DEF Inv
  <2> QED
    BY <2>1, FieldsAre DEF Init, Starting
<1>5. CopyInv /\ StartInv
  BY <1>4 DEF CopyInv, CopyOK, StartInv, StartOK
<1>6. GotInv
  BY DEF Init, GotInv, GotOK
<1> QED
  BY <1>1, <1>2, <1>3, <1>5, <1>6 DEF OptionsInv

LEMMA NextOptions ==
  ASSUME Inv, OptionsInv, [Next]_vars
  PROVE  OptionsInv'
<1>1. ASSUME NEW c \in DOMAIN prog.calls, Step(c)
      PROVE  OptionsInv'
  <2>1. CASE StartStep(c)
    BY <2>1, StartCheckKeeps, StartLoopKeeps, StartArgsKeeps, StartInstantiateKeeps, StartEnlargeKeeps,
       EnlargeHeapKeeps, EnlargePageKeeps, EnlargeAllocateKeeps, EnlargeEndKeeps, StartInitializeKeeps
       DEF StartStep
  <2> QED
    BY <1>1, <2>1, StepKinds, InitQuiet, ModuleStepKeeps, InstanceStepKeeps, ExitQuiet
<1>2. CASE LoopStep \/ Stopping \/ (\E i \in Instances : GuestTrap(i)) \/ UNCHANGED vars
  BY <1>2, OthersQuiet
<1> QED
  BY <1>1, <1>2 DEF Next

LEMMA OptionsHold == Spec => [](Inv /\ OptionsInv)
<1>1. Init => Inv /\ OptionsInv
  BY InitTypeInv, InitOptions
<1>2. Inv /\ OptionsInv /\ [Next]_vars => (Inv /\ OptionsInv)'
  BY NextTypeInv, NextOptions
<1> QED
  BY <1>1, <1>2, PTL DEF Spec

\* Every instance that has been started, also one whose start has failed before, runs with
\* the directories, variables and arguments that the options given for it say, each kind
\* unless an option of it was given during start, which reads the configuration without a
\* lock.  What other threads create and start meanwhile, and set for other instances or as
\* defaults, makes no difference.  Unless a limit was given during start, the fields of its
\* memory agree with each other, with the bytes allocated and with the limit, or with its
\* module's size if that is larger.
THEOREM RunsAsConfigured == Spec => []InstanceAsConfigured
<1>1. OptionsInv => InstanceAsConfigured
  <2> SUFFICES ASSUME OptionsInv
               PROVE  InstanceAsConfigured
    OBVIOUS
  <2>1. InstanceGetsItsOptions
    <3> SUFFICES ASSUME NEW i \in Instances, state[i] \in {"started", "ended"}
                 PROVE  /\ Untouched(i, "ADD_HOST_DIR") => DirsFollow(got[i].dirs, given[i]["ADD_HOST_DIR"])
                        /\ Untouched(i, "ADD_ENV_VAR") => EnvFollows(got[i].env, given[i]["ADD_ENV_VAR"])
                        /\ Untouched(i, "ARG") => ArgvFollows(got[i].argv, given[i]["ARG"])
      BY DEF InstanceGetsItsOptions
    <3>1. \A p \in Parts :
             seen[i][OptionOf[ReadBy[p]]] = Len(given[i][OptionOf[ReadBy[p]]])
             => FieldObeys(ReadBy[p], got[i][p], given[i][OptionOf[ReadBy[p]]])
      BY DEF OptionsInv, GotInv, GotOK, ArgsOK
    <3>2. /\ Untouched(i, "ADD_HOST_DIR") =>
                FieldObeys("preOpenDirs", got[i]["dirs"], given[i]["ADD_HOST_DIR"])
          /\ Untouched(i, "ADD_ENV_VAR") => FieldObeys("envVars", got[i]["env"], given[i]["ADD_ENV_VAR"])
          /\ Untouched(i, "ARG") => FieldObeys("args", got[i]["argv"], given[i]["ARG"])
      BY <3>1, PartsRead, FieldKinds DEF Untouched
    <3> QED
      BY <3>2 DEF FieldObeys
  <2>2. MemoryConsistent
    <3>1. \A i \in Instances : state[i] = "started" =>
             SizedOK(given[i]["MAX_MEMORY"], seen[i]["MAX_MEMORY"], memory[i], OwnMemory(prog, i))
      BY DEF OptionsInv, GotInv, GotOK
    <3> QED
      BY <3>1 DEF MemoryConsistent, SizedOK, Sized, Untouched
  <2> QED
    BY <2>1, <2>2 DEF InstanceAsConfigured
<1> QED
  BY <1>1, OptionsHold, PTL

===============================================================================

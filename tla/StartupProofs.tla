---------------------------- MODULE StartupProofs ----------------------------
(***************************************************************************)
(* Proofs about Startup, for any machine, options and bounds: the packages *)
(* are complete, an accepted configuration has what its storage module     *)
(* uses, the threads are served, and what is taken is given back.          *)
(***************************************************************************)
EXTENDS Startup, Arithmetic, SequenceTheorems

\* The packages have the online cpus whose entry has been handled.
Seen == Online \ (unread \union entry)
Packed ==
    /\ unread \subseteq Cpus
    /\ entry \subseteq Online \ unread
    /\ \A a, b \in entry : a = b
    /\ pkgs = [p \in {PackageOf[c] : c \in Seen} |-> {c \in Seen : PackageOf[c] = p}]

LEMMA PackedInit == HwInfoInit => Packed
<1> SUFFICES ASSUME HwInfoInit PROVE Packed
  OBVIOUS
<1>1. Seen = {}
  BY HwInfoAssumption DEF HwInfoInit, Seen
<1>2. {PackageOf[c] : c \in Seen} = {}
  BY <1>1
<1> QED  BY <1>2 DEF HwInfoInit, Packed

LEMMA ReadEntryKeepsPacked == Packed /\ ReadEntry => Packed'
<1> SUFFICES ASSUME Packed, ReadEntry PROVE Packed'
  OBVIOUS
<1>1. PICK c \in unread : unread' = unread \ {c} /\ entry' = {c} \intersect Online
  BY DEF ReadEntry
<1>2. Seen' = Seen
  BY <1>1 DEF ReadEntry, Seen
<1> QED  BY <1>1, <1>2 DEF ReadEntry, Packed

LEMMA AddCpuKeepsPacked == Packed /\ AddCpu => Packed'
<1> SUFFICES ASSUME Packed, AddCpu PROVE Packed'
  OBVIOUS
<1>1. PICK c \in entry : pkgs' = Added(pkgs, PackageOf[c], c) /\ entry' = {} /\ unread' = unread
  BY DEF AddCpu
<1>2. Seen' = Seen \union {c} /\ c \notin Seen
  BY <1>1 DEF Seen, Packed
<1> DEFINE Of(s, p) == {d \in s : PackageOf[d] = p}
<1>3. {PackageOf[d] : d \in Seen'} = {PackageOf[d] : d \in Seen} \union {PackageOf[c]}
  BY <1>2
<1>4. DOMAIN pkgs = {PackageOf[d] : d \in Seen}
      /\ \A q \in DOMAIN pkgs : pkgs[q] = Of(Seen, q)
  BY DEF Packed
<1>5. ASSUME NEW q \in {PackageOf[d] : d \in Seen'}
      PROVE  (IF q \in DOMAIN pkgs THEN pkgs[q] ELSE {})
                 \union (IF q = PackageOf[c] THEN {c} ELSE {}) = Of(Seen', q)
  <2>1. Of(Seen', q) = Of(Seen, q) \union (IF q = PackageOf[c] THEN {c} ELSE {})
    BY <1>2
  <2>2. q \notin DOMAIN pkgs => Of(Seen, q) = {}
    BY <1>4
  <2> QED  BY <1>4, <2>1, <2>2
<1>6. pkgs' = [q \in {PackageOf[d] : d \in Seen'} |-> Of(Seen', q)]
  BY <1>1, <1>3, <1>4, <1>5 DEF Added
<1> QED  BY <1>1, <1>6 DEF Packed

-----------------------------------------------------------------------------
\* The order of the cleanup, all together and one by one.
LEMMA CleanupOrder ==
    /\ DOMAIN Cleanup = 1 .. 6
    /\ Cleanup[1] = {"document"} /\ Cleanup[2] = {"container actors"}
    /\ Cleanup[3] = {"system actor"} /\ Cleanup[4] = {"reporting actor"}
    /\ Cleanup[5] = {"storage"}
    /\ Cleanup[6] = {"ticker", "config", "topology", "pmu", "hwinfo", "zsys"}
  BY DEF Cleanup

LEMMA CleanupIsAll == UNION Range(Cleanup) = Resources \ MongoHandles
<1>1. ASSUME NEW r PROVE r \in UNION Range(Cleanup) <=> \E i \in 1 .. 6 : r \in Cleanup[i]
  <2>1. r \in UNION Range(Cleanup) <=> \E i \in DOMAIN Cleanup : r \in Cleanup[i]
    BY Zenon DEF Range
  <2> QED  BY <2>1, CleanupOrder, Zenon
<1>2. ASSUME NEW r
      PROVE  (\E i \in 1 .. 6 : r \in Cleanup[i]) <=>
                 r \in Cleanup[1] \/ r \in Cleanup[2] \/ r \in Cleanup[3]
                   \/ r \in Cleanup[4] \/ r \in Cleanup[5] \/ r \in Cleanup[6]
  <2> HIDE DEF Cleanup
  <2>1. \A i \in 1 .. 6 : i = 1 \/ i = 2 \/ i = 3 \/ i = 4 \/ i = 5 \/ i = 6
    OBVIOUS
  <2>2. {1, 2, 3, 4, 5, 6} \subseteq 1 .. 6
    OBVIOUS
  <2> QED  BY <2>1, <2>2, Zenon
<1>3. ASSUME NEW r PROVE r \in UNION Range(Cleanup) <=> r \in Resources \ MongoHandles
  BY <1>1, <1>2, CleanupOrder DEF Resources, MongoHandles, Threads, PerfActors
<1> QED  BY <1>3, Zenon

\* While a thread runs, one part is released, the first one left.
LEMMA ReleasedFirst ==
    ASSUME Running # {}, "zsys" \in alive
    PROVE  \E i \in 1 .. 6 :
               /\ Released = Cleanup[i] /\ Cleanup[i] \intersect alive # {}
               /\ \A j \in 1 .. i - 1 : Cleanup[j] \intersect alive = {}
<1> DEFINE held == {i \in DOMAIN Cleanup : Cleanup[i] \intersect alive # {}}
           least(i) == i \in held /\ \A j \in held : i <= j
<1>1. 6 \in held
  <2>1. "zsys" \in Cleanup[6]
    <3> HIDE DEF Cleanup
    <3> QED  BY CleanupOrder
  <2>2. 6 \in DOMAIN Cleanup
    <3>1. 6 \in 1 .. 6
      OBVIOUS
    <3> QED  BY <3>1, CleanupOrder, Zenon
  <2> QED  BY <2>1, <2>2, Zenon
<1>2. held \subseteq 1 .. 6
  BY CleanupOrder
<1> HIDE DEF held
<1>3. \E i \in held : least(i)
  <2>1. CASE 1 \in held
    BY <2>1, <1>2
  <2>2. CASE 1 \notin held /\ 2 \in held
    BY <2>2, <1>2
  <2>3. CASE 1 \notin held /\ 2 \notin held /\ 3 \in held
    BY <2>3, <1>2
  <2>4. CASE 1 \notin held /\ 2 \notin held /\ 3 \notin held /\ 4 \in held
    BY <2>4, <1>2
  <2>5. CASE 1 \notin held /\ 2 \notin held /\ 3 \notin held /\ 4 \notin held /\ 5 \in held
    BY <2>5, <1>2
  <2>6. CASE 1 \notin held /\ 2 \notin held /\ 3 \notin held /\ 4 \notin held /\ 5 \notin held
    BY <2>6, <1>1, <1>2
  <2> QED  BY <2>1, <2>2, <2>3, <2>4, <2>5, <2>6
<1>4. PICK i \in held : i = (CHOOSE k \in held : \A j \in held : k <= j) /\ least(i)
  BY <1>3
<1>5. i \in 1 .. 6
  BY <1>2, <1>4
<1>6. Released = Cleanup[i] /\ Cleanup[i] \intersect alive # {}
  BY <1>4 DEF Released, held
<1>7. \A j \in 1 .. i - 1 : Cleanup[j] \intersect alive = {}
  <2> SUFFICES ASSUME NEW j \in 1 .. i - 1 PROVE j \notin held /\ j \in DOMAIN Cleanup
    BY DEF held
  <2>1. i \in Int /\ j \in Int /\ ~(i <= j) /\ j \in 1 .. 6
    BY <1>5
  <2>2. j \notin held
    BY <1>4, <2>1
  <2> QED  BY <2>1, <2>2, CleanupOrder
<1> QED  BY <1>5, <1>6, <1>7

-----------------------------------------------------------------------------
\* The configuration keeps its types, option after option.
LEMMA ConfigInitType == ConfigInit => ConfigTypeOK
  BY ConfigAssumption DEF ConfigInit, ConfigTypeOK, Defaults, DefaultNumbers, Settings, Tables, Strings

LEMMA DestroyKeepsType == ConfigTypeOK /\ DestroyConfig => ConfigTypeOK'
  BY ConfigAssumption
  DEF DestroyConfig, ConfigTypeOK, Defaults, DefaultNumbers, Settings, Tables, Strings

\* A setting is changed, and the groups are left alone.
LEMMA SetKeepsType ==
    ASSUME ConfigTypeOK,
           \/ SetName
           \/ \E s \in Settings, n \in Numbers : SetNumber(s, n)
           \/ \E type \in StorageTypes : SetStorageType(type)
           \/ \E s \in Strings : SetString(s)
           \/ \E port \in {0, 1} : SetPort(port)
    PROVE  ConfigTypeOK'
<1> DEFINE Record == [name : BOOLEAN, numbers : [Settings -> 0 .. UINT_MAX],
                      type : StorageTypes, strings : SUBSET Strings, P_flag : {0, 1}]
<1>1. config' \in Record
  <2>1. CASE SetName
    BY <2>1 DEF SetName, ConfigTypeOK
  <2>2. ASSUME NEW s \in Settings, NEW n \in Numbers, SetNumber(s, n) PROVE config' \in Record
    <3>1. Parsed(n) % (UINT_MAX + 1) \in 0 .. UINT_MAX
      <4>1. Parsed(n) \in Int
        BY ConfigAssumption DEF Parsed
      <4>2. \A k \in Int : k % (UINT_MAX + 1) \in 0 .. UINT_MAX
        BY ConfigAssumption
      <4> QED  BY <4>1, <4>2
    <3> HIDE DEF Record
    <3> DEFINE value == Parsed(n) % (UINT_MAX + 1)
    <3>2. config' = [config EXCEPT !.numbers[s] = value]
      BY <2>2 DEF SetNumber
    <3> HIDE DEF value
    <3>3. value \in 0 .. UINT_MAX
      BY <3>1 DEF value
    <3> QED  BY <3>2, <3>3 DEF ConfigTypeOK, Record
  <2>3. ASSUME NEW type \in StorageTypes, SetStorageType(type) PROVE config' \in Record
    BY <2>3 DEF SetStorageType, ConfigTypeOK
  <2>4. ASSUME NEW s \in Strings, SetString(s) PROVE config' \in Record
    BY <2>4 DEF SetString, ConfigTypeOK
  <2>5. ASSUME NEW port \in {0, 1}, SetPort(port) PROVE config' \in Record
    BY <2>5 DEF SetPort, ConfigTypeOK
  <2> QED  BY <2>1, <2>2, <2>3, <2>4, <2>5
<1>2. front' = front /\ events' = events /\ (current' = current \/ current' = <<>>)
  BY DEF SetName, SetNumber, SetStorageType, SetString, SetPort, OtherOption, Option
<1> QED  BY <1>1, <1>2 DEF ConfigTypeOK

\* A group is named, or changed.
LEMMA GroupKeepsType ==
    ASSUME ConfigTypeOK,
           \/ \E t \in Tables, name \in Names : StartGroup(t, name)
           \/ \E type \in {"MONITOR_ONE_CPU_PER_SOCKET", "MONITOR_ALL_CPU_PER_SOCKET"} :
                  SetMonitoringType(type)
           \/ \E event \in Events : AppendEvent(event)
    PROVE  ConfigTypeOK'
<1>1. ASSUME NEW t \in Tables, NEW name \in Names, StartGroup(t, name) PROVE ConfigTypeOK'
  <2>1. /\ events' = [events EXCEPT ![t] = Inserted(@, name, NewGroup)]
        /\ current' = <<t, name>> /\ config' = config /\ front' = front
    BY <1>1 DEF StartGroup, GroupOption, Option
  <2>2. DOMAIN events' = Tables /\ DOMAIN events'[t] = DOMAIN events[t] \union {name}
        /\ \A u \in Tables \ {t} : events'[u] = events[u]
    BY <2>1 DEF ConfigTypeOK, Inserted
  <2> QED  BY <2>1, <2>2 DEF ConfigTypeOK
<1>2. ASSUME NEW group, ToCurrent(group), current # <<>>,
             current' = current, config' = config, front' = front
      PROVE  ConfigTypeOK'
  <2>1. events' = [events EXCEPT ![current[1]][current[2]] = group]
    BY <1>2 DEF ToCurrent
  <2>2. DOMAIN events' = Tables /\ \A t \in Tables : DOMAIN events'[t] = DOMAIN events[t]
    BY <2>1 DEF ConfigTypeOK
  <2> QED  BY <1>2, <2>2 DEF ConfigTypeOK
<1>3. ASSUME NEW type, SetMonitoringType(type) PROVE ConfigTypeOK'
  BY <1>2, <1>3 DEF SetMonitoringType, GroupOption, Option
<1>4. ASSUME NEW event, AppendEvent(event) PROVE ConfigTypeOK'
  BY <1>2, <1>4 DEF AppendEvent, GroupOption, Option
<1> QED  BY <1>1, <1>3, <1>4

LEMMA ReadOptionKeepsType == ConfigTypeOK /\ ReadOption => ConfigTypeOK'
  BY SetKeepsType, GroupKeepsType DEF ReadOption

-----------------------------------------------------------------------------
\* What is taken where main stands: no storage module before its creation, no
\* thread before the ping, no handle of MongoDB once the module is
\* deinitialised, and the document from its reading to the cleanup.
Starting == {"zsys", "pmu", "hwinfo", "detect", "create", "setup", "storage"}
Stored   == {"initialize", "ping", "start", "monitor"}
Ladder ==
    /\ alive \subseteq Resources
    /\ pc = "zsys" => alive = {}
    /\ pc \notin {"zsys", "done"} => "zsys" \in alive
    /\ pc \in Starting => alive \intersect ({"storage"} \union Threads \union MongoHandles) = {}
    /\ pc = "initialize" => alive \intersect (Threads \union MongoHandles) = {}
    /\ pc = "ping" => alive \intersect Threads = {}
    /\ pc \in Stored => "storage" \in alive
    /\ pc \in Stored \ {"initialize"} /\ config.type = "mongodb" => MongoHandles \subseteq alive
    /\ pc \in Stored \union {"setup", "storage"} => Document \subseteq alive
    /\ pc = "cleanup" =>
         /\ alive \intersect MongoHandles = {}
         /\ "reporting actor" \in alive => "storage" \in alive
    /\ pc = "done" => alive \subseteq {"mongoc"}

\* A configuration is accepted before the storage module is created.
Accepted ==
    pc \in Stored \union {"storage", "cleanup"} =>
        config.name /\ SettingsUsed(config.type) \subseteq config.strings

IInv == TypeOK /\ Packed /\ Ladder /\ Accepted

\* The configuration and the packages are left alone.
Apart == UNCHANGED <<front, config, hwVars>> /\ ConfigTypeOK'


LEMMA ParsingApart == ConfigTypeOK /\ UNCHANGED parsing => Apart
  BY DEF parsing, configVars, hwVars, ConfigTypeOK, Apart

LEMMA PackedApart == Packed /\ UNCHANGED hwVars => Packed'
  BY DEF hwVars, Packed, Seen

LEMMA PackedType == Packed => HwInfoTypeOK
  BY DEF Packed, HwInfoTypeOK, Seen

LEMMA ValidUses == ConfigTypeOK /\ Valid => config.name /\ SettingsUsed(config.type) \subseteq config.strings
  BY ConfigAssumption DEF ConfigTypeOK, Valid, SettingsUsed

LEMMA IInvInit == Init => IInv
<1> SUFFICES ASSUME Init PROVE IInv
  OBVIOUS
<1>1. ConfigTypeOK /\ Packed
  BY ConfigInitType, PackedInit DEF Init
<1>2. TypeOK
  BY <1>1, PackedType, SignalsAssumption DEF Init, TypeOK
<1>3. Ladder /\ Accepted
  BY DEF Init, Ladder, Accepted, Starting, Stored
<1> QED  BY <1>1, <1>2, <1>3 DEF IInv

\* What is given up leaves at most the library of MongoDB.
LEMMA GiveUpKeepsIInv ==
    ASSUME IInv, NEW from, NEW kept, GiveUp(from, kept), kept \subseteq Resources,
           kept \intersect MongoHandles \subseteq {"mongoc"}
    PROVE  IInv'
<1>1. pc' = "done" /\ alive' \subseteq {"mongoc"}
  BY CleanupIsAll DEF GiveUp
<1>2. ConfigTypeOK' /\ Packed'
  BY DestroyKeepsType, PackedApart DEF GiveUp, IInv, TypeOK
<1>3. {"mongoc"} \subseteq Resources
  BY DEF Resources, MongoHandles
<1>4. TypeOK'
  <2>1. UNCHANGED signalVars /\ TypeOK
    BY DEF GiveUp, IInv
  <2> QED  BY <1>1, <1>2, <1>3, <2>1, PackedType DEF signalVars, TypeOK, Packed, HwInfoTypeOK, Seen
<1>5. Ladder' /\ Accepted'
  BY <1>1, <1>3 DEF Ladder, Accepted, Starting, Stored
<1> QED  BY <1>2, <1>4, <1>5 DEF IInv

\* A step that takes something and goes on.
LEMMA StepKeepsIInv ==
    ASSUME IInv, NEW from, NEW taken, NEW to, Step(from, taken, to), UNCHANGED parsing,
           Ladder', Accepted',
           to \in {"pmu", "hwinfo", "detect", "create", "setup", "storage", "initialize",
                   "ping", "start", "monitor", "cleanup", "done"}
    PROVE  IInv'
<1>1. Apart /\ Packed'
  BY ParsingApart, PackedApart DEF IInv, TypeOK, parsing
<1>2. TypeOK'
  BY <1>1, PackedType DEF IInv, TypeOK, Apart, Step, signalVars, Ladder, Packed, HwInfoTypeOK, Seen
<1> QED  BY <1>1, <1>2 DEF IInv

\* The start up to the options, and the storage module.
LEMMA EarlyKeepsIInv ==
    ASSUME IInv,
           \/ InitializeZsys \/ InitializePmu \/ CreateHwInfo \/ CreateConfig
           \/ CreateStorage \/ InitializeStorage \/ PingStorage \/ StartSystemActor
    PROVE  IInv'
<1> USE DEF Step
<1>a. UNCHANGED parsing => front' = front /\ config' = config
  BY DEF parsing, configVars
<1>b. alive \subseteq Resources
  BY DEF IInv, Ladder
<1>1. ASSUME InitializeZsys PROVE IInv'
  <2>1. /\ UNCHANGED parsing
        /\ Step("zsys", {"zsys"}, "pmu") \/ Step("zsys", {}, "done")
    BY <1>1 DEF InitializeZsys
  <2>2. Ladder' /\ Accepted'
    BY <1>a, <2>1 DEF IInv, Ladder, Accepted, Starting, Stored, Threads, PerfActors, MongoHandles, Resources
  <2> QED  BY <2>1, <2>2, StepKeepsIInv
<1>2. ASSUME InitializePmu PROVE IInv'
  <2>1. CASE Step("pmu", {"pmu", "topology"}, "hwinfo") /\ UNCHANGED parsing
    <3>1. Ladder' /\ Accepted'
      BY <1>a, <2>1 DEF IInv, Ladder, Accepted, Starting, Stored, Threads, PerfActors, MongoHandles, Resources
    <3> QED  BY <2>1, <3>1, StepKeepsIInv
  <2>2. ASSUME NEW some \in SUBSET {"pmu", "topology"}, GiveUp("pmu", alive \union some) PROVE IInv'
    <3>1. pc = "pmu"
      BY <2>2 DEF GiveUp
    <3>2. alive \union some \subseteq Resources /\ (alive \union some) \intersect MongoHandles \subseteq {"mongoc"}
      BY <1>b, <3>1 DEF IInv, Ladder, Starting, Resources, MongoHandles
    <3> QED  BY <2>2, <3>2, GiveUpKeepsIInv
  <2> QED  BY <1>2, <2>1, <2>2 DEF InitializePmu
<1>3. ASSUME CreateHwInfo PROVE IInv'
  <2>1. CASE Step("hwinfo", {"hwinfo"}, "detect") /\ UNCHANGED parsing
    <3>1. Ladder' /\ Accepted'
      BY <1>a, <2>1 DEF IInv, Ladder, Accepted, Starting, Stored, Threads, PerfActors, MongoHandles, Resources
    <3> QED  BY <2>1, <3>1, StepKeepsIInv
  <2>2. CASE GiveUp("hwinfo", alive)
    <3>1. alive \intersect MongoHandles \subseteq {"mongoc"}
      BY <2>2 DEF GiveUp, IInv, Ladder, Starting
    <3> QED  BY <1>b, <2>2, <3>1, GiveUpKeepsIInv
  <2> QED  BY <1>3, <2>1, <2>2 DEF CreateHwInfo
<1>4. ASSUME CreateConfig PROVE IInv'
  <2>1. CASE Step("create", {"config"} \union Document, "setup") /\ UNCHANGED parsing
    <3>1. Document' = Document /\ Document \subseteq {"document"}
      BY <1>a, <2>1 DEF Document
    <3>2. Ladder' /\ Accepted'
      BY <1>a, <2>1, <3>1 DEF IInv, Ladder, Accepted, Starting, Stored, Threads, PerfActors, MongoHandles, Resources
    <3> QED  BY <2>1, <3>2, StepKeepsIInv
  <2>2. ASSUME NEW some \in SUBSET ({"config"} \union Document),
               GiveUp("create", alive \union some)
        PROVE  IInv'
    <3>1. pc = "create" /\ some \subseteq {"config", "document"}
      BY <2>2 DEF GiveUp, Document
    <3>2. alive \union some \subseteq Resources /\ (alive \union some) \intersect MongoHandles \subseteq {"mongoc"}
      BY <1>b, <3>1 DEF IInv, Ladder, Starting, Resources, MongoHandles
    <3> QED  BY <2>2, <3>2, GiveUpKeepsIInv
  <2> QED  BY <1>4, <2>1, <2>2 DEF CreateConfig
<1>5. ASSUME CreateStorage PROVE IInv'
  <2>1. CASE Step("storage", {"storage"}, "initialize") /\ UNCHANGED parsing
    <3>1. Document' = Document
      BY <1>a, <2>1 DEF Document
    <3>2. Ladder' /\ Accepted'
      BY <1>a, <2>1, <3>1 DEF IInv, Ladder, Accepted, Starting, Stored, Threads, PerfActors, MongoHandles, Resources
    <3> QED  BY <2>1, <3>2, StepKeepsIInv
  <2>2. CASE GiveUp("storage", alive)
    <3>1. alive \intersect MongoHandles \subseteq {"mongoc"}
      BY <2>2 DEF GiveUp, IInv, Ladder, Starting
    <3> QED  BY <1>b, <2>2, <3>1, GiveUpKeepsIInv
  <2> QED  BY <1>5, <2>1, <2>2 DEF CreateStorage
<1>6. ASSUME InitializeStorage PROVE IInv'
  <2>1. CASE Step("initialize", MongodbTaken(TRUE), "ping") /\ UNCHANGED parsing
    <3>1. Document' = Document
      BY <1>a, <2>1 DEF Document
    <3>2. MongodbTaken(TRUE) \subseteq MongoHandles /\ (config.type = "mongodb" => MongodbTaken(TRUE) = MongoHandles)
      BY DEF MongodbTaken
    <3>3. Ladder' /\ Accepted'
      BY <1>a, <2>1, <3>1, <3>2 DEF IInv, Ladder, Accepted, Starting, Stored, Threads, PerfActors, MongoHandles, Resources
    <3> QED  BY <2>1, <3>3, StepKeepsIInv
  <2>2. CASE GiveUp("initialize", alive \union MongodbTaken(FALSE))
    <3>1. pc = "initialize" /\ MongodbTaken(FALSE) \subseteq {"mongoc"}
      BY <2>2 DEF GiveUp, MongodbTaken
    <3>2. /\ alive \union MongodbTaken(FALSE) \subseteq Resources
          /\ (alive \union MongodbTaken(FALSE)) \intersect MongoHandles \subseteq {"mongoc"}
      BY <1>b, <3>1 DEF IInv, Ladder, Resources, MongoHandles
    <3> QED  BY <2>2, <3>2, GiveUpKeepsIInv
  <2> QED  BY <1>6, <2>1, <2>2 DEF InitializeStorage
<1>7. ASSUME PingStorage PROVE IInv'
  <2>1. CASE Step("ping", {"reporting actor", "ticker"}, "start") /\ UNCHANGED parsing
    <3>1. Document' = Document
      BY <1>a, <2>1 DEF Document
    <3>2. Ladder' /\ Accepted'
      BY <1>a, <2>1, <3>1 DEF IInv, Ladder, Accepted, Starting, Stored, Threads, PerfActors, MongoHandles, Resources
    <3> QED  BY <2>1, <3>2, StepKeepsIInv
  <2>2. CASE GiveUp("ping", Deinitialized)
    <3>1. Deinitialized \subseteq Resources /\ Deinitialized \intersect MongoHandles \subseteq {"mongoc"}
      BY <1>b DEF Deinitialized
    <3> QED  BY <2>2, <3>1, GiveUpKeepsIInv
  <2> QED  BY <1>7, <2>1, <2>2 DEF PingStorage
<1>8. ASSUME StartSystemActor PROVE IInv'
  <2> DEFINE taken == IF DOMAIN events["system"] # {} THEN {"system actor"} ELSE {}
  <2>1. Step("start", taken, "monitor") /\ UNCHANGED parsing /\ taken \subseteq {"system actor"}
    BY <1>8 DEF StartSystemActor
  <2> HIDE DEF taken
  <2>2. Document' = Document
    BY <1>a, <2>1 DEF Document
  <2>3. Ladder' /\ Accepted'
    BY <1>a, <2>1, <2>2 DEF IInv, Ladder, Accepted, Starting, Stored, Threads, PerfActors, MongoHandles, Resources
  <2> QED  BY <2>1, <2>3, StepKeepsIInv
<1> QED  BY <1>1, <1>2, <1>3, <1>4, <1>5, <1>6, <1>7, <1>8

\* The entries of the directory, and the options.
LEMMA ReadingKeepsIInv ==
    ASSUME IInv, DetectPackages \/ SetUp
    PROVE  IInv'
<1>a. UNCHANGED parsing => front' = front /\ config' = config
  BY DEF parsing, configVars
<1>b. alive \subseteq Resources /\ (pc \in Starting => alive \intersect MongoHandles \subseteq {"mongoc"})
  BY DEF IInv, Ladder
<1>1. CASE pc = "detect" /\ (ReadEntry \/ AddCpu) /\ UNCHANGED <<pc, alive, signalVars, configVars>>
  <2>1. Packed' /\ config' = config
    BY <1>1, ReadEntryKeepsPacked, AddCpuKeepsPacked DEF IInv, configVars
  <2>2. ConfigTypeOK'
    BY <1>1 DEF IInv, TypeOK, ConfigTypeOK, configVars
  <2>3. TypeOK'
    BY <1>1, <2>1, <2>2, PackedType DEF IInv, TypeOK, signalVars, Packed, HwInfoTypeOK, Seen
  <2>4. Ladder' /\ Accepted'
    BY <1>1 DEF IInv, Ladder, Accepted, Starting, Stored
  <2> QED  BY <2>1, <2>3, <2>4 DEF IInv
<1>2. CASE Detected /\ Step("detect", {}, "create") /\ UNCHANGED parsing
  <2>1. Ladder' /\ Accepted'
    BY <1>a, <1>2 DEF Step, IInv, Ladder, Accepted, Starting, Stored
  <2> QED  BY <1>2, <2>1, StepKeepsIInv
<1>3. CASE GiveUp("detect", alive)
  BY <1>b, <1>3, GiveUpKeepsIInv DEF GiveUp, Starting
<1>4. CASE pc = "setup" /\ ReadOption /\ UNCHANGED <<pc, alive, signalVars, hwVars>>
  <2>1. ConfigTypeOK' /\ Packed'
    BY <1>4, ReadOptionKeepsType, PackedApart DEF IInv, TypeOK
  <2>2. front' = front
    BY <1>4 DEF ReadOption, SetName, SetNumber, SetStorageType, SetString, SetPort, OtherOption,
                StartGroup, SetMonitoringType, AppendEvent, GroupOption, Option
  <2>3. Document' = Document
    BY <2>2 DEF Document
  <2>4. TypeOK'
    BY <1>4, <2>1, PackedType DEF IInv, TypeOK, signalVars, Packed, HwInfoTypeOK, Seen
  <2>5. Ladder' /\ Accepted'
    BY <1>4, <2>3 DEF IInv, Ladder, Accepted, Starting, Stored
  <2> QED  BY <2>1, <2>4, <2>5 DEF IInv
<1>5. CASE Valid /\ Step("setup", {}, "storage") /\ UNCHANGED parsing
  <2>1. config.name /\ SettingsUsed(config.type) \subseteq config.strings
    BY <1>5, ValidUses DEF IInv, TypeOK
  <2>2. Accepted'
    BY <1>a, <1>5, <2>1 DEF Accepted, SettingsUsed
  <2>3. Document' = Document
    BY <1>a, <1>5 DEF Document
  <2>4. Ladder'
    BY <1>a, <1>5, <2>3 DEF Step, IInv, Ladder, Starting, Stored
  <2> QED  BY <1>5, <2>2, <2>4, StepKeepsIInv
<1>6. CASE GiveUp("setup", alive)
  BY <1>b, <1>6, GiveUpKeepsIInv DEF GiveUp, Starting
<1> QED  BY <1>1, <1>2, <1>3, <1>4, <1>5, <1>6 DEF DetectPackages, SetUp

\* The threads run, and main may stop waiting for one.
LEMMA MonitorKeepsIInv ==
    ASSUME IInv, SyncContainers \/ Deinitialize \/ Interrupt \/ LeftEnds
    PROVE  IInv'
<1>a. front' = front /\ config' = config /\ UNCHANGED parsing
  BY DEF SyncContainers, Deinitialize, Interrupt, LeftEnds, parsing, configVars
<1>b. Document' = Document
  BY <1>a DEF Document
<1>c. Apart /\ Packed'
  BY <1>a, ParsingApart, PackedApart DEF IInv, TypeOK, parsing
<1>1. CASE SyncContainers \/ Interrupt \/ LeftEnds
  <2>1. \/ pc' = pc /\ pc \in {"monitor", "cleanup"} /\ alive' = alive
        \/ pc' = pc /\ pc = "monitor" /\ alive' = alive \union {"container actors"}
        \/ /\ pc' = pc /\ pc \in {"monitor", "cleanup"}
           /\ \E thread \in Threads : alive' = alive \ {thread}
        \/ pc' = pc /\ alive' = alive
    BY <1>1 DEF SyncContainers, Interrupt, LeftEnds, Awaited, Threads, PerfActors
  <2>2. Ladder' /\ Accepted'
    BY <1>a, <1>b, <2>1 DEF IInv, Ladder, Accepted, Starting, Stored, Resources, Threads, PerfActors,
                             MongoHandles, Document
  <2>3. signals' \in 0 .. MaxSignals /\ left' \subseteq Threads
    <3>1. signals \in 0 .. MaxSignals /\ left \subseteq Threads
      BY DEF IInv, TypeOK
    <3>2. signals' = signals \/ (signals < MaxSignals /\ signals' = signals + 1)
      BY <1>1 DEF SyncContainers, Interrupt, LeftEnds, signalVars
    <3>3. signals' \in 0 .. MaxSignals
      BY <3>1, <3>2, SignalsAssumption
    <3>4. Awaited \subseteq Threads
      BY DEF Awaited, Threads, PerfActors
    <3>5. \/ left' = left \/ \E thread \in left : left' = left \ {thread}
          \/ \E thread \in Awaited : left' = left \union {thread}
      BY <1>1 DEF SyncContainers, Interrupt, LeftEnds, signalVars
    <3> QED  BY <3>1, <3>3, <3>4, <3>5
  <2>4. TypeOK'
    BY <1>c, <2>1, <2>2, <2>3, PackedType DEF IInv, TypeOK, Apart, Ladder, Packed, HwInfoTypeOK, Seen
  <2> QED  BY <1>c, <2>2, <2>4 DEF IInv
<1>2. CASE Deinitialize
  <2>1. pc = "monitor" /\ pc' = "cleanup" /\ alive' = alive \ MongoHandles /\ UNCHANGED signalVars
    BY <1>2 DEF Deinitialize, Deinitialized
  <2>2. "storage" \in alive' /\ "zsys" \in alive'
    BY <2>1 DEF IInv, Ladder, Stored, MongoHandles
  <2>3. Ladder' /\ Accepted'
    BY <1>a, <1>b, <2>1, <2>2 DEF IInv, Ladder, Accepted, Starting, Stored
  <2>4. TypeOK'
    BY <1>c, <2>1, <2>3, PackedType
    DEF IInv, TypeOK, signalVars, Apart, Ladder, Packed, HwInfoTypeOK, Seen
  <2> QED  BY <1>c, <2>3, <2>4 DEF IInv
<1> QED  BY <1>1, <1>2

\* The storage module goes after main has stopped waiting for the reporting actor,
\* and the configuration after every thread.
LEMMA CleanUpKeepsIInv == IInv /\ CleanUp => IInv'
<1> SUFFICES ASSUME IInv, CleanUp PROVE IInv'
  OBVIOUS
<1>a. /\ pc = "cleanup" /\ alive' = alive \ Released /\ UNCHANGED <<signalVars, hwVars>>
      /\ alive \subseteq Resources /\ alive \intersect MongoHandles = {} /\ "zsys" \in alive
  BY DEF CleanUp, IInv, Ladder
<1>b. alive' \subseteq Resources /\ Packed' /\ signals' \in 0 .. MaxSignals /\ left' \subseteq Threads
  BY <1>a, PackedApart DEF IInv, TypeOK, signalVars
<1>1. ASSUME alive' = {}, "config" \in Released PROVE IInv'
  <2>1. pc' = "done" /\ DestroyConfig
    BY <1>1 DEF CleanUp
  <2>2. ConfigTypeOK'
    BY <2>1, DestroyKeepsType DEF IInv, TypeOK
  <2>3. TypeOK'
    BY <1>b, <2>1, <2>2, PackedType DEF TypeOK, Packed, HwInfoTypeOK, Seen
  <2>4. Ladder' /\ Accepted'
    BY <1>1, <2>1 DEF Ladder, Accepted, Starting, Stored
  <2> QED  BY <1>b, <2>3, <2>4 DEF IInv
<1>2. CASE Running = {}
  <2>1. Released = Resources \ MongoHandles
    BY <1>2, CleanupIsAll DEF Released
  <2>2. "config" \in Released /\ alive' = {}
    BY <1>a, <2>1 DEF Resources, MongoHandles
  <2> QED  BY <1>1, <2>2
<1>3. CASE Running # {}
  <2>1. PICK i \in 1 .. 6 : /\ Released = Cleanup[i]
                            /\ \A j \in 1 .. i - 1 : Cleanup[j] \intersect alive = {}
    BY <1>a, <1>3, ReleasedFirst
  <2>2. CASE i = 6
    <3>1. \A r \in alive : r \in Cleanup[6]
      <4>1. ASSUME NEW r \in alive PROVE \E j \in 1 .. 6 : r \in Cleanup[j]
        <5>1. r \in UNION Range(Cleanup)
          BY <1>a, <4>1, CleanupIsAll
        <5>2. PICK j \in DOMAIN Cleanup : r \in Cleanup[j]
          BY <5>1, Zenon DEF Range
        <5>3. j \in 1 .. 6
          BY <5>2, CleanupOrder, Zenon
        <5> QED  BY <5>2, <5>3
      <4>2. ASSUME NEW r \in alive, NEW j \in 1 .. 6, r \in Cleanup[j] PROVE j = 6
        <5>1. j \notin 1 .. 5
          BY <2>1, <2>2, <4>2
        <5> QED  BY <5>1
      <4> QED  BY <4>1, <4>2
    <3>2. alive' = {}
      BY <1>a, <2>1, <2>2, <3>1
    <3>3. "config" \in Released
      BY <2>1, <2>2, CleanupOrder
    <3> QED  BY <1>1, <3>2, <3>3
  <2>3. CASE i # 6
    <3>1. i = 1 \/ i = 2 \/ i = 3 \/ i = 4 \/ i = 5
      BY <2>3
    <3>2. "config" \notin Released /\ "zsys" \notin Released
      BY <2>1, <3>1, CleanupOrder
    <3>3. "storage" \in Released => "reporting actor" \notin alive
      <4>1. "storage" \in Released => i = 5
        BY <2>1, <3>1, CleanupOrder
      <4>2. i = 5 => Cleanup[4] \intersect alive = {}
        BY <2>1
      <4> QED  BY <4>1, <4>2, CleanupOrder
    <3>4. pc' = pc /\ UNCHANGED configVars
      BY <3>2 DEF CleanUp
    <3>5. config' = config /\ UNCHANGED parsing
      BY <1>a, <3>4 DEF configVars, parsing
    <3>6. ConfigTypeOK'
      BY <3>5, ParsingApart DEF Apart, IInv, TypeOK
    <3>7. TypeOK'
      BY <1>a, <1>b, <3>4, <3>6, PackedType DEF TypeOK, Packed, HwInfoTypeOK, Seen
    <3>8. Ladder' /\ Accepted'
      BY <1>a, <1>b, <3>2, <3>3, <3>4, <3>5 DEF IInv, Ladder, Accepted, Starting, Stored
    <3> QED  BY <1>b, <3>7, <3>8 DEF IInv
  <2> QED  BY <2>2, <2>3
<1> QED  BY <1>2, <1>3

LEMMA Inductive == Spec => []IInv
<1>1. IInv /\ [Next]_vars => IInv'
  <2> SUFFICES ASSUME IInv, [Next]_vars PROVE IInv'
    OBVIOUS
  <2>1. CASE UNCHANGED vars
    <3>1. /\ Apart /\ Packed' /\ pc' = pc /\ alive' = alive /\ config' = config
          /\ Document' = Document /\ signals' = signals /\ left' = left
      BY <2>1, ParsingApart, PackedApart
      DEF vars, signalVars, parsing, configVars, hwVars, IInv, TypeOK, Document
    <3>2. TypeOK'
      BY <3>1, PackedType DEF IInv, TypeOK, Apart, Packed, HwInfoTypeOK, Seen
    <3>3. Ladder' /\ Accepted'
      BY <3>1 DEF IInv, Ladder, Accepted
    <3> QED  BY <3>1, <3>2, <3>3 DEF IInv
  <2> QED  BY <2>1, EarlyKeepsIInv, ReadingKeepsIInv, MonitorKeepsIInv, CleanUpKeepsIInv DEF Next
<1> QED  BY <1>1, IInvInit, PTL DEF Spec

\* main stops waiting for a thread on a signal only: for the actor of a container
\* on any, for the others on the second, the first being the one it cleans up for.
Excused ==
    /\ left \subseteq (IF signals > 1 THEN Threads ELSE {"container actors"})
    /\ left # {} => pc \in {"monitor", "cleanup", "done"}
    /\ pc = "cleanup" => signals > 0

LEMMA AlwaysExcused == Spec => []Excused
<1>1. Init => Excused
  BY DEF Init, Excused
<1>2. IInv /\ Excused /\ [Next]_vars => Excused'
  <2> SUFFICES ASSUME IInv, Excused, [Next]_vars PROVE Excused'
    OBVIOUS
  <2>1. signals \in Nat /\ left \subseteq Threads
    BY SignalsAssumption DEF IInv, TypeOK
  <2>2. CASE UNCHANGED signalVars /\ pc' # "cleanup" /\ (pc' \in {"monitor", "done"} \/ left = {})
    BY <2>2 DEF Excused, signalVars
  <2>3. CASE Deinitialize \/ CleanUp
    <3>1. UNCHANGED signalVars /\ signals > 0 /\ pc' \in {"cleanup", "done"}
      BY <2>3 DEF Deinitialize, CleanUp, Excused
    <3> QED  BY <3>1 DEF Excused, signalVars
  <2>4. CASE Interrupt
    <3>1. signals' = signals + 1 /\ pc' = pc /\ pc \in {"monitor", "cleanup"}
      BY <2>4 DEF Interrupt
    <3>2. left' = left \/ \E thread \in Awaited : left' = left \union {thread}
      BY <2>4 DEF Interrupt
    <3>3. Awaited \subseteq Threads /\ (pc = "monitor" => Awaited \subseteq {"container actors"})
      BY <3>1 DEF Awaited, Threads, PerfActors
    <3>4. signals = 0 \/ signals' > 1
      BY <2>1, <3>1
    <3>5. ASSUME signals = 0 PROVE left' \subseteq {"container actors"} /\ pc = "monitor"
      <4>1. ~(signals > 1) /\ ~(signals > 0)
        BY <3>5
      <4>2. left \subseteq {"container actors"} /\ pc = "monitor"
        BY <3>1, <4>1, Zenon DEF Excused
      <4> QED  BY <3>2, <3>3, <4>2
    <3>6. left' \subseteq Threads /\ signals' > 0
      <4>1. left' \subseteq Threads
        BY <2>1, <3>2, <3>3
      <4> QED  BY <2>1, <3>1, <4>1
    <3> QED  BY <3>1, <3>4, <3>5, <3>6 DEF Excused
  <2>5. CASE LeftEnds
    BY <2>1, <2>5 DEF LeftEnds, Excused
  <2>6. CASE UNCHANGED vars
    BY <2>6 DEF vars, signalVars, Excused
  <2>7. CASE /\ Next /\ ~Deinitialize /\ ~CleanUp /\ ~Interrupt /\ ~LeftEnds
    <3>1. /\ UNCHANGED signalVars /\ pc' # "cleanup" /\ (pc' \in {"monitor", "done"} \/ left = {})
      BY <2>7
      DEF Excused, Next, GiveUp, Step, InitializeZsys, InitializePmu, CreateHwInfo, DetectPackages,
          CreateConfig, SetUp, CreateStorage, InitializeStorage, PingStorage, StartSystemActor,
          SyncContainers
    <3> QED  BY <2>2, <3>1
  <2> QED  BY <2>3, <2>4, <2>5, <2>6, <2>7
<1> QED  BY <1>1, <1>2, Inductive, PTL DEF Spec

-----------------------------------------------------------------------------
\* Every variable of main and of the configuration keeps its type; numbers of
\* either sign are kept as unsigned ints.
THEOREM TypeCorrect == Spec => []TypeOK
<1>1. IInv => TypeOK
  BY DEF IInv
<1> QED  BY <1>1, Inductive, PTL

\* In whatever order the entries of the directory come, every online cpu is in
\* its package, and no other package is known (do_packages_detection).
THEOREM EveryCpuFound == Spec => []PackagesComplete
<1>1. IInv => PackagesComplete
  BY HwInfoAssumption DEF IInv, Packed, PackagesComplete, Detected, Seen
<1> QED  BY <1>1, Inductive, PTL

\* No order of options makes config_validate accept a configuration whose storage
\* module would be created without a setting it uses.
THEOREM SettingsPresent == Spec => []StorageHasSettings
<1>1. IInv => StorageHasSettings
  <2> SUFFICES ASSUME IInv, "storage" \in alive PROVE StorageHasSettings
    BY DEF StorageHasSettings
  <2>1. pc \in Stored \union {"cleanup"}
    BY DEF IInv, TypeOK, Ladder, Starting, Stored
  <2> QED  BY <2>1 DEF IInv, TypeOK, ConfigTypeOK, Accepted, StorageHasSettings
<1> QED  BY <1>1, Inductive, PTL

\* A running thread, whether main waits for it or not, has what it uses, but for
\* the document and the handles of MongoDB once main cleans up, and for the storage
\* module once a second signal has come, which may cut the wait for the reporting
\* actor.
THEOREM ServedThreads == Spec => []ThreadsServed
<1>1. IInv /\ Excused => ThreadsServed
  <2> SUFFICES ASSUME IInv, Excused, NEW t \in Running
               PROVE  Uses(t) \subseteq alive \union GoneBefore
    BY DEF ThreadsServed
  <2>1. pc \in {"start", "monitor", "cleanup"}
    BY DEF Running, Excused, IInv, TypeOK, Ladder, Starting, Threads, PerfActors
  <2>2. CASE pc = "cleanup"
    <3>1. t = "reporting actor" => "storage" \in alive \/ signals > 1
      BY <2>2 DEF Running, Excused, IInv, Ladder
    <3> QED  BY <2>2, <3>1 DEF GoneBefore, Uses, Document
  <2>3. CASE pc \in {"start", "monitor"}
    BY <2>3 DEF IInv, Ladder, Uses, Stored
  <2> QED  BY <2>1, <2>2, <2>3
<1> QED  BY <1>1, Inductive, AlwaysExcused, PTL

\* Whatever fails, main has given back everything it took when it returns, but
\* for the library of MongoDB after a failed initialisation, and for threads a
\* signal has kept it from waiting for: with a single one those of containers only.
THEOREM EverythingGivenBack == Spec => []NothingKept
<1>1. IInv /\ Excused => NothingKept
  BY DEF IInv, Excused, Ladder, NothingKept
<1> QED  BY <1>1, Inductive, AlwaysExcused, PTL

-----------------------------------------------------------------------------
\* What the options mean.
Types      == {"MONITOR_ONE_CPU_PER_SOCKET", "MONITOR_ALL_CPU_PER_SOCKET"}
Group      == [type : Types, events : Seq(Events)]
OptionsOf  == ({"group"} \X (Tables \X Names)) \union ({"type"} \X Types) \union ({"event"} \X Events)

\* The group that has been named last before option i of g.
Owner(g, i) == g[Max({j \in 1 .. i : g[j][1] = "group"})][2]

\* Any option has a group named before it, and the group that main keeps as the
\* current one is the one named last.
Owned ==
    /\ given \in Seq(OptionsOf)
    /\ \A i \in DOMAIN given : \E j \in 1 .. i : given[j][1] = "group"
    /\ current # <<>> => given # <<>> /\ current = OwnerOf(Len(given))

Asked == asked \in [Settings -> Int]

Meaning ==
    /\ Asked /\ NumbersAsGiven
    /\ Owned
    /\ \A t \in Tables : \A n \in DOMAIN events[t] : events[t][n] \in Group
    /\ GroupsAsGiven

\* The greatest of some numbers is one of them.
LEMMA MaxIs ==
    ASSUME NEW n \in Nat, NEW S \in SUBSET (1 .. n), S # {}
    PROVE  Max(S) \in S /\ \A k \in S : Max(S) >= k
<1>1. \E m \in S : \A k \in S : m >= k
  BY GreatestElement
<1> QED  BY <1>1 DEF Max

LEMMA MaxAdded ==
    ASSUME NEW n \in Nat, NEW S \in SUBSET (1 .. n)
    PROVE  Max(S \union {n + 1}) = n + 1
<1> DEFINE T == S \union {n + 1}
<1>1. T \in SUBSET (1 .. n + 1) /\ T # {} /\ n + 1 \in T /\ n + 1 \in Nat
  OBVIOUS
<1> HIDE DEF T
<1>2. Max(T) \in T /\ Max(T) >= n + 1
  BY <1>1, MaxIs
<1>3. Max(T) \in 1 .. n + 1
  BY <1>1, <1>2
<1>4. Max(T) = n + 1
  BY <1>2, <1>3
<1> QED  BY <1>4 DEF T

\* An option that is added leaves the others with their groups; it names a group
\* itself, or has that of the one before it.
LEMMA OwnerAppended ==
    ASSUME NEW g \in Seq(OptionsOf), NEW o \in OptionsOf,
           \A i \in DOMAIN g : \E j \in 1 .. i : g[j][1] = "group"
    PROVE  /\ \A i \in DOMAIN g : Owner(Append(g, o), i) = Owner(g, i)
           /\ o[1] = "group" => Owner(Append(g, o), Len(g) + 1) = o[2]
           /\ o[1] # "group" /\ g # <<>> => Owner(Append(g, o), Len(g) + 1) = Owner(g, Len(g))
<1> DEFINE h == Append(g, o)
           n == Len(g)
           Named(s, i) == {j \in 1 .. i : s[j][1] = "group"}
<1>1. /\ n \in Nat /\ DOMAIN g = 1 .. n
      /\ h[n + 1] = o /\ \A i \in 1 .. n : h[i] = g[i]
  BY AppendProperties, LenProperties
<1> HIDE DEF h, n
<1>2. \A i \in 1 .. n : Named(h, i) = Named(g, i) /\ Named(g, i) # {} /\ Named(g, i) \in SUBSET (1 .. i)
  BY <1>1
<1>3. \A i \in 1 .. n : Max(Named(g, i)) \in 1 .. n
  <2> SUFFICES ASSUME NEW i \in 1 .. n
               PROVE  Max(Named(g, i)) \in 1 .. n
    OBVIOUS
  <2>1. i \in Nat /\ Named(g, i) # {} /\ Named(g, i) \in SUBSET (1 .. i)
    BY <1>1, <1>2
  <2>2. Max(Named(g, i)) \in Named(g, i)
    <3> HIDE DEF Named
    <3> QED  BY <2>1, MaxIs
  <2> QED  BY <1>1, <2>1, <2>2
<1>4. \A i \in 1 .. n : Owner(h, i) = Owner(g, i)
  <2> SUFFICES ASSUME NEW i \in 1 .. n
               PROVE  Owner(h, i) = Owner(g, i)
    OBVIOUS
  <2>1. Owner(h, i) = h[Max(Named(h, i))][2] /\ Owner(g, i) = g[Max(Named(g, i))][2]
    BY DEF Owner
  <2> HIDE DEF Named
  <2> QED  BY <1>1, <1>2, <1>3, <2>1
<1>5. Owner(h, n + 1) = h[Max(Named(h, n + 1))][2]
  BY DEF Owner
<1>6. ASSUME o[1] = "group"
      PROVE  Owner(h, n + 1) = o[2]
  <2>1. Named(h, n + 1) = {j \in 1 .. n : h[j][1] = "group"} \union {n + 1}
    BY <1>1, <1>6
  <2>2. Max(Named(h, n + 1)) = n + 1
    <3> DEFINE S == {j \in 1 .. n : h[j][1] = "group"}
    <3>1. S \in SUBSET (1 .. n)
      OBVIOUS
    <3> HIDE DEF S
    <3>2. Max(S \union {n + 1}) = n + 1
      BY <1>1, <3>1, MaxAdded
    <3> QED  BY <2>1, <3>2 DEF S
  <2> HIDE DEF Named
  <2> QED  BY <1>1, <1>5, <2>2
<1>7. ASSUME o[1] # "group", g # <<>>
      PROVE  Owner(h, n + 1) = Owner(g, n)
  <2>1. n \in 1 .. n
    BY <1>1, <1>7, EmptySeq DEF n
  <2>2. Named(h, n + 1) = Named(g, n)
    BY <1>1, <1>7
  <2>3. Owner(g, n) = g[Max(Named(g, n))][2]
    BY DEF Owner
  <2> HIDE DEF Named
  <2> QED  BY <1>1, <1>3, <1>5, <2>1, <2>2, <2>3
<1> QED  BY <1>1, <1>4, <1>6, <1>7 DEF h, n

\* What an option adds to the options about a group.
LEMMA AboutAppended ==
    ASSUME Owned, NEW o \in OptionsOf, given' = Append(given, o),
           NEW owner, owner = (IF o[1] = "group" THEN o[2] ELSE current),
           o[1] # "group" => current # <<>>
    PROVE  /\ Owned' \/ current' # owner
           /\ Len(given) \in Nat /\ DOMAIN given = 1 .. Len(given)
           /\ given'[Len(given) + 1] = o /\ \A i \in DOMAIN given : given'[i] = given[i]
           /\ \A what, group :
                  About(what, group)' = About(what, group) \union
                      (IF o[1] = what /\ owner = group THEN {Len(given) + 1} ELSE {})
<1> PICK n \in Nat : n = Len(given)
  BY LenProperties DEF Owned
<1> PICK h : h = given'
  OBVIOUS
<1>1. /\ given \in Seq(OptionsOf) /\ DOMAIN given = 1 .. n
      /\ h \in Seq(OptionsOf) /\ Len(h) = n + 1 /\ DOMAIN h = 1 .. n + 1
      /\ h[n + 1] = o /\ \A i \in 1 .. n : h[i] = given[i]
  BY AppendProperties, LenProperties DEF Owned
<1>2. /\ \A i : OwnerOf(i) = Owner(given, i)
      /\ \A i : OwnerOf(i)' = Owner(h, i)
  BY DEF OwnerOf, Owner
<1>3. \A i \in 1 .. n : Owner(h, i) = Owner(given, i)
  BY <1>1, OwnerAppended DEF Owned
<1>4. Owner(h, n + 1) = owner
  <2>1. o[1] = "group" => Owner(h, n + 1) = o[2]
    BY <1>1, OwnerAppended DEF Owned
  <2>2. o[1] # "group" => given # <<>> /\ current = Owner(given, n)
    BY <1>2 DEF Owned
  <2>3. o[1] # "group" /\ given # <<>> => Owner(h, n + 1) = Owner(given, n)
    BY <1>1, OwnerAppended DEF Owned
  <2> QED  BY <2>1, <2>2, <2>3
<1>5. ASSUME NEW what, NEW group
      PROVE  About(what, group)' = About(what, group) \union
                 (IF o[1] = what /\ owner = group THEN {n + 1} ELSE {})
  <2>1. About(what, group) = {i \in 1 .. n : given[i][1] = what /\ Owner(given, i) = group}
    BY <1>1, <1>2 DEF About
  <2>2. About(what, group)' = {i \in 1 .. n + 1 : h[i][1] = what /\ Owner(h, i) = group}
    BY <1>1, <1>2 DEF About
  <2>3. 1 .. n + 1 = (1 .. n) \union {n + 1}
    OBVIOUS
  <2> QED  BY <1>1, <1>3, <1>4, <2>1, <2>2, <2>3
<1>6. ASSUME current' = owner
      PROVE  Owned'
  <2>1. ASSUME NEW i \in 1 .. n + 1
        PROVE  \E j \in 1 .. i : h[j][1] = "group"
    <3>1. CASE i \in 1 .. n
      <4>1. PICK j \in 1 .. i : given[j][1] = "group"
        BY <1>1, <3>1 DEF Owned
      <4> QED  BY <1>1, <3>1, <4>1
    <3>2. CASE i = n + 1 /\ o[1] = "group"
      BY <1>1, <3>2
    <3>3. CASE i = n + 1 /\ o[1] # "group"
      <4>1. n \in 1 .. n
        BY <1>1, <3>3, EmptySeq DEF Owned
      <4>2. PICK j \in 1 .. n : given[j][1] = "group"
        BY <1>1, <4>1 DEF Owned
      <4> QED  BY <1>1, <3>3, <4>2
    <3> QED  BY <3>1, <3>2, <3>3
  <2>2. h # <<>>
    BY <1>1, EmptySeq
  <2>3. OwnerOf(n + 1)' = owner /\ Len(given)' = n + 1
    BY <1>1, <1>2, <1>4
  <2>4. current' = OwnerOf(Len(given))'
    BY <1>6, <2>3 DEF OwnerOf
  <2> QED  BY <1>1, <2>1, <2>2, <2>4 DEF Owned
<1> QED  BY <1>1, <1>5, <1>6

\* Options about a group follow one that names it.
LEMMA OwnerIsNamed ==
    ASSUME Owned, NEW what, NEW group, About(what, group) # {}
    PROVE  About("group", group) # {}
<1>1. PICK i \in DOMAIN given : group = OwnerOf(i)
  BY DEF About
<1> DEFINE Named(k) == {j \in 1 .. k : given[j][1] = "group"}
           m == Max(Named(i))
<1>2. i \in 1 .. Len(given) /\ Len(given) \in Nat /\ i \in Nat /\ DOMAIN given = 1 .. Len(given)
  BY <1>1, LenProperties DEF Owned
<1>3. Named(i) \in SUBSET (1 .. i) /\ Named(i) # {}
  BY <1>1 DEF Owned
<1>4. m \in Named(i) /\ \A k \in Named(i) : m >= k
  <2> HIDE DEF Named
  <2> QED  BY <1>2, <1>3, MaxIs
<1>5. m \in DOMAIN given /\ m \in 1 .. m /\ given[m][1] = "group" /\ OwnerOf(i) = given[m][2]
  BY <1>2, <1>4 DEF OwnerOf
<1> HIDE DEF m
<1>6. Max(Named(m)) = m
  <2>1. m \in Nat /\ Named(m) \in SUBSET (1 .. m) /\ m \in Named(m)
    BY <1>2, <1>5
  <2>2. Max(Named(m)) \in Named(m) /\ Max(Named(m)) >= m
    <3> HIDE DEF Named
    <3> QED  BY <2>1, MaxIs
  <2> QED  BY <2>1, <2>2
<1>7. OwnerOf(m) = given[m][2]
  BY <1>6 DEF OwnerOf
<1> QED  BY <1>1, <1>5, <1>7 DEF About

\* Nothing about the groups is meant by an option of another kind.
LEMMA OtherKeepsMeaning ==
    ASSUME ConfigTypeOK, Meaning,
           \/ SetName
           \/ \E s \in Settings, n \in Numbers : SetNumber(s, n)
           \/ \E type \in StorageTypes : SetStorageType(type)
           \/ \E s \in Strings : SetString(s)
           \/ \E port \in {0, 1} : SetPort(port)
    PROVE  Meaning'
<1>1. /\ front' = front /\ events' = events /\ given' = given
      /\ (current' = current \/ current' = <<>>)
  BY DEF SetName, SetNumber, SetStorageType, SetString, SetPort, OtherOption, Option
<1>2. Owned' /\ GroupsAsGiven'
  <2>1. Owned'
    <3>1. \A i : OwnerOf(i)' = OwnerOf(i)
      BY <1>1 DEF OwnerOf
    <3>2. OwnerOf(Len(given))' = OwnerOf(Len(given))
      BY <1>1 DEF OwnerOf
    <3> QED  BY <1>1, <3>2 DEF Meaning, Owned
  <2>2. \A what, group : About(what, group)' = About(what, group)
    BY <1>1 DEF About, OwnerOf
  <2>3. \A group : TypeMeant(group)' = TypeMeant(group)
    BY <1>1, <2>2 DEF TypeMeant
  <2>4. \A group, list : EventsMeant(group, list)' <=> EventsMeant(group, list)
    BY <1>1, <2>2 DEF EventsMeant
  <2>5. GroupsAsGiven'
    BY <1>1, <2>2, <2>3, <2>4 DEF Meaning, GroupsAsGiven
  <2> QED  BY <2>1, <2>5
<1>3. CASE UNCHANGED asked /\ config'.numbers = config.numbers
  BY <1>1, <1>2, <1>3 DEF Meaning, Asked, NumbersAsGiven
<1>4. ASSUME NEW s \in Settings, NEW n \in Numbers, SetNumber(s, n)
      PROVE  Asked' /\ NumbersAsGiven'
  <2> DEFINE value == Parsed(n) % (UINT_MAX + 1)
  <2>1. n \in Int /\ UINT_MAX \in Nat /\ ULONG_MAX \in Nat
    BY ConfigAssumption
  <2>2. ASSUME NEW width \in Nat, NEW k \in 0 .. width
        PROVE  k % (width + 1) = k
    <3>1. k = (width + 1) * 0 + k /\ k \in 0 .. (width + 1) - 1
      OBVIOUS
    <3> QED  BY <3>1, DivisionUnique
  <2>3. ASSUME NEW width \in Nat, NEW k \in Int, k < 0, k >= -(width + 1)
        PROVE  k % (width + 1) = k + (width + 1)
    <3>1. k = (width + 1) * (-1) + (k + (width + 1)) /\ k + (width + 1) \in 0 .. (width + 1) - 1
      BY <2>3
    <3> QED  BY <3>1, DivisionUnique
  <2>4. /\ InRange(n) /\ front \in {"cli", "file"}
        /\ config' = [config EXCEPT !.numbers[s] = value] /\ asked' = [asked EXCEPT ![s] = n]
    <3> HIDE DEF value
    <3>1. config' = [config EXCEPT !.numbers[s] = value]
      BY <1>4 DEF SetNumber, value
    <3> QED  BY <1>4, <3>1 DEF SetNumber, ConfigTypeOK
  <2>5. \/ value = n
        \/ front = "file" /\ n < 0 /\ 2 * value > UINT_MAX
        \/ front = "cli" /\ n < 0 /\ value = n + ULONG_MAX + 1
    <3>1. CASE front = "file"
      <4>1. Parsed(n) = n /\ 2 * n <= UINT_MAX /\ 2 * n >= -(UINT_MAX + 1)
        BY <2>1, <2>4, <3>1 DEF Parsed, InRange
      <4>2. CASE n < 0
        <5>1. n >= -(UINT_MAX + 1) /\ 2 * (n + (UINT_MAX + 1)) > UINT_MAX
          BY <2>1, <4>1, <4>2
        <5>2. n % (UINT_MAX + 1) = n + (UINT_MAX + 1)
          BY <2>1, <2>3, <4>2, <5>1
        <5> QED  BY <3>1, <4>1, <4>2, <5>1, <5>2
      <4>3. CASE n >= 0
        <5>1. n \in 0 .. UINT_MAX
          BY <2>1, <4>1, <4>3
        <5> QED  BY <2>1, <2>2, <4>1, <5>1
      <4> QED  BY <2>1, <4>2, <4>3
    <3>2. CASE front = "cli"
      <4>1. /\ Parsed(n) = n % (ULONG_MAX + 1) /\ n >= -ULONG_MAX /\ n <= ULONG_MAX
            /\ Parsed(n) <= UINT_MAX
        BY <2>1, <2>4, <3>2 DEF Parsed, InRange
      <4>2. n < 0 => Parsed(n) = n + (ULONG_MAX + 1)
        <5>1. n >= -(ULONG_MAX + 1)
          BY <2>1, <4>1
        <5> QED  BY <2>1, <2>3, <4>1, <5>1
      <4>3. n >= 0 => Parsed(n) = n
        <5>1. n >= 0 => n \in 0 .. ULONG_MAX
          BY <2>1, <4>1
        <5> QED  BY <2>1, <2>2, <4>1, <5>1
      <4>4. Parsed(n) \in 0 .. UINT_MAX
        BY <2>1, <4>1, <4>2, <4>3
      <4>5. value = Parsed(n)
        BY <2>1, <2>2, <4>4
      <4> HIDE DEF value
      <4> QED  BY <2>1, <3>2, <4>2, <4>3, <4>5
    <3> QED  BY <2>4, <3>1, <3>2
  <2> HIDE DEF value
  <2>6. /\ config'.numbers[s] = value /\ asked'[s] = n
        /\ \A u \in Settings \ {s} : config'.numbers[u] = config.numbers[u] /\ asked'[u] = asked[u]
    BY <2>4 DEF ConfigTypeOK, Meaning, Asked
  <2>7. Asked'
    BY <2>1, <2>4 DEF Meaning, Asked
  <2>8. NumbersAsGiven'
    BY <1>1, <2>5, <2>6 DEF Meaning, NumbersAsGiven
  <2> QED  BY <2>7, <2>8
<1>5. (\E s \in Settings, n \in Numbers : SetNumber(s, n)) \/ (UNCHANGED asked /\ config'.numbers = config.numbers)
  BY DEF SetName, SetStorageType, SetString, SetPort, ConfigTypeOK
<1>6. (Asked /\ NumbersAsGiven)'
  BY <1>3, <1>4, <1>5 DEF Meaning
<1> QED  BY <1>1, <1>2, <1>6 DEF Meaning

\* What is meant of a group is what was, when nothing is added about it.
LEMMA SameMeaning ==
    ASSUME NEW group, Owned,
           \A i \in DOMAIN given : given'[i] = given[i],
           About("type", group)' = About("type", group),
           About("event", group)' = About("event", group)
    PROVE  /\ TypeMeant(group)' = TypeMeant(group)
           /\ \A list : EventsMeant(group, list)' <=> EventsMeant(group, list)
<1>1. About("type", group) \subseteq DOMAIN given /\ About("event", group) \subseteq DOMAIN given
  BY DEF About
<1>2. TypeMeant(group)' = TypeMeant(group)
  <2>1. About("type", group) # {} => Max(About("type", group)) \in DOMAIN given
    BY <1>1, MaxIs, LenProperties DEF Owned
  <2> QED  BY <2>1 DEF TypeMeant
<1>3. ASSUME NEW list
      PROVE  EventsMeant(group, list)' <=> EventsMeant(group, list)
  BY <1>1 DEF EventsMeant
<1> QED  BY <1>2, <1>3

\* What the options about groups leave alone.
GroupStep(o) ==
    /\ given' = Append(given, o)
    /\ UNCHANGED <<front, config, asked>>

LEMMA NumbersApart ==
    ASSUME Meaning, NEW o, GroupStep(o)
    PROVE  Asked' /\ NumbersAsGiven'
  BY DEF Meaning, GroupStep, Asked, NumbersAsGiven

\* A group that has the name already stays what it was; another one is new, and
\* nothing has been meant for it yet.
LEMMA StartGroupKeepsMeaning ==
    ASSUME ConfigTypeOK, Meaning, NEW t \in Tables, NEW name \in Names, StartGroup(t, name)
    PROVE  Meaning'
<1> DEFINE o == <<"group", <<t, name>>>>
<1> PICK owner : owner = <<t, name>>
  OBVIOUS
<1>1. /\ GroupStep(o) /\ given' = Append(given, o) /\ current' = owner
      /\ events' = [events EXCEPT ![t] = Inserted(@, name, NewGroup)]
  BY DEF StartGroup, GroupOption, Option, GroupStep
<1>2. o \in OptionsOf /\ o[1] = "group" /\ owner = o[2]
  BY DEF OptionsOf
<1>3. Owned
  BY DEF Meaning
<1>4. /\ Owned'
      /\ \A i \in DOMAIN given : given'[i] = given[i]
      /\ \A what, group : About(what, group)' = About(what, group) \union
             (IF o[1] = what /\ owner = group THEN {Len(given) + 1} ELSE {})
  <2> HIDE DEF o
  <2>1. owner = (IF o[1] = "group" THEN o[2] ELSE current)
    BY <1>2
  <2> QED  BY <1>1, <1>2, <1>3, <2>1, AboutAppended
<1>5. /\ \A group : About("type", group)' = About("type", group) /\ About("event", group)' = About("event", group)
      /\ \A group : About("group", group)' = About("group", group) \union
             (IF owner = group THEN {Len(given) + 1} ELSE {})
  BY <1>2, <1>4
<1> HIDE DEF o
<1>6. \A group : /\ TypeMeant(group)' = TypeMeant(group)
                 /\ \A list : EventsMeant(group, list)' <=> EventsMeant(group, list)
  BY <1>3, <1>4, <1>5, SameMeaning
<1>7. /\ DOMAIN events = Tables
      /\ \A u \in Tables \ {t} : events'[u] = events[u]
      /\ DOMAIN events'[t] = DOMAIN events[t] \union {name}
      /\ \A n \in DOMAIN events[t] : events'[t][n] = events[t][n]
      /\ name \notin DOMAIN events[t] => events'[t][name] = NewGroup
  BY <1>1 DEF ConfigTypeOK, Inserted
<1>8. name \notin DOMAIN events[t] => TypeMeant(owner)' = NewGroup.type /\ EventsMeant(owner, NewGroup.events)'
  <2> SUFFICES ASSUME name \notin DOMAIN events[t]
               PROVE  TypeMeant(owner)' = NewGroup.type /\ EventsMeant(owner, NewGroup.events)'
    OBVIOUS
  <2>1. About("group", owner) = {}
    BY DEF Meaning, GroupsAsGiven
  <2>2. About("type", owner) = {} /\ About("event", owner) = {}
    BY <1>3, <2>1, OwnerIsNamed
  <2>3. TypeMeant(owner) = NewGroup.type
    BY <2>2 DEF TypeMeant
  <2>4. EventsMeant(owner, <<>>)
    <3>1. [k \in DOMAIN <<>> |-> 0] \in [DOMAIN <<>> -> About("event", owner)] /\ DOMAIN <<>> = {}
      OBVIOUS
    <3> QED  BY <2>2, <3>1 DEF EventsMeant
  <2> QED  BY <1>6, <2>3, <2>4 DEF NewGroup
<1>9. ASSUME NEW u \in Tables
      PROVE  /\ DOMAIN events'[u] = {n \in Names : About("group", <<u, n>>)' # {}}
             /\ \A n \in DOMAIN events'[u] :
                    /\ events'[u][n] \in Group
                    /\ events'[u][n].type = TypeMeant(<<u, n>>)'
                    /\ EventsMeant(<<u, n>>, events[u][n].events)'
  <2>1. /\ DOMAIN events[u] = {n \in Names : About("group", <<u, n>>) # {}}
        /\ \A n \in DOMAIN events[u] :
                    /\ events[u][n] \in Group
                    /\ events[u][n].type = TypeMeant(<<u, n>>)
                    /\ EventsMeant(<<u, n>>, events[u][n].events)
    BY DEF Meaning, GroupsAsGiven
  <2>2. DOMAIN events'[u] = {n \in Names : About("group", <<u, n>>)' # {}}
    <3>1. CASE u = t
      BY <1>5, <1>7, <2>1, <3>1
    <3>2. CASE u # t
      BY <1>5, <1>7, <2>1, <3>2
    <3> QED  BY <3>1, <3>2
  <2>3. ASSUME NEW n \in DOMAIN events'[u]
        PROVE  /\ events'[u][n] \in Group
               /\ events'[u][n].type = TypeMeant(<<u, n>>)'
               /\ EventsMeant(<<u, n>>, events[u][n].events)'
    <3>1. CASE n \in DOMAIN events[u]
      <4>1. events'[u][n] = events[u][n]
        BY <1>7, <3>1
      <4>2. PICK list : list = events[u][n].events /\ list = events'[u][n].events
        BY <4>1
      <4>3. EventsMeant(<<u, n>>, list)'
        BY <1>6, <2>1, <3>1, <4>2
      <4>4. EventsMeant(<<u, n>>, events[u][n].events)'
        BY <4>2, <4>3
      <4> QED  BY <1>6, <2>1, <3>1, <4>1, <4>4
    <3>2. CASE n \notin DOMAIN events[u]
      <4>1. u = t /\ n = name /\ events'[u][n] = NewGroup /\ <<u, n>> = owner
        BY <1>7, <2>3, <3>2
      <4>2. NewGroup \in Group
        BY DEF NewGroup, Group, Types
      <4>3. PICK list : list = NewGroup.events
        OBVIOUS
      <4>4. EventsMeant(<<u, n>>, list)' /\ list = events'[u][n].events
        BY <1>8, <3>2, <4>1, <4>3 DEF NewGroup
      <4>5. EventsMeant(<<u, n>>, events[u][n].events)'
        BY <4>4
      <4> QED  BY <1>8, <3>2, <4>1, <4>2, <4>5
    <3> QED  BY <3>1, <3>2
  <2> QED  BY <2>2, <2>3
<1>10. GroupsAsGiven'
  BY <1>9 DEF GroupsAsGiven
<1> QED  BY <1>1, <1>4, <1>9, <1>10, NumbersApart DEF Meaning

\* The current group is one of the table, and what its options mean.
LEMMA CurrentIs ==
    ASSUME ConfigTypeOK, Meaning, current # <<>>
    PROVE  \E t \in Tables : \E name \in DOMAIN events[t] : current = <<t, name>>
<1>1. current[1] \in Tables /\ current[2] \in DOMAIN events[current[1]]
  BY DEF ConfigTypeOK
<1>2. given \in Seq(OptionsOf) /\ given # <<>> /\ current = OwnerOf(Len(given))
  BY DEF Meaning, Owned
<1>3. current \in Tables \X Names
  <2> DEFINE S == {j \in 1 .. Len(given) : given[j][1] = "group"}
  <2>1. S \in SUBSET (1 .. Len(given)) /\ Len(given) \in Nat /\ S # {}
    <3>1. Len(given) \in DOMAIN given /\ Len(given) \in Nat
      BY <1>2, EmptySeq, LenProperties
    <3>2. \E j \in 1 .. Len(given) : given[j][1] = "group"
      BY <3>1 DEF Meaning, Owned
    <3> QED  BY <3>1, <3>2
  <2>2. Max(S) \in S
    <3> HIDE DEF S
    <3> QED  BY <2>1, MaxIs
  <2>3. given[Max(S)] \in OptionsOf /\ given[Max(S)][1] = "group" /\ current = given[Max(S)][2]
    BY <1>2, <2>2, ElementOfSeq DEF OwnerOf
  <2> QED  BY <2>3 DEF OptionsOf
<1> QED  BY <1>1, <1>3

LEMMA CurrentGroup ==
    ASSUME ConfigTypeOK, Meaning, current # <<>>
    PROVE  /\ Current \in Group
           /\ Current.type = TypeMeant(current) /\ EventsMeant(current, Current.events)
<1> PICK t \in Tables : \E n \in DOMAIN events[t] : current = <<t, n>>
  BY CurrentIs
<1>1. PICK name \in DOMAIN events[t] : current = <<t, name>>
  OBVIOUS
<1>2. Current = events[t][name]
  BY <1>1 DEF Current
<1> QED  BY <1>1, <1>2 DEF Meaning, GroupsAsGiven

\* A type or an event of the current group, as an option added and a group changed.
ChangeOf(o, group) ==
    /\ o \in OptionsOf /\ o[1] # "group"
    /\ current # <<>> /\ current' = current
    /\ GroupStep(o)
    /\ events' = [events EXCEPT ![current[1]][current[2]] = group]

LEMMA Change ==
    ASSUME ConfigTypeOK, Meaning, NEW o, NEW group, ChangeOf(o, group), group \in Group,
           TypeMeant(current)' = group.type, EventsMeant(current, group.events)'
    PROVE  Meaning'
<1> PICK t \in Tables : \E n \in DOMAIN events[t] : current = <<t, n>>
  BY CurrentIs DEF ChangeOf
<1> PICK name \in DOMAIN events[t] : current = <<t, name>>
  OBVIOUS
<1> PICK owner : owner = current
  OBVIOUS
<1>1. /\ GroupStep(o) /\ given' = Append(given, o) /\ current' = current /\ current # <<>>
      /\ o \in OptionsOf /\ o[1] # "group"
      /\ events' = [events EXCEPT ![t][name] = group]
  BY DEF ChangeOf, GroupStep
<1>2. Owned
  BY DEF Meaning
<1>3. /\ Owned'
      /\ \A i \in DOMAIN given : given'[i] = given[i]
      /\ \A what, g : About(what, g)' = About(what, g) \union
             (IF o[1] = what /\ owner = g THEN {Len(given) + 1} ELSE {})
  BY <1>1, <1>2, AboutAppended
<1>4. \A g : About("group", g)' = About("group", g)
  BY <1>1, <1>3
<1>5. \A g : g # owner => /\ TypeMeant(g)' = TypeMeant(g)
                          /\ \A list : EventsMeant(g, list)' <=> EventsMeant(g, list)
  <2> SUFFICES ASSUME NEW g, g # owner
               PROVE  /\ TypeMeant(g)' = TypeMeant(g)
                      /\ \A list : EventsMeant(g, list)' <=> EventsMeant(g, list)
    OBVIOUS
  <2>1. About("type", g)' = About("type", g) /\ About("event", g)' = About("event", g)
    BY <1>3
  <2> QED  BY <1>2, <1>3, <2>1, SameMeaning
<1>6. TypeMeant(owner)' = group.type /\ EventsMeant(owner, group.events)'
  BY <1>1
<1>7. /\ DOMAIN events = Tables
      /\ \A u \in Tables : DOMAIN events'[u] = DOMAIN events[u]
      /\ \A u \in Tables : \A n \in DOMAIN events[u] :
             events'[u][n] = IF u = t /\ n = name THEN group ELSE events[u][n]
  BY <1>1 DEF ConfigTypeOK
<1>8. ASSUME NEW u \in Tables
      PROVE  /\ DOMAIN events'[u] = {n \in Names : About("group", <<u, n>>)' # {}}
             /\ \A n \in DOMAIN events'[u] :
                    /\ events'[u][n] \in Group
                    /\ events'[u][n].type = TypeMeant(<<u, n>>)'
                    /\ EventsMeant(<<u, n>>, events[u][n].events)'
  <2>1. /\ DOMAIN events[u] = {n \in Names : About("group", <<u, n>>) # {}}
        /\ \A n \in DOMAIN events[u] :
                    /\ events[u][n] \in Group
                    /\ events[u][n].type = TypeMeant(<<u, n>>)
                    /\ EventsMeant(<<u, n>>, events[u][n].events)
    BY DEF Meaning, GroupsAsGiven
  <2>2. DOMAIN events'[u] = {n \in Names : About("group", <<u, n>>)' # {}}
    BY <1>4, <1>7, <2>1
  <2>3. ASSUME NEW n \in DOMAIN events'[u]
        PROVE  /\ events'[u][n] \in Group
               /\ events'[u][n].type = TypeMeant(<<u, n>>)'
               /\ EventsMeant(<<u, n>>, events[u][n].events)'
    <3>1. CASE u = t /\ n = name
      <4>1. events'[u][n] = group /\ <<u, n>> = owner
        BY <1>7, <2>3, <3>1
      <4>2. PICK list : list = group.events
        OBVIOUS
      <4>3. EventsMeant(<<u, n>>, list)' /\ list = events'[u][n].events
        BY <1>6, <4>1, <4>2
      <4>4. EventsMeant(<<u, n>>, events[u][n].events)'
        BY <4>3
      <4> QED  BY <1>6, <4>1, <4>4
    <3>2. CASE ~(u = t /\ n = name)
      <4>1. n \in DOMAIN events[u] /\ events'[u][n] = events[u][n] /\ <<u, n>> # owner
        BY <1>7, <2>3, <3>2
      <4>2. PICK list : list = events[u][n].events /\ list = events'[u][n].events
        BY <4>1
      <4>3. EventsMeant(<<u, n>>, list)'
        BY <1>5, <2>1, <4>1, <4>2
      <4>4. EventsMeant(<<u, n>>, events[u][n].events)'
        BY <4>2, <4>3
      <4> QED  BY <1>5, <2>1, <4>1, <4>4
    <3> QED  BY <3>1, <3>2
  <2> QED  BY <2>2, <2>3
<1>9. GroupsAsGiven'
  BY <1>8 DEF GroupsAsGiven
<1> QED  BY <1>1, <1>3, <1>8, <1>9, NumbersApart DEF Meaning

\* The type given last is the one of the group.
LEMMA SetMonitoringTypeKeepsMeaning ==
    ASSUME ConfigTypeOK, Meaning, NEW type \in Types, SetMonitoringType(type)
    PROVE  Meaning'
<1> PICK o, group, owner : /\ o = <<"type", type>> /\ owner = current
                           /\ group = [Current EXCEPT !.type = type]
  OBVIOUS
<1>1. ChangeOf(o, group)
  BY DEF SetMonitoringType, GroupOption, Option, ToCurrent, ChangeOf, GroupStep, OptionsOf
<1>2. /\ Current \in Group /\ Current.type = TypeMeant(owner) /\ EventsMeant(owner, Current.events)
  BY CurrentGroup, <1>1 DEF ChangeOf
<1>3. group \in Group /\ group.type = type /\ group.events = Current.events
  BY <1>2 DEF Group
<1>4. /\ Len(given) \in Nat /\ DOMAIN given = 1 .. Len(given)
      /\ given'[Len(given) + 1] = o /\ \A i \in DOMAIN given : given'[i] = given[i]
      /\ \A what, g : About(what, g)' = About(what, g) \union
             (IF o[1] = what /\ owner = g THEN {Len(given) + 1} ELSE {})
  BY <1>1, AboutAppended DEF ChangeOf, GroupStep, Meaning
<1>5. /\ About("type", owner)' = About("type", owner) \union {Len(given) + 1}
      /\ About("event", owner)' = About("event", owner)
  <2>1. o[1] = "type"
    OBVIOUS
  <2>2. About("type", owner)' = About("type", owner) \union
            (IF o[1] = "type" /\ owner = owner THEN {Len(given) + 1} ELSE {})
    BY <1>4
  <2>3. About("event", owner)' = About("event", owner) \union
            (IF o[1] = "event" /\ owner = owner THEN {Len(given) + 1} ELSE {})
    BY <1>4
  <2> QED  BY <2>1, <2>2, <2>3
<1>6. TypeMeant(owner)' = type
  <2>1. About("type", owner) \in SUBSET (1 .. Len(given))
    BY <1>4 DEF About
  <2>2. Max(About("type", owner)') = Len(given) + 1
    BY <1>4, <1>5, <2>1, MaxAdded
  <2>3. given'[Len(given) + 1][2] = type
    BY <1>4
  <2> QED  BY <1>5, <2>2, <2>3 DEF TypeMeant
<1>7. EventsMeant(owner, group.events)'
  <2> PICK list : list = group.events
    OBVIOUS
  <2>1. EventsMeant(owner, list)
    BY <1>2, <1>3
  <2>2. About("event", owner) \subseteq DOMAIN given
    BY DEF About
  <2>3. EventsMeant(owner, list)'
    BY <1>4, <1>5, <2>1, <2>2 DEF EventsMeant
  <2> QED  BY <2>3
<1>8. TypeMeant(current)' = group.type /\ EventsMeant(current, group.events)'
  BY <1>1, <1>3, <1>6, <1>7 DEF ChangeOf
<1> QED  BY <1>1, <1>3, <1>8, Change

\* An event goes to the end of the group, and was given after all the others.
LEMMA AppendEventKeepsMeaning ==
    ASSUME ConfigTypeOK, Meaning, NEW event \in Events, AppendEvent(event)
    PROVE  Meaning'
<1> PICK o, group, owner : /\ o = <<"event", event>> /\ owner = current
                           /\ group = [Current EXCEPT !.events = Append(@, event)]
  OBVIOUS
<1>1. ChangeOf(o, group)
  BY DEF AppendEvent, GroupOption, Option, ToCurrent, ChangeOf, GroupStep, OptionsOf
<1>2. /\ Current \in Group /\ Current.type = TypeMeant(owner) /\ EventsMeant(owner, Current.events)
  BY CurrentGroup, <1>1 DEF ChangeOf
<1> PICK list, new, n : list = Current.events /\ new = Append(list, event) /\ n = Len(given)
  OBVIOUS
<1>3. /\ group \in Group /\ group.type = Current.type /\ group.events = new
      /\ list \in Seq(Events)
  BY <1>2, AppendProperties DEF Group
<1>4. /\ n \in Nat /\ DOMAIN given = 1 .. n
      /\ given'[n + 1] = o /\ \A i \in DOMAIN given : given'[i] = given[i]
      /\ \A what, g : About(what, g)' = About(what, g) \union
             (IF o[1] = what /\ owner = g THEN {n + 1} ELSE {})
  BY <1>1, AboutAppended DEF ChangeOf, GroupStep, Meaning
<1>5. /\ About("type", owner)' = About("type", owner)
      /\ About("event", owner)' = About("event", owner) \union {n + 1}
      /\ About("type", owner) \in SUBSET (1 .. n) /\ About("event", owner) \in SUBSET (1 .. n)
  <2>1. o[1] = "event"
    OBVIOUS
  <2>2. About("type", owner)' = About("type", owner) \union
            (IF o[1] = "type" /\ owner = owner THEN {n + 1} ELSE {})
    BY <1>4
  <2>3. About("event", owner)' = About("event", owner) \union
            (IF o[1] = "event" /\ owner = owner THEN {n + 1} ELSE {})
    BY <1>4
  <2>4. \A what : About(what, owner) \in SUBSET (1 .. n)
    BY <1>4 DEF About
  <2> QED  BY <2>1, <2>2, <2>3, <2>4
<1>6. TypeMeant(owner)' = TypeMeant(owner)
  <2>1. About("type", owner) # {} => Max(About("type", owner)) \in DOMAIN given
    BY <1>4, <1>5, MaxIs
  <2> QED  BY <1>4, <1>5, <2>1 DEF TypeMeant
<1>7. EventsMeant(owner, new)'
  <2> PICK A : A = About("event", owner)
    OBVIOUS
  <2> PICK k \in Nat : k = Len(list)
    BY <1>3, LenProperties
  <2>1. /\ DOMAIN list = 1 .. k /\ DOMAIN new = 1 .. k + 1
        /\ new[k + 1] = event /\ \A i \in 1 .. k : new[i] = list[i]
    BY <1>3, AppendProperties, LenProperties
  <2>2. PICK in \in [1 .. k -> A] :
            /\ \A i, j \in 1 .. k : i < j => in[i] < in[j]
            /\ \A i \in A : \E j \in 1 .. k : in[j] = i
            /\ \A j \in 1 .. k : list[j] = given[in[j]][2]
    <3>1. EventsMeant(owner, list)
      BY <1>2
    <3>2. PICK in \in [DOMAIN list -> About("event", owner)] :
              /\ \A i, j \in DOMAIN list : i < j => in[i] < in[j]
              /\ \A i \in About("event", owner) : \E j \in DOMAIN list : in[j] = i
              /\ \A j \in DOMAIN list : list[j] = given[in[j]][2]
      BY <3>1 DEF EventsMeant
    <3>3. DOMAIN list = 1 .. k
      BY <2>1
    <3> WITNESS in \in [1 .. k -> A]
    <3> QED  BY <3>2, <3>3
  <2> DEFINE to == [j \in 1 .. k + 1 |-> IF j = k + 1 THEN n + 1 ELSE in[j]]
  <2>3. /\ to[k + 1] = n + 1 /\ \A j \in 1 .. k : to[j] = in[j] /\ in[j] \in A /\ in[j] \in 1 .. n
        /\ 1 .. k + 1 = (1 .. k) \union {k + 1}
    BY <1>5
  <2>4. to \in [1 .. k + 1 -> A \union {n + 1}]
    BY <2>3
  <2> HIDE DEF to
  <2>5. \A i, j \in 1 .. k + 1 : i < j => to[i] < to[j]
    <3> SUFFICES ASSUME NEW i \in 1 .. k + 1, NEW j \in 1 .. k + 1, i < j
                 PROVE  to[i] < to[j]
      OBVIOUS
    <3>1. i \in 1 .. k
      OBVIOUS
    <3>2. CASE j = k + 1
      BY <1>4, <2>3, <3>1, <3>2
    <3>3. CASE j \in 1 .. k
      BY <2>2, <2>3, <3>1, <3>3
    <3> QED  BY <2>3, <3>2, <3>3
  <2>6. \A i \in A \union {n + 1} : \E j \in 1 .. k + 1 : to[j] = i
    BY <2>2, <2>3
  <2>7. \A j \in 1 .. k + 1 : new[j] = given'[to[j]][2]
    <3> SUFFICES ASSUME NEW j \in 1 .. k + 1
                 PROVE  new[j] = given'[to[j]][2]
      OBVIOUS
    <3>1. CASE j = k + 1
      BY <1>4, <2>1, <2>3, <3>1
    <3>2. CASE j \in 1 .. k
      <4>1. to[j] = in[j] /\ in[j] \in DOMAIN given
        BY <1>4, <2>3, <3>2
      <4>2. given'[in[j]] = given[in[j]]
        BY <1>4, <4>1
      <4> QED  BY <2>1, <2>2, <3>2, <4>1, <4>2
    <3> QED  BY <2>3, <3>1, <3>2
  <2>8. About("event", owner)' = A \union {n + 1}
    BY <1>5
  <2>9. EventsMeant(owner, new)' <=>
            \E f \in [DOMAIN new -> About("event", owner)'] :
                /\ \A i, j \in DOMAIN new : i < j => f[i] < f[j]
                /\ \A i \in About("event", owner)' : \E j \in DOMAIN new : f[j] = i
                /\ \A j \in DOMAIN new : new[j] = given'[f[j]][2]
    BY DEF EventsMeant
  <2>10. DOMAIN new = 1 .. k + 1
    BY <2>1
  <2>11. \E f \in [DOMAIN new -> About("event", owner)'] :
             /\ \A i, j \in DOMAIN new : i < j => f[i] < f[j]
             /\ \A i \in About("event", owner)' : \E j \in DOMAIN new : f[j] = i
             /\ \A j \in DOMAIN new : new[j] = given'[f[j]][2]
    <3>1. to \in [DOMAIN new -> About("event", owner)']
      BY <2>4, <2>8, <2>10
    <3>2. /\ \A i, j \in DOMAIN new : i < j => to[i] < to[j]
          /\ \A i \in About("event", owner)' : \E j \in DOMAIN new : to[j] = i
          /\ \A j \in DOMAIN new : new[j] = given'[to[j]][2]
      BY <2>5, <2>6, <2>7, <2>8, <2>10
    <3> QED  BY <3>1, <3>2
  <2> QED  BY <2>9, <2>11
<1>8. TypeMeant(current)' = group.type /\ EventsMeant(current, group.events)'
  BY <1>1, <1>2, <1>3, <1>6, <1>7 DEF ChangeOf
<1> QED  BY <1>1, <1>3, <1>8, Change

LEMMA ConfigInitMeans == ConfigInit => Meaning
<1> SUFFICES ASSUME ConfigInit PROVE Meaning
  OBVIOUS
<1>1. /\ current = <<>> /\ given = <<>> /\ asked = DefaultNumbers
      /\ config.numbers = DefaultNumbers /\ events = [t \in Tables |-> <<>>]
  BY DEF ConfigInit, Defaults
<1>2. given \in Seq(OptionsOf) /\ DOMAIN given = {}
  BY <1>1
<1>3. \A what, group : About(what, group) = {}
  BY <1>2 DEF About
<1>4. \A t \in Tables : DOMAIN events[t] = {}
  BY <1>1
<1>5. Owned
  BY <1>1, <1>2 DEF Owned
<1>6. Asked /\ NumbersAsGiven
  BY <1>1 DEF Asked, NumbersAsGiven, DefaultNumbers, Settings
<1> QED  BY <1>3, <1>4, <1>5, <1>6 DEF Meaning, GroupsAsGiven

LEMMA DestroyedMeans == DestroyConfig => Meaning'
<1> SUFFICES ASSUME DestroyConfig PROVE Meaning'
  OBVIOUS
<1>1. /\ current' = <<>> /\ given' = <<>> /\ asked' = DefaultNumbers
      /\ config'.numbers = DefaultNumbers /\ events' = [t \in Tables |-> <<>>]
  BY DEF DestroyConfig, Defaults
<1>2. given' \in Seq(OptionsOf) /\ DOMAIN given' = {}
  BY <1>1
<1>3. \A what, group : About(what, group)' = {}
  BY <1>2 DEF About
<1>4. \A t \in Tables : DOMAIN events'[t] = {}
  BY <1>1
<1>5. Owned'
  BY <1>1, <1>2 DEF Owned
<1>6. Asked' /\ NumbersAsGiven'
  BY <1>1 DEF Asked, NumbersAsGiven, DefaultNumbers, Settings
<1> QED  BY <1>3, <1>4, <1>5, <1>6 DEF Meaning, GroupsAsGiven

LEMMA ReadOptionKeepsMeaning ==
    ASSUME ConfigTypeOK, Meaning, ReadOption
    PROVE  Meaning'
<1>1. CASE \/ SetName
           \/ \E s \in Settings, n \in Numbers : SetNumber(s, n)
           \/ \E type \in StorageTypes : SetStorageType(type)
           \/ \E s \in Strings : SetString(s)
           \/ \E port \in {0, 1} : SetPort(port)
  BY <1>1, OtherKeepsMeaning
<1>2. CASE \E t \in Tables, name \in Names : StartGroup(t, name)
  BY <1>2, StartGroupKeepsMeaning
<1>3. CASE \E type \in Types : SetMonitoringType(type)
  BY <1>3, SetMonitoringTypeKeepsMeaning
<1>4. CASE \E event \in Events : AppendEvent(event)
  BY <1>4, AppendEventKeepsMeaning
<1> QED  BY <1>1, <1>2, <1>3, <1>4 DEF ReadOption, Types

LEMMA SameConfigMeans ==
    ASSUME Meaning, UNCHANGED configVars
    PROVE  Meaning'
<1>1. UNCHANGED <<front, current, config, events, given, asked>>
  BY DEF configVars, configHistory
<1>2. \A what, group : About(what, group)' = About(what, group)
  BY <1>1 DEF About, OwnerOf
<1>3. \A group : /\ TypeMeant(group)' = TypeMeant(group)
                 /\ \A list : EventsMeant(group, list)' <=> EventsMeant(group, list)
  BY <1>1, <1>2 DEF TypeMeant, EventsMeant
<1>4. GroupsAsGiven'
  BY <1>1, <1>2, <1>3 DEF Meaning, GroupsAsGiven
<1>5. OwnerOf(Len(given))' = OwnerOf(Len(given))
  BY <1>1 DEF OwnerOf
<1> QED  BY <1>1, <1>4, <1>5 DEF Meaning, Owned, Asked, NumbersAsGiven

\* However many options name groups, leave them and come back to them, each group
\* has the events and the type that were given for it, and the numbers are the
\* ones that were given last (parse_cli_options, setup_sensor, events.c).
THEOREM OptionsAreMeant == Spec => []AsGiven
<1>1. Init => Meaning
  BY ConfigInitMeans DEF Init
<1>2. IInv /\ Meaning /\ [Next]_vars => Meaning'
  <2> SUFFICES ASSUME IInv, Meaning, [Next]_vars PROVE Meaning'
    OBVIOUS
  <2>1. ConfigTypeOK
    BY DEF IInv, TypeOK
  <2>2. UNCHANGED configVars \/ ReadOption \/ DestroyConfig
    BY DEF vars, Next, parsing, GiveUp, InitializeZsys, InitializePmu, CreateHwInfo, DetectPackages,
       CreateConfig, SetUp, CreateStorage, InitializeStorage, PingStorage, StartSystemActor,
       SyncContainers, Deinitialize, CleanUp, Interrupt, LeftEnds
  <2> QED  BY <2>1, <2>2, SameConfigMeans, ReadOptionKeepsMeaning, DestroyedMeans
<1>3. Meaning => AsGiven
  BY DEF Meaning, AsGiven
<1> QED  BY <1>1, <1>2, <1>3, Inductive, PTL DEF Spec
=============================================================================

------------------------------ MODULE Startup ------------------------------
(***************************************************************************)
(* The life of main (src/src/sensor.c) around its loop: what it takes, one *)
(* thing after the other, and what the cleanup label gives back, with the  *)
(* threads that use those things meanwhile.  The storage module is looked  *)
(* at from its calls (storage.c); the handles of the MongoDB module        *)
(* (storage_mongodb.c) are its own.                                        *)
(*                                                                         *)
(* While no other thread runs, steps of main that cannot fail are one.  A  *)
(* signal ends the loop; it also cuts the wait of main for the end of an   *)
(* actor (zactor_destroy), which then runs on without main.                *)
(***************************************************************************)
EXTENDS Config, HwInfo

CONSTANT MaxSignals     \* bound: signals received

ASSUME SignalsAssumption == MaxSignals \in Nat

VARIABLES
    pc,         \* where main stands
    alive,      \* what is allocated, open or running, as main knows it
    signals,    \* signals received
    left        \* threads main has stopped waiting for: an actor of each kind

signalVars == <<signals, left>>
vars == <<pc, alive, signalVars, configVars, hwVars>>

MongoHandles == {"mongoc", "uri", "client", "collection"}
PerfActors   == {"container actors", "system actor"}
Threads      == PerfActors \union {"reporting actor"}
Resources ==
    {"zsys", "pmu", "topology", "hwinfo", "config", "document", "storage", "ticker"}
        \union MongoHandles \union Threads

Init ==
    /\ pc = "zsys"
    /\ alive = {}
    /\ signals = 0
    /\ left = {}
    /\ ConfigInit
    /\ HwInfoInit

\* main goes on, having taken some things, or gives up.
Step(from, taken, to) ==
    /\ pc = from
    /\ pc' = to
    /\ alive' = alive \union taken
    /\ UNCHANGED signalVars

parsing == <<configVars, hwVars>>

\* The order of the cleanup label, in the steps a thread can tell apart.
Cleanup == <<{"document"}, {"container actors"}, {"system actor"}, {"reporting actor"},
             {"storage"}, {"ticker", "config", "topology", "pmu", "hwinfo", "zsys"}>>

\* main goes to the cleanup label before there is any thread.
GiveUp(from, kept) ==
    /\ pc = from
    /\ pc' = "done"
    /\ alive' = kept \ UNION Range(Cleanup)
    /\ DestroyConfig
    /\ UNCHANGED <<signalVars, hwVars>>

-----------------------------------------------------------------------------
\* zsys_init: main returns without any cleanup when it fails.
InitializeZsys ==
    /\ \/ Step("zsys", {"zsys"}, "pmu")
       \/ Step("zsys", {}, "done")
    /\ UNCHANGED parsing

\* uname, perf_try_global_counting_event_open, pmu_initialize, and the topology.
InitializePmu ==
    \/ Step("pmu", {"pmu", "topology"}, "hwinfo") /\ UNCHANGED parsing
    \/ \E some \in SUBSET {"pmu", "topology"} : GiveUp("pmu", alive \union some)

CreateHwInfo ==
    \/ Step("hwinfo", {"hwinfo"}, "detect") /\ UNCHANGED parsing
    \/ GiveUp("hwinfo", alive)

\* do_packages_detection: the directory cannot be opened, an entry is not a cpu,
\* or the package of a cpu that has just gone offline cannot be read.
DetectPackages ==
    \/ /\ pc = "detect" /\ (ReadEntry \/ AddCpu)
       /\ UNCHANGED <<pc, alive, signalVars, configVars>>
    \/ Detected /\ Step("detect", {}, "create") /\ UNCHANGED parsing
    \/ GiveUp("detect", alive)

\* config_create, and the document when --config-file is given.
Document == IF front = "file" THEN {"document"} ELSE {}
CreateConfig ==
    \/ Step("create", {"config"} \union Document, "setup") /\ UNCHANGED parsing
    \/ \E some \in SUBSET ({"config"} \union Document) : GiveUp("create", alive \union some)

\* The options are read and validated.  main gives up when the configuration is
\* not valid, and also on an unknown option or type of value, a number out of
\* range, an event or a storage module that is not supported, an event or a type
\* without a group, or no memory for a group.
SetUp ==
    \/ pc = "setup" /\ ReadOption /\ UNCHANGED <<pc, alive, signalVars, hwVars>>
    \/ Valid /\ Step("setup", {}, "storage") /\ UNCHANGED parsing
    \/ GiveUp("setup", alive)

-----------------------------------------------------------------------------
CreateStorage ==
    \/ Step("storage", {"storage"}, "initialize") /\ UNCHANGED parsing
    \/ GiveUp("storage", alive)

\* mongodb_initialize: a failure destroys the uri and the client, and leaves the
\* library initialised.
MongodbTaken(succeeds) ==
    CASE config.type # "mongodb" -> {}
      [] succeeds -> MongoHandles
      [] OTHER -> {"mongoc"}

InitializeStorage ==
    \/ Step("initialize", MongodbTaken(TRUE), "ping") /\ UNCHANGED parsing
    \/ GiveUp("initialize", alive \union MongodbTaken(FALSE))

\* mongodb_deinitialize; the other modules are modelled apart.
Deinitialized == alive \ MongoHandles

\* Variant: a failing ping goes to the cleanup at once.
PingStorageOnly ==
    \/ Step("ping", {"reporting actor", "ticker"}, "start") /\ UNCHANGED parsing
    \/ GiveUp("ping", alive)

\* A failing ping deinitialises the module before the cleanup.
PingStorage ==
    \/ Step("ping", {"reporting actor", "ticker"}, "start") /\ UNCHANGED parsing
    \/ GiveUp("ping", Deinitialized)

StartSystemActor ==
    /\ Step("start", IF DOMAIN events["system"] # {} THEN {"system actor"} ELSE {}, "monitor")
    /\ UNCHANGED parsing

\* sync_cgroups_running_monitored: containers come, and go.
SyncContainers ==
    /\ pc = "monitor"
    /\ DOMAIN events["containers"] # {}
    /\ \/ alive' = alive \union {"container actors"}
       \/ alive' = alive \ {"container actors"}
    /\ UNCHANGED <<pc, signalVars, parsing>>

-----------------------------------------------------------------------------
\* The loop ends, on a signal: storage_module_deinitialize, while all the threads
\* run.
Deinitialize ==
    /\ pc = "monitor"
    /\ signals > 0
    /\ pc' = "cleanup"
    /\ alive' = Deinitialized
    /\ UNCHANGED <<signalVars, parsing>>

\* The threads of the process, which ends with main.
Running == IF pc = "done" THEN {} ELSE (alive \intersect Threads) \union left

\* What is released next: everything at once when no thread is left to see it.
Released ==
    IF Running = {} THEN UNION Range(Cleanup)
    ELSE LET held == {i \in DOMAIN Cleanup : Cleanup[i] \intersect alive # {}}
         IN  Cleanup[CHOOSE i \in held : \A j \in held : i <= j]

\* Variant: zactor_destroy does not wait for the thread.
CleanUpWithoutWaiting ==
    /\ pc = "cleanup"
    /\ alive' = alive \ Released
    /\ left' = left \union (Released \intersect Threads)
    /\ IF "config" \in Released
       THEN pc' = "done" /\ DestroyConfig
       ELSE UNCHANGED <<pc, configVars>>
    /\ UNCHANGED <<signals, hwVars>>

\* main goes on with the cleanup, an actor it has waited for having ended.
CleanUp ==
    /\ pc = "cleanup"
    /\ alive' = alive \ Released
    /\ IF "config" \in Released
       THEN pc' = "done" /\ DestroyConfig
       ELSE UNCHANGED <<pc, configVars>>
    /\ UNCHANGED <<signalVars, hwVars>>

\* The actors main may be waiting for: those of gone containers, and in the
\* cleanup the ones whose turn it is.
Awaited ==
    CASE pc = "monitor" -> alive \intersect {"container actors"}
      [] pc = "cleanup" -> Released \intersect alive \intersect Threads
      [] OTHER          -> {}

\* A signal, which may cut the wait for one actor short: main goes on, perhaps
\* with the other actors of containers.  One that comes before the loop is the
\* same as one at its start.
Interrupt ==
    /\ pc \in {"monitor", "cleanup"}
    /\ signals < MaxSignals
    /\ signals' = signals + 1
    /\ \/ UNCHANGED <<alive, left>>
       \/ \E thread \in Awaited :
             /\ left' = left \union {thread}
             /\ \/ alive' = alive \ {thread}
                \/ thread = "container actors" /\ alive' = alive
    /\ UNCHANGED <<pc, parsing>>

\* A thread main no longer waits for ends by itself.
LeftEnds ==
    /\ pc # "done"
    /\ \E thread \in left : left' = left \ {thread}
    /\ UNCHANGED <<pc, alive, signals, parsing>>

Next ==
    \/ InitializeZsys \/ InitializePmu \/ CreateHwInfo \/ DetectPackages
    \/ CreateConfig \/ SetUp
    \/ CreateStorage \/ InitializeStorage \/ PingStorage
    \/ StartSystemActor \/ SyncContainers \/ Deinitialize \/ CleanUp
    \/ Interrupt \/ LeftEnds

Spec == Init /\ [][Next]_vars

-----------------------------------------------------------------------------
TypeOK ==
    /\ pc \in {"zsys", "pmu", "hwinfo", "detect", "create", "setup", "storage",
               "initialize", "ping", "start", "monitor", "cleanup", "done"}
    /\ alive \subseteq Resources
    /\ signals \in 0 .. MaxSignals
    /\ left \subseteq Threads
    /\ ConfigTypeOK
    /\ HwInfoTypeOK

\* A storage module is never created with a setting it uses left NULL
\* (storage_csv.c:314, storage_socket.c:335, storage_mongodb.c:243).
SettingsUsed(type) ==
    CASE type = "null"    -> {}
      [] type = "csv"     -> {"U_flag"}
      [] type = "socket"  -> {"U_flag"}
      [] type = "mongodb" -> {"U_flag", "D_flag", "C_flag"}
StorageHasSettings ==
    "storage" \in alive =>
        /\ config.name
        /\ config.type \in StorageTypes
        /\ SettingsUsed(config.type) \subseteq config.strings

\* What the threads use.  A perf actor has copies of the tables of groups and of
\* hardware, but names of groups and events, and the name of the sensor, are
\* pointers into the document of the configuration file.
Uses(thread) ==
    UNION {Document,
           IF thread = "reporting actor" THEN {"storage"} ELSE {},
           IF thread = "reporting actor" /\ config.type = "mongodb" THEN MongoHandles ELSE {}}

\* What main may free under a thread that still runs.
GoneBefore ==
    IF pc # "cleanup" THEN {}
    ELSE {"document"} \union MongoHandles \union (IF signals > 1 THEN {"storage"} ELSE {})

\* Whatever a running thread uses is there as long as main monitors; once it
\* cleans up, the document and the handles of MongoDB may be gone before the
\* threads, and the storage module only if a second signal has come, which may
\* have cut the wait for the reporting actor (sensor.c:240-315).
ThreadsServed ==
    \A t \in Running : Uses(t) \subseteq alive \union GoneBefore

\* However the start fails, and wherever the loop is left, everything taken is
\* given back when main returns, except the MongoDB library after a failed
\* initialisation, and threads whose wait a signal has cut: those of gone
\* containers, or after a second signal any (sensor.c:299-315,
\* storage_mongodb.c:62-95).
NothingKept ==
    pc = "done" =>
        /\ alive \subseteq {"mongoc"}
        /\ left \subseteq (IF signals > 1 THEN Threads ELSE {"container actors"})

\* The port is set when the socket storage is: what config.c:488 says.
PortRequired ==
    "storage" \in alive /\ config.type = "socket" => portGiven
=============================================================================

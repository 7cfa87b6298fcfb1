------------------------------- MODULE Sensor -------------------------------
(***************************************************************************)
(* The whole sensor at run time: the main thread of src/src/sensor.c with  *)
(* the perf monitoring actors it starts and stops, the reporting actor,    *)
(* the channels between them and the containers that come and go.          *)
(*                                                                         *)
(*   loop -> discover -> stop -> start -> tick -> loop ...                 *)
(*   loop -> cleanup -> done, once interrupted                             *)
(*                                                                         *)
(* and "done" as well when the process is killed by its own start of an    *)
(* actor.                                                                  *)
(***************************************************************************)
EXTENDS PerfActor, ReportingActor

CONSTANTS MonitorSystem,    \* the configuration has events for the whole system
          MaxStarts         \* bound: actors of a container before no walk misses it

ASSUME MonitorSystemAssumption == MonitorSystem \in BOOLEAN
ASSUME MaxStartsAssumption == MaxStarts \in Nat

VARIABLES main,         \* where the main thread stands
          waiting,      \* actor whose end zactor_destroy is waiting for
          actors,       \* actors main holds a zactor_t of
          visited,      \* directories the walk of this round has seen
          running,      \* running_targets
          deleted       \* an entry of the table was deleted in this round

mainVars == <<main, waiting, actors, visited, running, deleted>>
vars == <<channelVars, cgroupVars, perfVars, reporterVars, mainVars>>

MainLocations == {"loop", "discover", "stop", "start", "tick", "cleanup", "done"}

TypeOK ==
    /\ ChannelsTypeOK
    /\ CgroupsTypeOK
    /\ PerfTypeOK
    /\ ReporterTypeOK
    /\ main \in MainLocations
    /\ waiting \in Actors \union {Nobody}
    /\ actors \subseteq Actors
    /\ visited \subseteq Containers
    /\ running \subseteq Containers
    /\ deleted \in BOOLEAN

\* The reporting actor has been started, and so has the one of the whole system when the
\* configuration has system events; containers are found by the loop.
Init ==
    /\ ChannelsInit
    /\ CgroupsInit
    /\ ReporterInit
    /\ main = "loop"
    /\ waiting = Nobody
    /\ actors = IF MonitorSystem THEN {Reporter, System} ELSE {Reporter}
    /\ visited = {}
    /\ running = {}
    /\ deleted = FALSE
    /\ perf = [m \in Monitors |-> IF m \in actors THEN "resolve" ELSE "exited"]
    /\ gen = [m \in Monitors |-> IF m \in actors THEN 1 ELSE 0]
    /\ job = [m \in Monitors |-> 0]
    /\ opened = [m \in Monitors |-> 0]

-----------------------------------------------------------------------------
\* The thread of actor a has ended.
Ended(a) == IF a = Reporter THEN reporter = "exited" ELSE perf[a] = "exited"

\* zactor_destroy: send "$TERM" and wait for the thread to end.
Destroy(a) ==
    /\ waiting = Nobody
    /\ a \in actors
    /\ SendTerm(a)
    /\ waiting' = a
    /\ UNCHANGED <<main, actors, visited, running, signals, inbox, reporting, pull,
                   clock, sent, cgroupVars, perfVars, reporterVars>>

Joined ==
    /\ waiting # Nobody
    /\ Ended(waiting)
    /\ actors' = actors \ {waiting}
    /\ waiting' = Nobody
    /\ UNCHANGED <<main, visited, running, deleted, channelVars, cgroupVars, perfVars,
                   reporterVars>>

\* A step of main that only moves the main thread.
MainGoto(location) ==
    /\ main' = location
    /\ UNCHANGED <<waiting, actors, channelVars, cgroupVars, perfVars, reporterVars>>

\* Variant: the loop does not look at zsys_interrupted.
LoopForEver ==
    /\ main = "loop"
    /\ MainGoto(IF Containers = {} THEN "tick" ELSE "discover")
    /\ UNCHANGED <<visited, running, deleted>>

\* while (!zsys_interrupted), and the rounds without container events.
Loop ==
    /\ main = "loop"
    /\ ~interrupted
    /\ MainGoto(IF Containers = {} THEN "tick" ELSE "discover")
    /\ UNCHANGED <<visited, running, deleted>>

\* Variant: the base directory is taken for a container.
VisitBase(c) ==
    /\ main = "discover"
    /\ c \in Containers \ visited
    /\ MainGoto("discover")
    /\ visited' = visited \union {c}
    /\ running' = running \union {System}
    /\ UNCHANGED deleted

\* The walk may miss the directory of c: its target cannot be created, or
\* fts_read fails before it.
MayMiss(c) == MayFail /\ gen[c] < MaxStarts

\* target_discover_running: the walk meets the directories one after the
\* other, each as it is at that moment.
Visit(c) ==
    /\ main = "discover"
    /\ c \in Containers \ visited
    /\ MainGoto("discover")
    /\ visited' = visited \union {c}
    /\ \/ running' = IF c \in alive THEN running \union {c} ELSE running
       \/ MayMiss(c) /\ UNCHANGED running
    /\ UNCHANGED deleted

\* fts_read returns NULL: at the end of the walk, and on an error, which is
\* taken for the end.
DiscoverDone ==
    /\ main = "discover"
    /\ \A c \in Containers \ visited : MayMiss(c)
    /\ MainGoto("stop")
    /\ visited' = {}
    /\ UNCHANGED <<running, deleted>>

\* fts_open fails: nothing is synchronised in this round.
DiscoverFails ==
    /\ main = "discover"
    /\ visited = {}
    /\ MayFail
    /\ MainGoto("tick")
    /\ UNCHANGED <<visited, running, deleted>>

\* stop monitoring dead container(s)
Dead == {c \in actors \intersect Containers : c \notin running}

\* Variant: the entry is removed from the table, the actor is not destroyed.
StopDeadByForgetting(c) ==
    /\ main = "stop"
    /\ c \in Dead
    /\ waiting = Nobody
    /\ actors' = actors \ {c}
    /\ UNCHANGED <<main, waiting, visited, running, deleted, channelVars, cgroupVars,
                   perfVars, reporterVars>>

StopDead(c) ==
    /\ main = "stop"
    /\ c \in Dead
    /\ Destroy(c)
    /\ deleted' = TRUE

\* The end of the iteration over the table.  zhashx_delete takes the cursor
\* away: zhashx_next goes on with the next bucket, and what follows the deleted
\* entry in its own bucket waits for the next round.  Buckets are not modelled:
\* any entry may share one with a deleted entry.
StopDone ==
    /\ main = "stop"
    /\ waiting = Nobody
    /\ Dead = {} \/ deleted
    /\ MainGoto("start")
    /\ UNCHANGED <<visited, running, deleted>>

\* start monitoring new container(s)
StartNew(c) ==
    /\ main = "start"
    /\ c \in running \ actors
    /\ Spawn(c)
    /\ actors' = actors \union {c}
    /\ UNCHANGED <<main, waiting, visited, running, deleted, signals, inbox, reporting,
                   pull, clock, sent, cgroupVars, reporterVars>>

\* perf_config_create fails and its result is not looked at: the new thread
\* dereferences NULL, which ends the process.
StartAborts(c) ==
    /\ main = "start"
    /\ c \in running \ actors
    /\ MayFail
    /\ MainGoto("done")
    /\ UNCHANGED <<visited, running, deleted>>

\* Variant: the loop over the new containers can end early.
StartDoneEarly ==
    /\ main = "start"
    /\ MainGoto("tick")
    /\ running' = {}
    /\ deleted' = FALSE
    /\ UNCHANGED visited

\* Variant: the table of the walk is kept for the next round.
StartDoneKeepingTargets ==
    /\ main = "start"
    /\ running \subseteq actors
    /\ MainGoto("tick")
    /\ deleted' = FALSE
    /\ UNCHANGED <<visited, running>>

StartDone ==
    /\ main = "start"
    /\ running \subseteq actors
    /\ MainGoto("tick")
    /\ running' = {}
    /\ deleted' = FALSE
    /\ UNCHANGED visited

\* zsock_send(ticker, ...), then zclock_sleep.  MaxTick bounds what is checked.
Tick ==
    /\ main = "tick"
    /\ IF clock < MaxTick
       THEN clock' = clock + 1 /\ Publish(clock + 1, Subscribers)
       ELSE UNCHANGED <<clock, inbox>>
    /\ main' = "loop"
    /\ UNCHANGED <<waiting, actors, visited, running, deleted, signals, pipe, reporting,
                   pull, sent, cgroupVars, perfVars, reporterVars>>

\* The loop has ended: storage_module_deinitialize, before any actor is told.
Deinitialize ==
    /\ main = "loop"
    /\ interrupted
    /\ storage' = "deinitialized"
    /\ main' = "cleanup"
    /\ UNCHANGED <<waiting, actors, visited, running, deleted, reporter, report, handled,
                   late, channelVars, cgroupVars, perfVars>>

\* The cleanup label: the container actors, the system actor, the reporting
\* actor, in this order.
Cleanup(a) ==
    /\ main = "cleanup"
    /\ a = System => actors \intersect Containers = {}
    /\ a = Reporter => actors \intersect Monitors = {}
    /\ Destroy(a)
    /\ UNCHANGED deleted

\* Variant: the module is destroyed before the actors are.
DestroyStorageFirst ==
    /\ main = "cleanup"
    /\ storage' = "destroyed"
    /\ UNCHANGED <<mainVars, reporter, report, handled, late, channelVars, cgroupVars,
                   perfVars>>

\* storage_module_destroy, and main returns.
DestroyStorage ==
    /\ main = "cleanup"
    /\ actors = {}
    /\ storage' = "destroyed"
    /\ main' = "done"
    /\ UNCHANGED <<waiting, actors, visited, running, deleted, reporter, report, handled,
                   late, channelVars, cgroupVars, perfVars>>

MainStep ==
    \/ Loop
    \/ \E c \in Containers : Visit(c) \/ StopDead(c) \/ StartNew(c) \/ StartAborts(c)
    \/ DiscoverDone
    \/ DiscoverFails
    \/ StopDone
    \/ StartDone
    \/ Tick
    \/ Deinitialize
    \/ \E a \in Actors : Cleanup(a)
    \/ Joined
    \/ DestroyStorage

\* A signal sets the interrupt flag.  When main is blocked in zactor_destroy,
\* the receive may be cut short as well: main goes on without the actor.
Interrupt ==
    /\ signals < MaxSignals
    /\ signals' = signals + 1
    /\ \/ UNCHANGED <<waiting, actors>>
       \/ /\ waiting # Nobody
          /\ waiting' = Nobody
          /\ actors' = actors \ {waiting}
    /\ UNCHANGED <<main, visited, running, deleted, pipe, inbox, reporting, pull, clock,
                   sent, cgroupVars, perfVars, reporterVars>>

PerfRuns(m) ==
    /\ PerfStep(m)
    /\ UNCHANGED <<cgroupVars, reporterVars, mainVars>>

ReporterRuns ==
    /\ ReporterStep
    /\ UNCHANGED <<cgroupVars, perfVars, mainVars>>

ContainersChange ==
    /\ \E c \in Containers : CgroupCreate(c) \/ CgroupRemove(c)
    /\ UNCHANGED <<channelVars, perfVars, reporterVars, mainVars>>

\* A step the program takes by itself; the process ends with main.
SensorStep ==
    /\ main # "done"
    /\ MainStep \/ ReporterRuns \/ \E m \in Monitors : PerfRuns(m)

Next ==
    \/ SensorStep
    \/ main # "done" /\ (Interrupt \/ ContainersChange)

Spec == Init /\ [][Next]_vars

\* Every thread of the process is scheduled; nothing is assumed of the
\* environment.
Fairness ==
    /\ WF_vars(MainStep)
    /\ WF_vars(main # "done" /\ ReporterRuns)
    /\ \A m \in Monitors : WF_vars(main # "done" /\ PerfRuns(m))

FairSpec == Spec /\ Fairness

-----------------------------------------------------------------------------
\* Safety.

\* The reports of one actor reach the storage module in the order of their
\* ticks and none is skipped: the pipeline implements ReportStream.
Stream == INSTANCE ReportStream WITH stored <- handled
StreamSpec == Stream!Spec

\* Until the reporting actor ends, each payload sent is in exactly one place:
\* handled, in the hands of the storage module, or in a queue.
NothingLost ==
    pull = "bound" =>
        /\ sent = handled \union reporting \union ({report} \ {NoReport})
        /\ handled \intersect reporting = {}
        /\ report \notin handled \union reporting

\* main deinitialises the storage module while the reporting actor may be
\* storing or blocked in its poll: at most one store ends on a closed module.
LateStores == late <= 1

\* The storage module is freed after the end of the only thread that uses it,
\* unless a second signal cuts main's wait for that thread short.
ModuleOutlivesReporter ==
    storage = "destroyed" => reporter = "exited" \/ signals > 1

\* Before any signal, a monitoring thread is always one that main has a handle
\* on and can stop: none is leaked by the rounds of starting and stopping.
NoOrphanActor ==
    ~interrupted => \A m \in Monitors : perf[m] # "exited" => m \in actors

\* main has returned, or waits in zactor_destroy for a thread that has not ended.
MainBlocked == main = "done" \/ (waiting # Nobody /\ ~Ended(waiting))

\* The threads never all wait for each other: when each one has ended or is in
\* a call that waits, main has returned, or waits for an actor that is blocked
\* for ever sending to the reporting actor.
HangOnlyOnSend ==
    MainBlocked /\ ReporterBlocked /\ (\A m \in Monitors : PerfBlocked(m)) =>
        main = "done" \/ \E m \in Monitors : waiting = m /\ StuckSending(m)

-----------------------------------------------------------------------------
\* Liveness.

\* The actor of m is past its initialisation.
Monitored(m) == perf[m] \in {"poll", "wait", "collect", "send"}

\* A tick in the queue of a monitoring actor is answered by a report that the
\* storage module is given, unless the actor is being stopped.
Asked(m, g, t)    == Monitored(m) /\ gen[m] = g /\ t \in inbox[m]
Answered(m, g, t) == [from |-> m, gen |-> g, tick |-> t] \in handled

TicksAnswered ==
    \A m \in Monitors, g \in 1 .. MaxBirths, t \in 1 .. MaxTick :
        Asked(m, g, t) ~>
            (Answered(m, g, t) \/ interrupted \/ m \in pipe \/ gen[m] # g)

\* An interrupt ends the program, or leaves it waiting for a monitoring actor
\* that nobody will ever take the payload of.
ShutdownEndsOrHangs ==
    interrupted ~> (main = "done" \/ \E m \in Monitors : waiting = m /\ StuckSending(m))

\* The actor of a container that is gone, and does not come back, is stopped, if
\* not by this round then by a later one: a round leaves an actor for the next one
\* only while it stops another, and the births of containers are bounded.
DeadIsStopped ==
    \A c \in Containers :
        (c \in actors /\ c \notin alive) ~>
            (c \notin actors \/ c \in alive \/ interrupted)

\* A container that stays gets an actor.
RunningIsRegistered ==
    \A c \in Containers :
        c \in alive ~> (c \in actors \/ c \notin alive \/ interrupted)

\* sensor.c:106 says of the loop "start monitoring new container(s)": a
\* container that stays is monitored.
RunningIsMonitored ==
    \A c \in Containers :
        c \in alive ~> (Monitored(c) \/ c \notin alive \/ interrupted)

\* sensor.c:96 says of the loop "stop monitoring dead container(s)": an actor
\* whose cgroup has been removed does not keep monitoring it.
MonitorsDead(c) == Monitored(c) /\ (c \notin alive \/ opened[c] # born[c])
DeadIsDropped ==
    \A c \in Containers : MonitorsDead(c) ~> (~MonitorsDead(c) \/ interrupted)
=============================================================================

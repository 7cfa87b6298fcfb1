---------------------------- MODULE SensorProofs ----------------------------
(***************************************************************************)
(* Proofs about Sensor, for any set of containers, any number of ticks,    *)
(* signals and incarnations, and any high-water marks.                     *)
(***************************************************************************)
EXTENDS Sensor, FiniteSetTheorems, TLAPS

\* The reporting actor holds a payload exactly while it is storing one.  It is
\* what makes the type invariant inductive: "handled" only takes payloads.
Holding == reporter = "store" <=> report # NoReport

-----------------------------------------------------------------------------
\* Types.

LEMMA NoReportIsNone == NoReport \notin Payload
  BY ActorsAssumption DEF NoReport, Payload, Monitors

\* What the steps of a monitoring actor leave well typed.
LEMMA PerfTyping ==
    ASSUME TypeOK, NEW m \in Monitors, PerfRuns(m)
    PROVE  TypeOK'
<1> USE DEF TypeOK, ChannelsTypeOK, CgroupsTypeOK, PerfTypeOK, ReporterTypeOK, PerfRuns,
            cgroupVars, reporterVars, mainVars, channelVars, PerfLocations, Goto, interrupted
<1>1. CASE CreateContext(m)     BY <1>1 DEF CreateContext
<1>2. CASE ResolveFails(m)      BY <1>2 DEF ResolveFails, Exit
<1>3. CASE InitializeGroups(m)  BY <1>3 DEF InitializeGroups, Incarnation
<1>4. CASE InitializeFails(m)   BY <1>4 DEF InitializeFails, Exit
<1>5. CASE PerfPoll(m)          BY <1>5 DEF PerfPoll
<1>6. CASE PerfTerminated(m)    BY <1>6 DEF PerfTerminated, Exit
<1>7. CASE PerfHandlePipe(m)    BY <1>7 DEF PerfHandlePipe, Exit
<1>8. CASE HandleTicker(m)      BY <1>8 DEF HandleTicker
<1>9. CASE PopulatePayload(m)   BY <1>9 DEF PopulatePayload
<1>10. CASE PopulateFails(m)    BY <1>10 DEF PopulateFails
<1>11. CASE SendPayload(m)
  <2>1. PayloadOf(m) \in Payload
    BY DEF PayloadOf, Payload
  <2> QED  BY <1>11, <2>1 DEF SendPayload, Push
<1> QED
  BY <1>1, <1>2, <1>3, <1>4, <1>5, <1>6, <1>7, <1>8, <1>9, <1>10, <1>11 DEF PerfStep

LEMMA ReporterTyping ==
    ASSUME TypeOK, Holding, ReporterRuns
    PROVE  TypeOK' /\ Holding'
<1> USE DEF TypeOK, ChannelsTypeOK, CgroupsTypeOK, PerfTypeOK, ReporterTypeOK, ReporterRuns,
            Holding, cgroupVars, perfVars, mainVars, channelVars, ReporterLocations
<1>1. CASE ReportingPoll        BY <1>1 DEF ReportingPoll
<1>2. CASE ReportingTerminated  BY <1>2 DEF ReportingTerminated, ReporterExit
<1>3. CASE ReportingHandlePipe  BY <1>3 DEF ReportingHandlePipe, ReporterExit
<1>4. CASE HandleReporting
  <2>1. PICK p \in Payload : Pull(p) /\ report' = p
    BY <1>4 DEF HandleReporting
  <2> QED  BY <1>4, <2>1, NoReportIsNone DEF HandleReporting, Pull
<1>5. CASE StoreReport          BY <1>5 DEF StoreReport
<1> QED  BY <1>1, <1>2, <1>3, <1>4, <1>5 DEF ReporterStep

LEMMA MainTyping ==
    ASSUME TypeOK, MainStep
    PROVE  TypeOK'
<1> USE DEF TypeOK, ChannelsTypeOK, CgroupsTypeOK, PerfTypeOK, ReporterTypeOK, MainLocations,
            cgroupVars, perfVars, reporterVars, channelVars, MainGoto, Destroy, SendTerm
<1>1. CASE Loop                 BY <1>1 DEF Loop
<1>2. ASSUME NEW c \in Containers, Visit(c)
      PROVE  TypeOK'
  BY <1>2 DEF Visit
<1>3. ASSUME NEW c \in Containers, StopDead(c)
      PROVE  TypeOK'
  BY <1>3 DEF StopDead, Actors, Monitors
<1>4. ASSUME NEW c \in Containers, StartNew(c)
      PROVE  TypeOK'
  BY <1>4 DEF StartNew, Spawn, Goto, Actors, Monitors, PerfLocations
<1>5. CASE DiscoverDone         BY <1>5 DEF DiscoverDone
<1>6. CASE DiscoverFails        BY <1>6 DEF DiscoverFails
<1>7. CASE StopDone             BY <1>7 DEF StopDone
<1>8. CASE StartDone            BY <1>8 DEF StartDone
<1>9. CASE Tick                 BY <1>9, BoundsAssumption DEF Tick, Publish
<1>10. CASE Deinitialize        BY <1>10 DEF Deinitialize
<1>11. ASSUME NEW a \in Actors, Cleanup(a)
       PROVE  TypeOK'
  BY <1>11 DEF Cleanup
<1>12. CASE Joined              BY <1>12 DEF Joined
<1>13. CASE DestroyStorage      BY <1>13 DEF DestroyStorage
<1>14. ASSUME NEW c \in Containers, StartAborts(c)
       PROVE  TypeOK'
  BY <1>14 DEF StartAborts
<1> QED
  BY <1>1, <1>2, <1>3, <1>4, <1>5, <1>6, <1>7, <1>8, <1>9, <1>10, <1>11, <1>12, <1>13, <1>14
  DEF MainStep

LEMMA EnvironmentTyping ==
    ASSUME TypeOK, Interrupt \/ ContainersChange
    PROVE  TypeOK'
<1> USE DEF TypeOK, ChannelsTypeOK, CgroupsTypeOK, PerfTypeOK, ReporterTypeOK, MainLocations,
            cgroupVars, perfVars, reporterVars, channelVars, mainVars
<1>1. CASE Interrupt            BY <1>1 DEF Interrupt
<1>2. CASE ContainersChange     BY <1>2 DEF ContainersChange, CgroupCreate, CgroupRemove
<1> QED  BY <1>1, <1>2

\* Only the reporting actor touches what Holding is about.
LEMMA OthersKeepReporter ==
    ASSUME MainStep \/ Interrupt \/ ContainersChange \/ \E m \in Monitors : PerfRuns(m)
    PROVE  UNCHANGED <<reporter, report, handled, late>>
<1>1. CASE MainStep
  BY <1>1 DEF MainStep, Loop, Visit, StopDead, StartNew, StartAborts, DiscoverDone,
     DiscoverFails, StopDone, StartDone, Tick, Deinitialize, Cleanup, Joined, DestroyStorage,
     MainGoto, Destroy, reporterVars
<1>2. CASE Interrupt            BY <1>2 DEF Interrupt, reporterVars
<1>3. CASE ContainersChange     BY <1>3 DEF ContainersChange, reporterVars
<1>4. CASE \E m \in Monitors : PerfRuns(m)
  BY <1>4 DEF PerfRuns, reporterVars
<1> QED  BY <1>1, <1>2, <1>3, <1>4

\* Every variable keeps its type, in particular the storage module is only
\* ever given payloads.
THEOREM TypeCorrect == Spec => [](TypeOK /\ Holding)
<1>1. Init => TypeOK /\ Holding
  <2> SUFFICES ASSUME Init
               PROVE  TypeOK /\ Holding
    OBVIOUS
  <2>1. ReporterTypeOK /\ Holding /\ pull \in {"unbound", "bound", "closed"}
    BY DEF Init, ReporterInit, ReporterTypeOK, ReporterLocations, Holding
  <2>2. ChannelsTypeOK /\ CgroupsTypeOK
    BY <2>1 DEF Init, ChannelsInit, CgroupsInit, ChannelsTypeOK, CgroupsTypeOK
  <2>3. PerfTypeOK
    BY DEF Init, PerfTypeOK, PerfLocations
  <2> QED
    BY <2>1, <2>2, <2>3 DEF Init, TypeOK, MainLocations, Actors, Monitors
<1>2. TypeOK /\ Holding /\ [Next]_vars => TypeOK' /\ Holding'
  <2> SUFFICES ASSUME TypeOK, Holding, [Next]_vars
               PROVE  TypeOK' /\ Holding'
    OBVIOUS
  <2>1. CASE ReporterRuns
    BY <2>1, ReporterTyping
  <2>2. ASSUME NEW m \in Monitors, PerfRuns(m)
        PROVE  TypeOK' /\ Holding'
    BY <2>2, PerfTyping, OthersKeepReporter DEF Holding
  <2>3. CASE MainStep
    BY <2>3, MainTyping, OthersKeepReporter DEF Holding
  <2>4. CASE Interrupt \/ ContainersChange
    BY <2>4, EnvironmentTyping, OthersKeepReporter DEF Holding
  <2>5. CASE UNCHANGED vars
    BY <2>5 DEF vars, channelVars, cgroupVars, perfVars, reporterVars, mainVars, TypeOK, Holding,
       ChannelsTypeOK, CgroupsTypeOK, PerfTypeOK, ReporterTypeOK
  <2> QED
    BY <2>1, <2>2, <2>3, <2>4, <2>5 DEF Next, SensorStep
<1> QED  BY <1>1, <1>2, PTL DEF Spec

-----------------------------------------------------------------------------
\* Supervision: what main knows of the threads it has started.

\* A container without a handle has no thread either when main is about to start
\* one for it, even if a signal has made main abandon another.
Startable ==
    \A m \in Monitors :
        \/ main = "discover"
        \/ main \in {"stop", "start"} /\ m \in running
        => (perf[m] # "exited" => m \in actors)

\* A handle is given up only when its thread has ended or a signal cut the wait
\* short.  For the reporting actor main waits after the loop, when one signal
\* has come already, so giving it up early takes a second one.
Supervision ==
    /\ waiting \in actors \union {Nobody}
    /\ main = "cleanup" => interrupted
    /\ waiting = Reporter => main = "cleanup"
    /\ Reporter \notin actors => reporter = "exited" \/ signals > 1
    /\ storage = "destroyed" => Reporter \notin actors
    /\ waiting # Nobody => main \in {"stop", "cleanup"}
    /\ main = "stop" => waiting \notin running
    /\ NoOrphanActor
    /\ Startable

LEMMA SupervisionInit == Init => Supervision
  BY ActorsAssumption
  DEF Init, Supervision, NoOrphanActor, Startable, ChannelsInit, ReporterInit, Monitors

LEMMA MainKeepsSupervision ==
    ASSUME TypeOK, Supervision, MainStep, main # "done"
    PROVE  Supervision'
<1> USE ActorsAssumption
    DEF TypeOK, Supervision, NoOrphanActor, Startable, interrupted, MainGoto, Destroy, SendTerm,
        channelVars, cgroupVars, perfVars, reporterVars, Monitors, Actors
<1>1. CASE Loop                 BY <1>1 DEF Loop
<1>2. ASSUME NEW c \in Containers, Visit(c)
      PROVE  Supervision'
  BY <1>2 DEF Visit
<1>3. ASSUME NEW c \in Containers, StopDead(c)
      PROVE  Supervision'
  BY <1>3 DEF StopDead, Dead
<1>4. ASSUME NEW c \in Containers, StartNew(c)
      PROVE  Supervision'
  BY <1>4 DEF StartNew, Spawn, Goto, PerfTypeOK
<1>5. CASE DiscoverDone         BY <1>5 DEF DiscoverDone
<1>6. CASE DiscoverFails        BY <1>6 DEF DiscoverFails
<1>7. CASE StopDone             BY <1>7 DEF StopDone, Dead
<1>8. CASE StartDone            BY <1>8 DEF StartDone
<1>9. CASE Tick                 BY <1>9 DEF Tick
<1>10. CASE Deinitialize        BY <1>10 DEF Deinitialize
<1>11. ASSUME NEW a \in Actors, Cleanup(a)
       PROVE  Supervision'
  BY <1>11 DEF Cleanup
<1>12. CASE Joined              BY <1>12 DEF Joined, Ended
<1>13. CASE DestroyStorage      BY <1>13 DEF DestroyStorage
<1>14. ASSUME NEW c \in Containers, StartAborts(c)
       PROVE  Supervision'
  BY <1>14 DEF StartAborts
<1> QED
  BY <1>1, <1>2, <1>3, <1>4, <1>5, <1>6, <1>7, <1>8, <1>9, <1>10, <1>11, <1>12, <1>13, <1>14
  DEF MainStep

\* No step brings a thread back to life, but the one of main that starts it.
LEMMA PerfStaysEnded ==
    ASSUME TypeOK, NEW m \in Monitors, PerfRuns(m), NEW n \in Monitors, perf'[n] # "exited"
    PROVE  perf[n] # "exited"
  BY DEF TypeOK, PerfTypeOK, PerfRuns, PerfStep, CreateContext, ResolveFails, InitializeGroups,
     InitializeFails, PerfPoll, PerfTerminated, PerfHandlePipe, HandleTicker, PopulatePayload,
     PopulateFails, SendPayload, Goto, Exit

LEMMA PerfKeepsSignals ==
    ASSUME NEW m \in Monitors, PerfRuns(m)
    PROVE  UNCHANGED <<signals, pull, clock, reporterVars, mainVars>>
  BY DEF PerfRuns, PerfStep, CreateContext, ResolveFails, InitializeGroups, InitializeFails,
     PerfPoll, PerfTerminated, PerfHandlePipe, HandleTicker, PopulatePayload, PopulateFails,
     SendPayload, Exit, channelVars

LEMMA PerfKeepsSupervision ==
    ASSUME TypeOK, Supervision, NEW m \in Monitors, PerfRuns(m)
    PROVE  Supervision'
  BY PerfStaysEnded, PerfKeepsSignals
  DEF Supervision, NoOrphanActor, Startable, interrupted, reporterVars, mainVars

LEMMA ReporterKeepsSupervision ==
    ASSUME TypeOK, Supervision, ReporterRuns
    PROVE  Supervision'
  BY DEF TypeOK, Supervision, NoOrphanActor, Startable, interrupted, ReporterRuns, ReporterStep,
     ReportingPoll, ReportingTerminated, ReportingHandlePipe, ReporterExit, HandleReporting,
     StoreReport, channelVars, perfVars, mainVars

LEMMA EnvironmentKeepsSupervision ==
    ASSUME TypeOK, Supervision, Interrupt \/ ContainersChange
    PROVE  Supervision'
<1> USE DEF Supervision, NoOrphanActor, Startable, interrupted, TypeOK, ChannelsTypeOK
<1>1. CASE Interrupt
  BY <1>1, ActorsAssumption DEF Interrupt, perfVars, reporterVars, Actors, Monitors
<1>2. CASE ContainersChange
  BY <1>2 DEF ContainersChange, channelVars, perfVars, reporterVars, mainVars
<1> QED  BY <1>1, <1>2

\* sensor.c: main's table of actors, the threads and the life of the storage
\* module stay in the relation Supervision states.
THEOREM Supervised == Spec => []Supervision
<1>1. Supervision /\ TypeOK /\ [Next]_vars => Supervision'
  <2> SUFFICES ASSUME Supervision, TypeOK, [Next]_vars
               PROVE  Supervision'
    OBVIOUS
  <2>1. CASE UNCHANGED vars
    BY <2>1 DEF vars, channelVars, perfVars, reporterVars, mainVars, Supervision, NoOrphanActor, Startable,
       interrupted
  <2> QED
    BY <2>1, MainKeepsSupervision, PerfKeepsSupervision, ReporterKeepsSupervision,
       EnvironmentKeepsSupervision
    DEF Next, SensorStep
<1> QED  BY <1>1, SupervisionInit, TypeCorrect, PTL DEF Spec

\* Before any signal, main has a handle on every monitoring thread.
THEOREM NoOrphan == Spec => []NoOrphanActor
<1>1. Supervision => NoOrphanActor
  BY DEF Supervision
<1> QED  BY <1>1, Supervised, PTL

\* The storage module is freed after the end of the thread that uses it.
THEOREM StorageOutlivesReporter == Spec => []ModuleOutlivesReporter
<1>1. Supervision => ModuleOutlivesReporter
  BY DEF Supervision, ModuleOutlivesReporter
<1> QED  BY <1>1, Supervised, PTL

-----------------------------------------------------------------------------
\* Stores that end on a closed storage module.

\* After a signal the reporting actor does not enter its poll again, so it ends
\* at most the wait or the store it is in; before one the module is open.
Closing ==
    IF interrupted
    THEN late <= 1 /\ (reporter \in {"wait", "store"} => late = 0)
    ELSE late = 0 /\ storage = "initialized"

\* At most one report is stored after main has deinitialised the storage module,
\* however many monitoring actors there are.
THEOREM AtMostOneLateStore == Spec => []LateStores
<1>1. Init => Closing
  BY DEF Init, Closing, ChannelsInit, ReporterInit, interrupted
<1>2. Closing /\ TypeOK /\ Supervision /\ [Next]_vars => Closing'
  <2> SUFFICES ASSUME Closing, TypeOK, Supervision, [Next]_vars
               PROVE  Closing'
    OBVIOUS
  <2> USE DEF Closing, interrupted, TypeOK, ReporterTypeOK, ChannelsTypeOK
  <2>1. CASE ReporterRuns
    BY <2>1 DEF ReporterRuns, ReporterStep, ReportingPoll, ReportingTerminated,
       ReportingHandlePipe, ReporterExit, HandleReporting, StoreReport, channelVars
  <2>2. ASSUME NEW m \in Monitors, PerfRuns(m)
        PROVE  Closing'
    BY <2>2, PerfKeepsSignals DEF reporterVars
  <2>3. CASE MainStep
    <3>1. signals' = signals
      BY <2>3 DEF MainStep, Loop, Visit, StopDead, StartNew, StartAborts, DiscoverDone,
         DiscoverFails, StopDone, StartDone, Tick, Deinitialize, Cleanup, Joined,
         DestroyStorage, MainGoto, Destroy, channelVars
    <3>2. storage' = storage \/ interrupted
      BY <2>3 DEF MainStep, Loop, Visit, StopDead, StartNew, StartAborts, DiscoverDone,
         DiscoverFails, StopDone, StartDone, Tick, Deinitialize, Cleanup, Joined,
         DestroyStorage, MainGoto, Destroy, reporterVars, Supervision
    <3> QED  BY <2>3, <3>1, <3>2, OthersKeepReporter
  <2>4. CASE Interrupt
    BY <2>4 DEF Interrupt, reporterVars
  <2>5. CASE ContainersChange
    BY <2>5 DEF ContainersChange, reporterVars, channelVars
  <2>6. CASE UNCHANGED vars
    BY <2>6 DEF vars, channelVars, reporterVars
  <2> QED
    BY <2>1, <2>2, <2>3, <2>4, <2>5, <2>6 DEF Next, SensorStep
<1>3. Closing /\ TypeOK => LateStores
  BY DEF Closing, LateStores, TypeOK, ReporterTypeOK
<1> QED  BY <1>1, <1>2, <1>3, TypeCorrect, Supervised, PTL DEF Spec

-----------------------------------------------------------------------------
\* The pipeline from the ticker to the storage module.

\* What the actor of m has still to answer is later than all it has sent.
Fresh(m) ==
    /\ job[m] <= clock
    /\ perf[m] \in {"resolve", "exited"} => inbox[m] = {}
    /\ \A t \in inbox[m] : job[m] < t /\ t <= clock
    /\ \A q \in sent :
          q.from = m =>
            /\ q.gen <= gen[m]
            /\ q.gen = gen[m] =>
                  /\ q.tick <= clock
                  /\ \A t \in inbox[m] : q.tick < t
                  /\ perf[m] \in {"collect", "send"} => q.tick < job[m]

\* The report being stored is older than those of its sender in the queue.
HeadFirst == \A q \in reporting : SameSender(report, q) => report.tick < q.tick

Pipeline ==
    /\ pull = "bound" <=> reporter # "exited"
    /\ NothingLost
    /\ HeadFirst
    /\ \A m \in Monitors : Fresh(m)

LEMMA PipelineInit == Init => Pipeline
  BY ActorsAssumption DEF Init, Pipeline, NothingLost, HeadFirst, Fresh, ChannelsInit,
     ReporterInit, Monitors

\* An actor takes its ticks in order and adds to the end of its own stream.
LEMMA PerfKeepsPipeline ==
    ASSUME TypeOK, Holding, Pipeline, NEW m \in Monitors, PerfRuns(m)
    PROVE  Pipeline'
<1> USE DEF TypeOK, ChannelsTypeOK, PerfTypeOK, ReporterTypeOK
<1>1. ASSUME UNCHANGED <<reporting, pull, sent, reporterVars>>
      PROVE  (pull = "bound" <=> reporter # "exited")' /\ NothingLost' /\ HeadFirst'
  BY <1>1 DEF Pipeline, NothingLost, HeadFirst, reporterVars, SameSender
<1>2. ASSUME NEW n \in Monitors, n # m
      PROVE  UNCHANGED <<job[n], inbox[n], gen[n]>> /\ (perf[n])' = perf[n]
  BY <1>2 DEF PerfRuns, PerfStep, CreateContext, ResolveFails, InitializeGroups,
     InitializeFails, PerfPoll, PerfTerminated, PerfHandlePipe, HandleTicker, PopulatePayload,
     PopulateFails, SendPayload, Goto, Exit, channelVars
<1>3. ASSUME UNCHANGED <<reporting, pull, clock, sent, reporterVars>>, Fresh(m)'
      PROVE  Pipeline'
  <2>1. ASSUME NEW n \in Monitors
        PROVE  Fresh(n)'
    BY <1>2, <1>3, <2>1 DEF Pipeline, Fresh
  <2> QED  BY <1>1, <1>3, <2>1 DEF Pipeline
<1>4. PerfRuns(m) => UNCHANGED <<clock, reporterVars>>
  BY PerfKeepsSignals
<1>5. ASSUME Exit(m)
      PROVE  Pipeline'
  <2>1. Fresh(m)'
    BY <1>5 DEF Pipeline, Fresh, Exit, Goto
  <2> QED  BY <1>3, <1>4, <1>5, <2>1 DEF Exit
<1>6. CASE CreateContext(m)
  BY <1>3, <1>4, <1>6 DEF CreateContext, Goto, channelVars, Pipeline, Fresh
<1>7. CASE InitializeGroups(m)
  BY <1>3, <1>4, <1>7 DEF InitializeGroups, Goto, channelVars, Pipeline, Fresh
<1>8. CASE PerfPoll(m)
  BY <1>3, <1>4, <1>8 DEF PerfPoll, Goto, channelVars, Pipeline, Fresh
<1>9. CASE HandleTicker(m)
  <2>1. PICK t \in inbox[m] :
          /\ \A u \in inbox[m] : t <= u
          /\ inbox' = [inbox EXCEPT ![m] = @ \ {t}]
          /\ job' = [job EXCEPT ![m] = t]
    BY <1>9 DEF HandleTicker
  <2>2. t \in Nat /\ \A u \in inbox'[m] : t < u /\ u \in inbox[m]
    BY <2>1
  <2>3. perf' = [perf EXCEPT ![m] = "collect"] /\ UNCHANGED <<gen, sent, clock>>
    BY <1>9 DEF HandleTicker, Goto
  <2>4. Fresh(m)'
    BY <2>1, <2>2, <2>3 DEF Pipeline, Fresh
  <2> QED  BY <1>3, <1>4, <1>9, <2>4 DEF HandleTicker
<1>10. CASE PopulatePayload(m)
  BY <1>3, <1>4, <1>10 DEF PopulatePayload, Goto, channelVars, Pipeline, Fresh
<1>11. CASE PopulateFails(m)
  BY <1>3, <1>4, <1>11 DEF PopulateFails, Goto, channelVars, Pipeline, Fresh
<1>12. CASE SendPayload(m)
  <2> DEFINE p == PayloadOf(m)
  <2>1. /\ p \in Payload /\ p.from = m /\ p.gen = gen[m] /\ p.tick = job[m]
        /\ p # NoReport
    BY NoReportIsNone DEF PayloadOf, Payload
  <2>2. \A q \in sent : SameSender(p, q) => q.tick < p.tick
    BY <1>12, <2>1 DEF Pipeline, Fresh, SendPayload, SameSender, Payload
  <2>3. p \notin sent
    BY <1>12, <2>1, <2>2 DEF SendPayload, Push, CanPush, SameSender
  <2>4. /\ reporting' = reporting \union {p}
        /\ sent' = sent \union {p}
        /\ perf' = [perf EXCEPT ![m] = "poll"]
        /\ job' = [job EXCEPT ![m] = 0]
        /\ UNCHANGED <<gen, inbox, pull, clock, reporterVars>>
    BY <1>4, <1>12 DEF SendPayload, Push, Goto
  <2>5. NothingLost' /\ (pull = "bound" <=> reporter # "exited")'
    BY <2>1, <2>3, <2>4 DEF Pipeline, NothingLost, reporterVars
  <2>6. HeadFirst'
    <3>1. SameSender(report, p) => report \in sent
      <4>1. CASE report = NoReport
        BY <2>1, <4>1, ActorsAssumption DEF SameSender, NoReport, Monitors
      <4>2. CASE report # NoReport
        BY <4>2 DEF Holding, Pipeline, NothingLost
      <4> QED  BY <4>1, <4>2
    <3>2. SameSender(report, p) => report.tick < p.tick
      BY <2>2, <3>1 DEF SameSender
    <3> QED  BY <2>4, <3>2 DEF HeadFirst, Pipeline, reporterVars, SameSender
  <2>7. ASSUME NEW n \in Monitors, n # m
        PROVE  Fresh(n)'
    BY <1>2, <2>1, <2>4, <2>7 DEF Pipeline, Fresh
  <2>8. Fresh(m)'
    BY <2>1, <2>4 DEF Pipeline, Fresh
  <2> QED  BY <2>5, <2>6, <2>7, <2>8 DEF Pipeline
<1> QED
  BY <1>5, <1>6, <1>7, <1>8, <1>9, <1>10, <1>11, <1>12
  DEF PerfRuns, PerfStep, ResolveFails, InitializeFails, PerfTerminated, PerfHandlePipe

\* The reporting actor takes payloads from the head of a stream.
LEMMA ReporterKeepsPipeline ==
    ASSUME TypeOK, Holding, Pipeline, ReporterRuns
    PROVE  Pipeline'
<1> USE DEF TypeOK, ChannelsTypeOK, ReporterTypeOK, Holding
<1>1. \A m \in Monitors : Fresh(m)'
  BY DEF Pipeline, Fresh, ReporterRuns, ReporterStep, ReportingPoll, ReportingTerminated,
     ReportingHandlePipe, ReporterExit, HandleReporting, StoreReport, channelVars, perfVars
<1>2. ASSUME ReporterExit
      PROVE  Pipeline'
  BY <1>1, <1>2 DEF ReporterExit, Pipeline, NothingLost, HeadFirst
<1>3. CASE ReportingPoll
  BY <1>1, <1>3 DEF ReportingPoll, channelVars, Pipeline, NothingLost, HeadFirst, SameSender
<1>4. CASE HandleReporting
  <2>1. PICK p \in reporting :
          /\ \A q \in reporting : SameSender(p, q) => p.tick <= q.tick
          /\ reporting' = reporting \ {p}
          /\ report' = p
    BY <1>4 DEF HandleReporting, Pull
  <2>2. reporter' = "store" /\ UNCHANGED <<handled, pull, sent>>
    BY <1>4 DEF HandleReporting
  <2>3. report = NoReport /\ p # NoReport /\ p \in Payload
    BY <1>4, <2>1, NoReportIsNone DEF HandleReporting
  <2>4. NothingLost' /\ (pull = "bound" <=> reporter # "exited")'
    BY <1>4, <2>1, <2>2, <2>3 DEF Pipeline, NothingLost, HandleReporting
  <2>5. ASSUME NEW q \in reporting', SameSender(p, q)
        PROVE  p.tick < q.tick
    <3>1. q \in Payload /\ q # p /\ p.tick <= q.tick
      BY <2>1, <2>5
    <3>2. p.tick # q.tick
      BY <2>3, <2>5, <3>1 DEF SameSender, Payload
    <3> QED  BY <2>3, <3>1, <3>2 DEF Payload
  <2>6. HeadFirst'
    BY <2>1, <2>5 DEF HeadFirst, SameSender
  <2> QED  BY <1>1, <2>4, <2>6 DEF Pipeline
<1>5. CASE StoreReport
  <2>1. NothingLost' /\ (pull = "bound" <=> reporter # "exited")'
    BY <1>5, NoReportIsNone DEF Pipeline, NothingLost, StoreReport, channelVars
  <2>2. HeadFirst'
    BY <1>5, ActorsAssumption
    DEF HeadFirst, StoreReport, channelVars, SameSender, NoReport, Payload, Monitors
  <2> QED  BY <1>1, <2>1, <2>2 DEF Pipeline
<1> QED
  BY <1>2, <1>3, <1>4, <1>5
  DEF ReporterRuns, ReporterStep, ReportingTerminated, ReportingHandlePipe

\* main publishes ticks in order, and starts actors only where none runs.
LEMMA MainKeepsPipeline ==
    ASSUME TypeOK, Supervision, Pipeline, MainStep
    PROVE  Pipeline'
<1> USE DEF TypeOK, ChannelsTypeOK, PerfTypeOK
<1>1. UNCHANGED <<reporting, pull, sent, reporter, report, handled>>
  BY DEF MainStep, Loop, Visit, StopDead, StartNew, StartAborts, DiscoverDone, DiscoverFails,
     StopDone, StartDone, Tick, Deinitialize, Cleanup, Joined, DestroyStorage, MainGoto,
     Destroy, Spawn, channelVars, reporterVars
<1>2. ASSUME \A m \in Monitors : Fresh(m)'
      PROVE  Pipeline'
  BY <1>1, <1>2 DEF Pipeline, NothingLost, HeadFirst, SameSender
<1>3. ASSUME UNCHANGED <<inbox, clock, perfVars>>
      PROVE  Pipeline'
  BY <1>1, <1>2, <1>3 DEF Pipeline, Fresh, perfVars
<1>4. CASE Tick
  <2>1. UNCHANGED perfVars
    BY <1>4 DEF Tick
  <2>2. CASE clock < MaxTick
    <3>1. clock' = clock + 1
      BY <1>4, <2>2 DEF Tick
    <3>2. ASSUME NEW m \in Monitors
          PROVE  /\ inbox'[m] = inbox[m] \/ inbox'[m] = inbox[m] \union {clock + 1}
                 /\ perf[m] \in {"resolve", "exited"} => inbox'[m] = inbox[m]
      BY <1>4, <2>2 DEF Tick, Publish, Subscribers
    <3>3. ASSUME NEW m \in Monitors
          PROVE  Fresh(m)'
      BY <1>1, <2>1, <3>1, <3>2 DEF Pipeline, Fresh, perfVars, Payload
    <3> QED  BY <1>2, <3>3
  <2>3. CASE ~(clock < MaxTick)
    BY <1>3, <1>4, <2>3 DEF Tick
  <2> QED  BY <2>2, <2>3
<1>5. ASSUME NEW c \in Containers, StartNew(c)
      PROVE  Pipeline'
  <2>1. c \in Monitors /\ perf[c] = "exited"
    BY <1>5 DEF StartNew, Supervision, Startable, Monitors
  <2>2. /\ perf' = [perf EXCEPT ![c] = "resolve"]
        /\ gen' = [gen EXCEPT ![c] = @ + 1]
        /\ UNCHANGED <<job, inbox, clock>>
    BY <1>5 DEF StartNew, Spawn, Goto
  <2>3. ASSUME NEW m \in Monitors
        PROVE  Fresh(m)'
    <3>1. CASE m = c
      BY <1>1, <2>1, <2>2, <3>1 DEF Pipeline, Fresh, Payload
    <3>2. CASE m # c
      BY <1>1, <2>2, <3>2 DEF Pipeline, Fresh
    <3> QED  BY <3>1, <3>2
  <2> QED  BY <1>2, <2>3
<1>6. CASE ~Tick /\ ~\E c \in Containers : StartNew(c)
  BY <1>3, <1>6
  DEF MainStep, Loop, Visit, StopDead, StartAborts, DiscoverDone, DiscoverFails, StopDone,
      StartDone, Deinitialize, Cleanup, Joined, DestroyStorage, MainGoto, Destroy, channelVars
<1> QED  BY <1>4, <1>5, <1>6

LEMMA EnvironmentKeepsPipeline ==
    ASSUME Pipeline, Interrupt \/ ContainersChange \/ UNCHANGED vars
    PROVE  Pipeline'
  BY DEF Pipeline, NothingLost, HeadFirst, SameSender, Fresh, Interrupt, ContainersChange, vars,
     channelVars, perfVars, reporterVars

LEMMA PipelineInvariant == Spec => []Pipeline
<1>1. Pipeline /\ TypeOK /\ Holding /\ Supervision /\ [Next]_vars => Pipeline'
  BY PerfKeepsPipeline, ReporterKeepsPipeline, MainKeepsPipeline, EnvironmentKeepsPipeline
  DEF Next, SensorStep
<1> QED  BY <1>1, PipelineInit, TypeCorrect, Supervised, PTL DEF Spec

\* While the reporting actor lives, each payload sent is in exactly one place.
THEOREM Conservation == Spec => []NothingLost
<1>1. Pipeline => NothingLost
  BY DEF Pipeline
<1> QED  BY <1>1, PipelineInvariant, PTL

-----------------------------------------------------------------------------
\* The sensor implements ReportStream.

\* Sending appends to the stream of the sender.
LEMMA PerfRefines ==
    ASSUME TypeOK, Pipeline, NEW m \in Monitors, PerfRuns(m)
    PROVE  [Stream!Next]_(Stream!vars)
<1>1. CASE SendPayload(m)
  <2> DEFINE p == PayloadOf(m)
  <2>1. p.from = m /\ p.gen = gen[m] /\ p.tick = job[m] /\ sent' = sent \union {p}
    BY <1>1 DEF PayloadOf, SendPayload, Push
  <2>2. \A q \in sent : Stream!Same(p, q) => q.tick < p.tick
    BY <1>1, <2>1 DEF Pipeline, Fresh, SendPayload, Stream!Same
  <2>3. handled' = handled
    BY PerfKeepsSignals DEF reporterVars
  <2> QED  BY <2>1, <2>2, <2>3 DEF Stream!Next, Stream!Send
<1>2. CASE ~SendPayload(m)
  BY <1>2 DEF PerfRuns, PerfStep, CreateContext, ResolveFails, InitializeGroups,
     InitializeFails, PerfPoll, PerfTerminated, PerfHandlePipe, HandleTicker, PopulatePayload,
     PopulateFails, Exit, channelVars, reporterVars, Stream!vars
<1> QED  BY <1>1, <1>2

\* Storing takes the first report of a stream that has not been stored.
LEMMA ReporterRefines ==
    ASSUME TypeOK, Holding, Pipeline, ReporterRuns
    PROVE  [Stream!Next]_(Stream!vars)
<1>1. CASE StoreReport
  <2>1. report # NoReport /\ pull = "bound"
    BY <1>1 DEF StoreReport, Holding, Pipeline
  <2>2. report \in sent \ handled
    BY <2>1 DEF Pipeline, NothingLost
  <2>3. ASSUME NEW q \in sent, Stream!Same(report, q), q.tick < report.tick
        PROVE  q \in handled
    <3>1. q \in Payload /\ report \in Payload
      BY <2>2 DEF TypeOK, ChannelsTypeOK
    <3>2. q \notin reporting
      BY <2>3, <3>1 DEF Pipeline, HeadFirst, SameSender, Stream!Same, Payload
    <3>3. q # report
      BY <2>3, <3>1 DEF Payload
    <3> QED  BY <2>1, <3>2, <3>3 DEF Pipeline, NothingLost
  <2> QED
    BY <1>1, <2>2, <2>3 DEF StoreReport, channelVars, Stream!Next, Stream!Store
<1>2. CASE ~StoreReport
  BY <1>2 DEF ReporterRuns, ReporterStep, ReportingPoll, ReportingTerminated,
     ReportingHandlePipe, ReporterExit, HandleReporting, channelVars, Stream!vars
<1> QED  BY <1>1, <1>2

\* The reports of one actor reach the storage module in order, none being
\* skipped.
THEOREM ImplementsReportStream == Spec => StreamSpec
<1>1. Init => Stream!Init
  BY DEF Init, ChannelsInit, ReporterInit, Stream!Init
<1>2. TypeOK /\ Holding /\ Pipeline /\ [Next]_vars => [Stream!Next]_(Stream!vars)
  <2> SUFFICES ASSUME TypeOK, Holding, Pipeline, [Next]_vars
               PROVE  [Stream!Next]_(Stream!vars)
    OBVIOUS
  <2>1. ASSUME MainStep \/ Interrupt \/ ContainersChange
        PROVE  UNCHANGED Stream!vars
    BY <2>1, OthersKeepReporter
    DEF MainStep, Loop, Visit, StopDead, StartNew, StartAborts, DiscoverDone, DiscoverFails,
        StopDone, StartDone, Tick, Deinitialize, Cleanup, Joined, DestroyStorage, MainGoto,
        Destroy, Spawn, Interrupt, ContainersChange, channelVars, Stream!vars
  <2>2. CASE UNCHANGED vars
    BY <2>2 DEF vars, channelVars, reporterVars, Stream!vars
  <2> QED
    BY <2>1, <2>2, PerfRefines, ReporterRefines DEF Next, SensorStep
<1> QED
  BY <1>1, <1>2, TypeCorrect, PipelineInvariant, PTL DEF Spec, StreamSpec, Stream!Spec
-----------------------------------------------------------------------------
\* Deadlock.

\* An actor that main waits for has its "$TERM", and the pipe is read by no one
\* but the thread it ends.
Told == waiting # Nobody => waiting \in pipe

LEMMA ToldInvariant == Spec => []Told
<1>1. Init => Told
  BY DEF Init, Told
<1>2. TypeOK /\ Supervision /\ Told /\ [Next]_vars => Told'
  <2> SUFFICES ASSUME TypeOK, Supervision, Told, [Next]_vars
               PROVE  Told'
    OBVIOUS
  <2> USE DEF Told
  <2>1. CASE ReporterRuns
    BY <2>1 DEF ReporterRuns, ReporterStep, ReportingPoll, ReportingTerminated,
       ReportingHandlePipe, ReporterExit, HandleReporting, StoreReport, channelVars, mainVars
  <2>2. ASSUME NEW m \in Monitors, PerfRuns(m)
        PROVE  Told'
    BY <2>2 DEF PerfRuns, PerfStep, CreateContext, ResolveFails, InitializeGroups,
       InitializeFails, PerfPoll, PerfTerminated, PerfHandlePipe, HandleTicker,
       PopulatePayload, PopulateFails, SendPayload, Exit, channelVars, mainVars
  <2>3. ASSUME NEW c \in Containers, StartNew(c)
        PROVE  Told'
    BY <2>3, ActorsAssumption DEF StartNew, Spawn, Supervision
  <2>4. CASE MainStep /\ ~\E c \in Containers : StartNew(c)
    BY <2>4, ActorsAssumption
    DEF MainStep, Loop, Visit, StopDead, StartAborts, DiscoverDone, DiscoverFails, StopDone,
        StartDone, Tick, Deinitialize, Cleanup, Joined, DestroyStorage, MainGoto, Destroy,
        SendTerm, channelVars
  <2>5. CASE Interrupt \/ ContainersChange \/ UNCHANGED vars
    BY <2>5 DEF Interrupt, ContainersChange, vars, channelVars, mainVars
  <2> QED  BY <2>1, <2>2, <2>3, <2>4, <2>5 DEF Next, SensorStep
<1> QED  BY <1>1, <1>2, TypeCorrect, Supervised, PTL DEF Spec

\* Threads that all wait for each other: only main, for an actor whose payload
\* nobody will ever receive.  An actor in its poll has been told to end, and the
\* reporting actor, if it lives, waits in its poll, so that the queues are empty.
THEOREM HangsOnlyOnSend == Spec => []HangOnlyOnSend
<1>1. TypeOK /\ Supervision /\ Pipeline /\ Told => HangOnlyOnSend
  <2> SUFFICES ASSUME TypeOK, Supervision, Pipeline, Told, MainBlocked, ReporterBlocked,
                      \A m \in Monitors : PerfBlocked(m), main # "done"
               PROVE  \E m \in Monitors : waiting = m /\ StuckSending(m)
    BY DEF HangOnlyOnSend
  <2>1. waiting # Nobody /\ ~Ended(waiting) /\ waiting \in pipe
    BY DEF MainBlocked, Told
  <2>2. waiting \in Monitors
    BY <2>1 DEF ReporterBlocked, Ended, TypeOK, Actors
  <2>3. perf[waiting] = "send" /\ ~CanPush(PayloadOf(waiting))
    BY <2>1, <2>2, ActorsAssumption DEF PerfBlocked, Ended, Monitors
  <2>4. pull # "bound"
    <3> SUFFICES ASSUME pull = "bound"
                 PROVE  FALSE
      OBVIOUS
    <3>1. reporting = {}
      BY DEF Pipeline, ReporterBlocked
    <3>2. {q \in reporting : SameSender(PayloadOf(waiting), q)} = {}
      BY <3>1
    <3>3. Cardinality({q \in reporting : SameSender(PayloadOf(waiting), q)}) = 0
      BY <3>2, FS_EmptySet
    <3> QED  BY <2>3, <3>3, BoundsAssumption DEF CanPush
  <2> QED  BY <2>2, <2>3, <2>4 DEF StuckSending
<1> QED  BY <1>1, TypeCorrect, Supervised, PipelineInvariant, ToldInvariant, PTL

-----------------------------------------------------------------------------
\* Rounds.

\* The table holds what the walk has found, and a dead actor only when another was
\* deleted.
Agreed ==
    /\ running \subseteq actors
    /\ deleted \/ actors \intersect Containers = running

\* The part of it that the iteration over the table leaves behind.
Rounds == main = "start" => deleted \/ actors \intersect Containers \subseteq running

\* A round of sync_cgroups_running_monitored that reaches its end has every
\* container it has found in the table, whatever the signals that came while main
\* waited for an actor to end, and nothing else unless it deleted an entry: only the
\* deletion of one actor makes the iteration pass over another dead one, so that a
\* round never leaves the table as it is when an actor of it is dead.
THEOREM RoundsAgree == Spec => [][StartDone => Agreed]_vars
<1>1. Init => Rounds
  BY DEF Init, Rounds
<1>2. TypeOK /\ Supervision /\ Rounds /\ [Next]_vars => Rounds'
  <2> SUFFICES ASSUME TypeOK, Supervision, Rounds, [Next]_vars
               PROVE  Rounds'
    OBVIOUS
  <2> USE DEF Rounds
  <2>1. CASE MainStep
    BY <2>1 DEF MainStep, Loop, Visit, StopDead, StartNew, StartAborts, DiscoverDone,
       DiscoverFails, StopDone, StartDone, Tick, Deinitialize, Cleanup, Joined, DestroyStorage,
       MainGoto, Destroy, Dead
  <2>2. CASE ReporterRuns \/ (\E m \in Monitors : PerfRuns(m)) \/ ContainersChange
             \/ UNCHANGED vars
    BY <2>2 DEF ReporterRuns, PerfRuns, ContainersChange, vars, mainVars
  <2>3. CASE Interrupt
    BY <2>3 DEF Interrupt
  <2> QED  BY <2>1, <2>2, <2>3 DEF Next, SensorStep
<1>3. TypeOK /\ Rounds /\ [Next]_vars => [StartDone => Agreed]_vars
  BY DEF TypeOK, Rounds, StartDone, Agreed
<1> QED  BY <1>1, <1>2, <1>3, TypeCorrect, Supervised, PTL DEF Spec

-----------------------------------------------------------------------------
\* Shutdown: how much is left to do once a signal has come.

\* main may still start an actor for m in the round it is in.
MayStart(m) ==
    /\ m \in Containers \ actors
    /\ main = "discover" \/ (main \in {"stop", "start"} /\ m \in running)

\* Steps a thread has still to take before it ends, at most: nobody enters a poll
\* after a signal.  Nobody stands for main.
PerfAhead(m) ==
    IF MayStart(m) \/ perf[m] = "wait" THEN 4
    ELSE IF perf[m] \in {"resolve", "collect"} THEN 3
    ELSE IF perf[m] \in {"open", "send"} THEN 2
    ELSE IF perf[m] = "poll" THEN 1 ELSE 0

ReporterAhead ==
    IF reporter = "wait" THEN 3
    ELSE IF reporter = "store" THEN 2
    ELSE IF reporter = "poll" THEN 1 ELSE 0

MainAhead ==
    IF main = "discover" THEN 6
    ELSE IF main = "stop" THEN 5
    ELSE IF main = "start" THEN 4
    ELSE IF main = "tick" THEN 3
    ELSE IF main = "loop" THEN 2
    ELSE IF main = "cleanup" THEN 1 ELSE 0

Ahead(a) == IF a = Nobody THEN MainAhead ELSE IF a = Reporter THEN ReporterAhead ELSE PerfAhead(a)

\* Directories the walk has still to meet, actors whose end main has still to
\* see, and those of them it has still to tell.
ToVisit == IF main = "discover" THEN Containers \ visited ELSE {}
ToJoin  == actors \union {m \in Monitors : MayStart(m)}
ToTell  == ToJoin \ {waiting}

\* One token for each of them.
Due(a, k) ==
    \/ k <= Ahead(a)
    \/ k = 7 /\ a \in ToVisit
    \/ k = 8 /\ a \in ToJoin
    \/ k = 9 /\ a \in ToTell

Threads   == Actors \union {Nobody}
Work      == {t \in Threads \X (1 .. 9) : Due(t[1], t[2])}
Remaining == Cardinality(Work)

\* A step after a signal adds no work, and a step of a thread takes some away.
Shrinks ==
    interrupted =>
        /\ Remaining' <= Remaining
        /\ SensorStep => Remaining' < Remaining

\* The same, of the parts of the work.
Kept ==
    /\ \A a \in Threads : Ahead(a)' <= Ahead(a)
    /\ ToVisit' \subseteq ToVisit
    /\ ToJoin' \subseteq ToJoin
    /\ ToTell' \subseteq ToTell

Less ==
    \/ \E a \in Threads : Ahead(a)' < Ahead(a)
    \/ ToVisit' # ToVisit
    \/ ToJoin' # ToJoin
    \/ ToTell' # ToTell

LEMMA WorkIsFinite ==
    ASSUME IsFiniteSet(Containers)
    PROVE  IsFiniteSet(Work) /\ Remaining \in Nat
<1>1. IsFiniteSet({System}) /\ IsFiniteSet({Reporter}) /\ IsFiniteSet({Nobody})
  BY FS_Singleton
<1>2. IsFiniteSet(Threads)
  BY <1>1, FS_Union DEF Threads, Actors, Monitors
<1>3. IsFiniteSet(1 .. 9)
  <2>1. \A i, j \in Int : IsFiniteSet(i .. j)
    BY FS_Interval
  <2>2. 1 \in Int /\ 9 \in Int
    OBVIOUS
  <2> QED  BY <2>1, <2>2, Zenon
<1>4. IsFiniteSet(Threads \X (1 .. 9))
  BY <1>2, <1>3, FS_Product
<1>5. Work \in SUBSET (Threads \X (1 .. 9))
  BY DEF Work
<1>6. IsFiniteSet(Work)
  BY <1>4, <1>5, FS_Subset
<1> QED  BY <1>6, FS_CardinalityType DEF Remaining

\* Work whose parts have become less is less.
LEMMA WorkShrinks ==
    ASSUME IsFiniteSet(Containers), Kept, TypeOK
    PROVE  Remaining' <= Remaining /\ (Less => Remaining' < Remaining)
<1>1. \A a \in Threads : Ahead(a) \in 0 .. 6 /\ Ahead(a)' \in 0 .. 6
  BY DEF Ahead, MainAhead, ReporterAhead, PerfAhead
<1>2. Work' \subseteq Work
  BY <1>1 DEF Kept, Work, Due
<1>3. ASSUME Less
      PROVE  Work' # Work
  <2>1. CASE \E a \in Threads : Ahead(a)' < Ahead(a)
    <3>1. PICK a \in Threads : Ahead(a)' < Ahead(a)
      BY <2>1
    <3>2. <<a, Ahead(a)>> \in Work
      BY <1>1, <3>1 DEF Work, Due
    <3>3. <<a, Ahead(a)>> \notin Work'
      BY <1>1, <3>1 DEF Work, Due
    <3> QED  BY <3>2, <3>3
  <2>2. CASE ToVisit' # ToVisit
    <3>1. PICK c \in ToVisit : c \notin ToVisit'
      BY <2>2 DEF Kept
    <3>2. c \in Threads
      BY DEF ToVisit, Threads, Actors, Monitors
    <3>3. <<c, 7>> \in Work /\ <<c, 7>> \notin Work'
      BY <1>1, <3>1, <3>2 DEF Work, Due
    <3> QED  BY <3>3
  <2>3. CASE ToJoin' # ToJoin
    <3>1. PICK a \in ToJoin : a \notin ToJoin'
      BY <2>3 DEF Kept
    <3>2. a \in Threads
      BY DEF ToJoin, Threads, Actors, TypeOK
    <3>3. <<a, 8>> \in Work /\ <<a, 8>> \notin Work'
      BY <1>1, <3>1, <3>2 DEF Work, Due
    <3> QED  BY <3>3
  <2>4. CASE ToTell' # ToTell
    <3>1. PICK a \in ToTell : a \notin ToTell'
      BY <2>4 DEF Kept
    <3>2. a \in Threads
      BY DEF ToTell, ToJoin, Threads, Actors, TypeOK
    <3>3. <<a, 9>> \in Work /\ <<a, 9>> \notin Work'
      BY <1>1, <3>1, <3>2 DEF Work, Due
    <3> QED  BY <3>3
  <2> QED  BY <1>3, <2>1, <2>2, <2>3, <2>4 DEF Less
<1>4. Remaining' <= Remaining /\ (Work' # Work => Remaining' # Remaining)
  BY <1>2, WorkIsFinite, FS_Subset DEF Remaining
<1>5. Remaining \in Nat /\ Remaining' \in Nat
  <2>1. IsFiniteSet(Work')
    BY <1>2, WorkIsFinite, FS_Subset
  <2> QED  BY <2>1, WorkIsFinite, FS_CardinalityType DEF Remaining
<1> QED  BY <1>3, <1>4, <1>5

\* A thread that runs is in the table when main could start one for its path, so
\* that its own places are the ones that count.
LEMMA PerfWorks ==
    ASSUME TypeOK, Supervision, interrupted, NEW m \in Monitors, PerfRuns(m)
    PROVE  Kept /\ Less
<1>1. UNCHANGED <<mainVars, reporterVars>>
  BY PerfKeepsSignals
<1>2. perf[m] # "exited"
  BY DEF PerfRuns, PerfStep, CreateContext, ResolveFails, InitializeGroups, InitializeFails,
     PerfPoll, PerfTerminated, PerfHandlePipe, HandleTicker, PopulatePayload, PopulateFails,
     SendPayload
<1>3. ~MayStart(m)
  BY <1>2 DEF MayStart, Supervision, Startable
<1>4. \A n \in Monitors : MayStart(n)' = MayStart(n)
  BY <1>1 DEF MayStart, mainVars
<1>5. ToVisit' = ToVisit /\ ToJoin' = ToJoin /\ ToTell' = ToTell
  BY <1>1, <1>4 DEF ToVisit, ToJoin, ToTell, mainVars
<1>6. \A n \in Monitors : n # m => perf'[n] = perf[n]
  BY DEF PerfRuns, PerfStep, CreateContext, ResolveFails, InitializeGroups, InitializeFails,
     PerfPoll, PerfTerminated, PerfHandlePipe, HandleTicker, PopulatePayload, PopulateFails,
     SendPayload, Goto, Exit, TypeOK, PerfTypeOK
<1>7. PerfAhead(m)' < PerfAhead(m)
  BY <1>3, <1>4
  DEF PerfAhead, PerfRuns, PerfStep, CreateContext, ResolveFails, InitializeGroups,
      InitializeFails, PerfPoll, PerfTerminated, PerfHandlePipe, HandleTicker, PopulatePayload,
      PopulateFails, SendPayload, Goto, Exit, TypeOK, PerfTypeOK
<1>8. \A n \in Monitors : n # m => PerfAhead(n)' = PerfAhead(n)
  BY <1>4, <1>6 DEF PerfAhead
<1>9. MainAhead' = MainAhead /\ ReporterAhead' = ReporterAhead
  BY <1>1 DEF MainAhead, ReporterAhead, mainVars, reporterVars
<1>10. \A n \in Monitors : Ahead(n) = PerfAhead(n) /\ Ahead(n)' = PerfAhead(n)'
  BY ActorsAssumption DEF Ahead, Monitors
<1>11. Ahead(m)' < Ahead(m) /\ m \in Threads
  BY <1>7, <1>10 DEF Threads, Actors
<1>12. \A a \in Threads : a # m => Ahead(a)' = Ahead(a)
  BY <1>8, <1>9 DEF Ahead, Threads, Actors
<1>13. \A a \in Threads : Ahead(a) \in Nat /\ Ahead(a)' \in Nat
  BY DEF Ahead, MainAhead, ReporterAhead, PerfAhead
<1> QED  BY <1>5, <1>11, <1>12, <1>13 DEF Kept, Less

LEMMA ReporterWorks ==
    ASSUME TypeOK, interrupted, ReporterRuns
    PROVE  Kept /\ Less
<1>1. UNCHANGED <<mainVars, perfVars>>
  BY DEF ReporterRuns
<1>2. ReporterAhead' < ReporterAhead
  BY DEF ReporterAhead, ReporterRuns, ReporterStep, ReportingPoll, ReportingTerminated,
     ReportingHandlePipe, ReporterExit, HandleReporting, StoreReport
<1>3. \A n \in Monitors : MayStart(n)' = MayStart(n)
  BY <1>1 DEF MayStart, mainVars
<1>4. ToVisit' = ToVisit /\ ToJoin' = ToJoin /\ ToTell' = ToTell
  BY <1>1, <1>3 DEF ToVisit, ToJoin, ToTell, mainVars
<1>5. MainAhead' = MainAhead /\ \A n \in Monitors : PerfAhead(n)' = PerfAhead(n)
  BY <1>1, <1>3 DEF MainAhead, PerfAhead, mainVars, perfVars
<1>6. Ahead(Reporter)' < Ahead(Reporter) /\ Reporter \in Threads
  BY <1>2, ActorsAssumption DEF Ahead, Threads, Actors
<1>7. \A a \in Threads : a # Reporter => Ahead(a)' = Ahead(a)
  BY <1>5 DEF Ahead, Threads, Actors
<1>8. \A a \in Threads : Ahead(a) \in Nat /\ Ahead(a)' \in Nat
  BY DEF Ahead, MainAhead, ReporterAhead, PerfAhead
<1> QED  BY <1>4, <1>6, <1>7, <1>8 DEF Kept, Less

\* What main may still start, and holds, only goes down when it starts nothing.
LEMMA PartsKept ==
    ASSUME TypeOK, UNCHANGED <<perf, reporter>>, MainAhead' <= MainAhead,
           \A m \in Monitors : MayStart(m)' => MayStart(m)
    PROVE  \A a \in Threads : Ahead(a)' <= Ahead(a)
<1>1. \A m \in Monitors : PerfAhead(m)' <= PerfAhead(m)
  BY DEF PerfAhead
<1>2. ReporterAhead' <= ReporterAhead
  BY DEF ReporterAhead
<1> QED  BY <1>1, <1>2 DEF Ahead, Threads, Actors

LEMMA MainGoesOn ==
    ASSUME TypeOK, Supervision, interrupted,
           \/ \E c \in Containers : Visit(c) \/ StartAborts(c)
           \/ DiscoverDone \/ DiscoverFails \/ StopDone \/ StartDone \/ Tick \/ Deinitialize
           \/ DestroyStorage
    PROVE  Kept /\ Less
<1> USE ActorsAssumption DEF MainGoto, perfVars, reporterVars
<1>1. UNCHANGED <<perf, reporter, waiting, actors>>
  BY DEF Visit, StartAborts, DiscoverDone, DiscoverFails, StopDone, StartDone, Tick,
     Deinitialize, DestroyStorage
<1>2. \A m \in Monitors : MayStart(m)' => MayStart(m)
  BY <1>1 DEF Visit, StartAborts, DiscoverDone, DiscoverFails, StopDone, StartDone, Tick,
     Deinitialize, DestroyStorage, MayStart
<1>3. ToJoin' \subseteq ToJoin /\ ToTell' \subseteq ToTell
  BY <1>1, <1>2 DEF ToJoin, ToTell
<1>4. \/ MainAhead' < MainAhead /\ ToVisit' \subseteq ToVisit
      \/ MainAhead' = MainAhead /\ ToVisit' \subseteq ToVisit /\ ToVisit' # ToVisit
  BY DEF Visit, StartAborts, DiscoverDone, DiscoverFails, StopDone, StartDone, Tick,
     Deinitialize, DestroyStorage, MainAhead, ToVisit
<1>5. MainAhead \in Nat /\ MainAhead' \in Nat
  BY DEF MainAhead
<1>6. \A a \in Threads : Ahead(a)' <= Ahead(a)
  BY <1>1, <1>2, <1>4, <1>5, PartsKept
<1>7. Nobody \in Threads /\ Ahead(Nobody) = MainAhead /\ Ahead(Nobody)' = MainAhead'
  BY DEF Threads, Ahead
<1> QED  BY <1>3, <1>4, <1>6, <1>7 DEF Kept, Less

\* An actor is told once, and its end seen once: one that has been joined is not
\* started again in this round.
LEMMA MainStops ==
    ASSUME TypeOK, Supervision, Joined \/ \E a \in Actors : Destroy(a)
    PROVE  Kept /\ Less
<1> USE ActorsAssumption DEF perfVars, reporterVars
<1>1. UNCHANGED <<perf, reporter, main, visited, running>> /\ actors' \subseteq actors
  BY DEF Joined, Destroy
<1>2. MainAhead' = MainAhead /\ MainAhead \in Nat /\ ToVisit' = ToVisit
  BY <1>1 DEF MainAhead, ToVisit
<1>3. CASE Joined
  <2>1. \A m \in Monitors : MayStart(m)' => MayStart(m)
    BY <1>1, <1>3 DEF MayStart, Joined, Supervision
  <2>2. waiting \in ToJoin /\ ToJoin' \subseteq ToJoin \ {waiting}
    BY <1>3, <2>1 DEF ToJoin, Joined, Supervision, MayStart
  <2>3. ToTell' \subseteq ToTell
    BY <1>3, <2>2 DEF ToTell, Joined
  <2> QED  BY <1>1, <1>2, <2>1, <2>2, <2>3, PartsKept DEF Kept, Less
<1>4. CASE \E a \in Actors : Destroy(a)
  <2>1. PICK a \in Actors : Destroy(a)
    BY <1>4
  <2>2. \A m \in Monitors : MayStart(m)' = MayStart(m)
    BY <2>1 DEF MayStart, Destroy
  <2>3. ToJoin' = ToJoin
    BY <2>1, <2>2 DEF ToJoin, Destroy
  <2>4. a # Nobody /\ waiting = Nobody /\ waiting' = a /\ a \in ToJoin
    BY <2>1 DEF ToJoin, Destroy, Actors, Monitors
  <2>5. Nobody \notin ToJoin
    BY DEF ToJoin, TypeOK, Actors, Monitors
  <2>6. a \in ToTell /\ a \notin ToTell' /\ ToTell' \subseteq ToTell
    BY <2>3, <2>4, <2>5 DEF ToTell
  <2> QED  BY <1>1, <1>2, <2>2, <2>3, <2>6, PartsKept DEF Kept, Less
<1> QED  BY <1>3, <1>4

LEMMA MainStarts ==
    ASSUME TypeOK, Supervision, NEW c \in Containers, StartNew(c)
    PROVE  Kept /\ Less
<1> USE ActorsAssumption
<1>1. /\ c \in Monitors /\ main = "start" /\ c \in running \ actors
      /\ perf' = [perf EXCEPT ![c] = "resolve"] /\ actors' = actors \union {c}
      /\ UNCHANGED <<main, waiting, visited, running, reporter>>
  BY DEF StartNew, Spawn, Goto, reporterVars, Monitors
<1>2. MayStart(c) /\ ~MayStart(c)' /\ \A m \in Monitors : m # c => MayStart(m)' = MayStart(m)
  BY <1>1 DEF MayStart
<1>3. ToJoin' = ToJoin /\ ToTell' = ToTell /\ ToVisit' = ToVisit
  BY <1>1, <1>2 DEF ToJoin, ToTell, ToVisit
<1>4. /\ PerfAhead(c)' < PerfAhead(c)
      /\ \A m \in Monitors : m # c => PerfAhead(m)' = PerfAhead(m)
      /\ \A m \in Monitors : PerfAhead(m) \in Nat
  BY <1>1, <1>2 DEF PerfAhead, TypeOK, PerfTypeOK
<1>5. /\ ReporterAhead' = ReporterAhead /\ ReporterAhead \in Nat
      /\ MainAhead' = MainAhead /\ MainAhead \in Nat
  BY <1>1 DEF ReporterAhead, MainAhead
<1>6. Ahead(c)' < Ahead(c) /\ c \in Threads
  BY <1>1, <1>4 DEF Ahead, Threads, Actors, Monitors
<1>7. \A a \in Threads : a # c => Ahead(a)' <= Ahead(a)
  BY <1>4, <1>5 DEF Ahead, Threads, Actors
<1>8. \A a \in Threads : Ahead(a) \in Nat /\ Ahead(a)' \in Nat
  BY DEF Ahead, MainAhead, ReporterAhead, PerfAhead
<1> QED  BY <1>3, <1>6, <1>7, <1>8 DEF Kept, Less

LEMMA EnvironmentAddsNoWork ==
    ASSUME TypeOK, Supervision, Interrupt \/ ContainersChange \/ UNCHANGED vars
    PROVE  Kept
<1> USE ActorsAssumption
<1>1. /\ UNCHANGED <<perf, reporter, main, visited, running>>
      /\ \/ UNCHANGED <<waiting, actors>>
         \/ waiting # Nobody /\ waiting' = Nobody /\ actors' = actors \ {waiting}
  BY DEF Interrupt, ContainersChange, vars, mainVars, perfVars, reporterVars
<1>2. MainAhead' = MainAhead /\ MainAhead \in Nat /\ ToVisit' = ToVisit
  BY <1>1 DEF MainAhead, ToVisit
<1>3. \A m \in Monitors : MayStart(m)' => MayStart(m)
  BY <1>1 DEF MayStart, Supervision
<1>4. ToJoin' \subseteq ToJoin /\ ToTell' \subseteq ToTell
  BY <1>1, <1>3 DEF ToJoin, ToTell, MayStart, Supervision
<1> QED  BY <1>1, <1>2, <1>3, <1>4, PartsKept DEF Kept

LEMMA ThreadsWork ==
    ASSUME TypeOK, Supervision, interrupted, SensorStep
    PROVE  Kept /\ Less
<1>1. CASE MainStep
  <2>1. ~Loop
    BY DEF Loop
  <2>2. CASE \E c \in Containers : StartNew(c)
    BY <2>2, MainStarts
  <2>3. CASE \/ Joined
             \/ \E c \in Containers : StopDead(c)
             \/ \E a \in Actors : Cleanup(a)
    BY <2>3, MainStops DEF StopDead, Cleanup, Actors, Monitors
  <2> QED  BY <1>1, <2>1, <2>2, <2>3, MainGoesOn DEF MainStep
<1> QED  BY <1>1, PerfWorks, ReporterWorks DEF SensorStep

\* After a signal the threads of the sensor have a bounded number of steps left,
\* whatever else happens: each step takes away some of the work, and neither the
\* signals nor the containers that come and go add any.
THEOREM ShutdownIsFinite == IsFiniteSet(Containers) => (Spec => [][Shrinks]_vars)
<1> SUFFICES ASSUME IsFiniteSet(Containers)
             PROVE  Spec => [][Shrinks]_vars
  OBVIOUS
<1>1. TypeOK /\ Supervision /\ [Next]_vars => [Shrinks]_vars
  <2> SUFFICES ASSUME TypeOK, Supervision, [Next]_vars, interrupted
               PROVE  Remaining' <= Remaining /\ (SensorStep => Remaining' < Remaining)
    BY DEF Shrinks
  <2>1. CASE SensorStep
    BY <2>1, ThreadsWork, WorkShrinks, WorkIsFinite
  <2>2. CASE ~SensorStep
    BY <2>2, EnvironmentAddsNoWork, WorkShrinks DEF Next
  <2> QED  BY <2>1, <2>2
<1> QED  BY <1>1, TypeCorrect, Supervised, PTL DEF Spec

LEMMA UnionBound ==
    ASSUME NEW S, IsFiniteSet(S), NEW T, IsFiniteSet(T)
    PROVE  /\ IsFiniteSet(S \union T)
           /\ Cardinality(S) \in Nat /\ Cardinality(T) \in Nat
           /\ Cardinality(S \union T) \in Nat
           /\ Cardinality(S \union T) <= Cardinality(S) + Cardinality(T)
<1>1. /\ IsFiniteSet(S \union T)
      /\ Cardinality(S \union T) = Cardinality(S) + Cardinality(T) - Cardinality(S \intersect T)
  BY FS_Union
<1>2. IsFiniteSet(S \intersect T)
  BY FS_Intersection
<1>3. /\ Cardinality(S) \in Nat /\ Cardinality(T) \in Nat
      /\ Cardinality(S \intersect T) \in Nat
  BY <1>2, FS_CardinalityType
<1>4. Cardinality(S \union T) \in Nat
  BY <1>1, FS_CardinalityType
<1> QED  BY <1>1, <1>3, <1>4

LEMMA IntervalBound ==
    ASSUME NEW i \in Nat, NEW j \in Nat, NEW k \in Nat \ {0}, i + k = j + 1
    PROVE  IsFiniteSet(i .. j) /\ Cardinality(i .. j) = k
<1>1. i \in Int /\ j \in Int /\ ~(i > j) /\ j - i + 1 = k
  OBVIOUS
<1> QED  BY <1>1, FS_Interval

LEMMA IntervalsOfLiterals ==
    /\ IsFiniteSet(1 .. 4) /\ Cardinality(1 .. 4) = 4
    /\ IsFiniteSet(7 .. 9) /\ Cardinality(7 .. 9) = 3
    /\ IsFiniteSet(1 .. 3) /\ Cardinality(1 .. 3) = 3
    /\ IsFiniteSet(8 .. 9) /\ Cardinality(8 .. 9) = 2
    /\ IsFiniteSet(1 .. 6) /\ Cardinality(1 .. 6) = 6
<1>1. ASSUME NEW i \in Nat, NEW j \in Nat, NEW k \in Nat \ {0}, i + k = j + 1
      PROVE  IsFiniteSet(i .. j) /\ Cardinality(i .. j) = k
  BY <1>1, IntervalBound
<1>2. 1 \in Nat /\ 4 \in Nat /\ 4 \in Nat \ {0} /\ 1 + 4 = 4 + 1
  OBVIOUS
<1>3. 7 \in Nat /\ 9 \in Nat /\ 3 \in Nat \ {0} /\ 7 + 3 = 9 + 1
  OBVIOUS
<1>4. 1 \in Nat /\ 3 \in Nat /\ 3 \in Nat \ {0} /\ 1 + 3 = 3 + 1
  OBVIOUS
<1>5. 8 \in Nat /\ 9 \in Nat /\ 2 \in Nat \ {0} /\ 8 + 2 = 9 + 1
  OBVIOUS
<1>6. 1 \in Nat /\ 6 \in Nat /\ 6 \in Nat \ {0} /\ 1 + 6 = 6 + 1
  OBVIOUS
<1>7. IsFiniteSet(1 .. 4) /\ Cardinality(1 .. 4) = 4
  BY <1>1, <1>2, Zenon
<1>8. IsFiniteSet(7 .. 9) /\ Cardinality(7 .. 9) = 3
  BY <1>1, <1>3, Zenon
<1>9. IsFiniteSet(1 .. 3) /\ Cardinality(1 .. 3) = 3
  BY <1>1, <1>4, Zenon
<1>10. IsFiniteSet(8 .. 9) /\ Cardinality(8 .. 9) = 2
  BY <1>1, <1>5, Zenon
<1>11. IsFiniteSet(1 .. 6) /\ Cardinality(1 .. 6) = 6
  BY <1>1, <1>6, Zenon
<1> QED  BY <1>7, <1>8, <1>9, <1>10, <1>11

\* The number of those steps: 7 for each container that exists, 18 for main, the
\* reporting actor and the actor of the whole system.
THEOREM ShutdownIsShort ==
    IsFiniteSet(Containers) => (Spec => [](Remaining <= 7 * Cardinality(Containers) + 18))
<1> SUFFICES ASSUME IsFiniteSet(Containers)
             PROVE  Spec => [](Remaining <= 7 * Cardinality(Containers) + 18)
  OBVIOUS
<1> DEFINE n == Cardinality(Containers)
           Steps == (1 .. 4) \union (7 .. 9)
           Ends == (1 .. 3) \union (8 .. 9)
           All == (Monitors \X Steps) \union ({Reporter} \X Ends) \union ({Nobody} \X (1 .. 6))
<1>1. IsFiniteSet(Monitors) /\ Cardinality(Monitors) = n + 1 /\ n \in Nat
  BY ActorsAssumption, FS_AddElement, FS_CardinalityType DEF Monitors
<1>2. IsFiniteSet(Steps) /\ Cardinality(Steps) <= 7
  <2>1. IsFiniteSet(1 .. 4) /\ Cardinality(1 .. 4) = 4
    BY IntervalsOfLiterals
  <2>2. IsFiniteSet(7 .. 9) /\ Cardinality(7 .. 9) = 3
    BY IntervalsOfLiterals
  <2> QED  BY <2>1, <2>2, UnionBound
<1>3. IsFiniteSet(Ends) /\ Cardinality(Ends) <= 5
  <2>1. IsFiniteSet(1 .. 3) /\ Cardinality(1 .. 3) = 3
    BY IntervalsOfLiterals
  <2>2. IsFiniteSet(8 .. 9) /\ Cardinality(8 .. 9) = 2
    BY IntervalsOfLiterals
  <2>3. /\ IsFiniteSet((1 .. 3) \union (8 .. 9))
        /\ Cardinality((1 .. 3) \union (8 .. 9)) <= Cardinality(1 .. 3) + Cardinality(8 .. 9)
    BY <2>1, <2>2, UnionBound, Zenon
  <2> QED  BY <2>1, <2>2, <2>3
<1>4. IsFiniteSet(1 .. 6) /\ Cardinality(1 .. 6) = 6
  BY IntervalsOfLiterals
<1>5. IsFiniteSet(All) /\ Cardinality(All) <= 7 * n + 18
  <2>1. IsFiniteSet(Monitors \X Steps) /\ Cardinality(Monitors \X Steps) <= 7 * n + 7
    <3>1. /\ IsFiniteSet(Monitors \X Steps)
          /\ Cardinality(Monitors \X Steps) = (n + 1) * Cardinality(Steps)
      BY <1>1, <1>2, FS_Product
    <3>2. Cardinality(Steps) \in 0 .. 7
      BY <1>2, FS_CardinalityType
    <3>3. \A k \in 0 .. 7 : (n + 1) * k <= 7 * n + 7
      BY <1>1
    <3> QED  BY <3>1, <3>2, <3>3
  <2>2. IsFiniteSet({Reporter} \X Ends) /\ Cardinality({Reporter} \X Ends) <= 5
    <3>1. IsFiniteSet({Reporter}) /\ Cardinality({Reporter}) = 1
      BY FS_Singleton
    <3>2. /\ IsFiniteSet({Reporter} \X Ends)
          /\ Cardinality({Reporter} \X Ends) = 1 * Cardinality(Ends)
      BY <1>3, <3>1, FS_Product
    <3>3. Cardinality(Ends) \in Nat
      BY <1>3, FS_CardinalityType
    <3> QED  BY <1>3, <3>2, <3>3
  <2>3. IsFiniteSet({Nobody} \X (1 .. 6)) /\ Cardinality({Nobody} \X (1 .. 6)) <= 6
    <3>1. IsFiniteSet({Nobody}) /\ Cardinality({Nobody}) = 1
      BY FS_Singleton
    <3> QED  BY <1>4, <3>1, FS_Product
  <2>4. ASSUME NEW S, IsFiniteSet(S), Cardinality(S) <= 7 * n + 7,
               NEW T, IsFiniteSet(T), Cardinality(T) <= 5,
               NEW U, IsFiniteSet(U), Cardinality(U) <= 6
        PROVE  IsFiniteSet((S \union T) \union U) /\ Cardinality((S \union T) \union U) <= 7 * n + 18
    <3>1. /\ IsFiniteSet(S \union T) /\ Cardinality(S \union T) \in Nat
          /\ Cardinality(S \union T) <= 7 * n + 12
      BY <1>1, <2>4, UnionBound
    <3> QED  BY <1>1, <2>4, <3>1, UnionBound
  <2> QED  BY <2>1, <2>2, <2>3, <2>4, Zenon
<1>6. TypeOK => Remaining <= 7 * n + 18
  <2> SUFFICES ASSUME TypeOK
               PROVE  Remaining <= 7 * n + 18
    OBVIOUS
  <2>1. ASSUME NEW t \in Work
        PROVE  t \in All
    <3>1. PICK a \in Threads, k \in 1 .. 9 : t = <<a, k>> /\ Due(a, k)
      BY <2>1 DEF Work
    <3>2. CASE a \in Monitors
      <4>1. Ahead(a) <= 4
        BY <3>2, ActorsAssumption DEF Ahead, PerfAhead, Monitors
      <4>2. k \in Steps
        BY <3>1, <3>2, <4>1 DEF Due, Ahead, PerfAhead, MainAhead, ReporterAhead
      <4> QED  BY <3>1, <3>2, <4>2
    <3>3. CASE a = Reporter
      <4>1. Ahead(a) \in 0 .. 3 /\ a \notin ToVisit
        BY <3>3, ActorsAssumption DEF Ahead, ReporterAhead, ToVisit
      <4>2. k \in Ends
        BY <3>1, <4>1 DEF Due
      <4> QED  BY <3>1, <3>3, <4>2
    <3>4. CASE a = Nobody
      <4>1. Ahead(a) \in 0 .. 6
        BY <3>4 DEF Ahead, MainAhead
      <4>2. a \notin ToVisit /\ a \notin ToJoin /\ a \notin ToTell
        BY <3>4, ActorsAssumption DEF ToVisit, ToJoin, ToTell, TypeOK, Actors, Monitors
      <4>3. k \in 1 .. 6
        BY <3>1, <4>1, <4>2 DEF Due
      <4> QED  BY <3>1, <3>4, <4>3
    <3> QED  BY <3>1, <3>2, <3>3, <3>4 DEF Threads, Actors
  <2>2. Work \in SUBSET All
    BY <2>1
  <2>3. Cardinality(Work) <= Cardinality(All)
    BY <1>5, <2>2, FS_Subset
  <2>4. Cardinality(Work) \in Nat /\ Cardinality(All) \in Nat
    BY <1>5, <2>2, FS_Subset, FS_CardinalityType
  <2> QED  BY <1>1, <1>5, <2>3, <2>4 DEF Remaining
<1> QED  BY <1>6, TypeCorrect, PTL

-----------------------------------------------------------------------------
\* The threads that run without a handle of main.
Orphans == {a \in Actors : ~Ended(a) /\ a \notin actors}

\* main gives up the handle of a thread that has ended, and starts no thread for
\* one that runs.
LEMMA MainLeavesNoOrphan ==
    ASSUME TypeOK, Supervision, MainStep
    PROVE  Orphans' \subseteq Orphans /\ signals' = signals
<1> USE ActorsAssumption
    DEF Orphans, Ended, MainGoto, Destroy, SendTerm, channelVars, cgroupVars, perfVars,
        reporterVars, Actors, Monitors
<1>1. CASE Loop                 BY <1>1 DEF Loop
<1>2. ASSUME NEW c \in Containers, Visit(c)
      PROVE  Orphans' \subseteq Orphans /\ signals' = signals
  BY <1>2 DEF Visit
<1>3. ASSUME NEW c \in Containers, StopDead(c)
      PROVE  Orphans' \subseteq Orphans /\ signals' = signals
  BY <1>3 DEF StopDead
<1>4. ASSUME NEW c \in Containers, StartNew(c)
      PROVE  Orphans' \subseteq Orphans /\ signals' = signals
  BY <1>4 DEF StartNew, Spawn, Goto, TypeOK, PerfTypeOK
<1>5. CASE DiscoverDone         BY <1>5 DEF DiscoverDone
<1>6. CASE DiscoverFails        BY <1>6 DEF DiscoverFails
<1>7. CASE StopDone             BY <1>7 DEF StopDone
<1>8. CASE StartDone            BY <1>8 DEF StartDone
<1>9. CASE Tick                 BY <1>9 DEF Tick
<1>10. CASE Deinitialize        BY <1>10 DEF Deinitialize
<1>11. ASSUME NEW a \in Actors, Cleanup(a)
       PROVE  Orphans' \subseteq Orphans /\ signals' = signals
  BY <1>11 DEF Cleanup
<1>12. CASE Joined              BY <1>12 DEF Joined
<1>13. CASE DestroyStorage      BY <1>13 DEF DestroyStorage
<1>14. ASSUME NEW c \in Containers, StartAborts(c)
       PROVE  Orphans' \subseteq Orphans /\ signals' = signals
  BY <1>14 DEF StartAborts
<1> QED
  BY <1>1, <1>2, <1>3, <1>4, <1>5, <1>6, <1>7, <1>8, <1>9, <1>10, <1>11, <1>12, <1>13, <1>14
  DEF MainStep

LEMMA ThreadsLeaveNoOrphan ==
    ASSUME TypeOK, ReporterRuns \/ ContainersChange \/ \E m \in Monitors : PerfRuns(m)
    PROVE  Orphans' \subseteq Orphans /\ signals' = signals
<1>1. ASSUME NEW m \in Monitors, PerfRuns(m)
      PROVE  Orphans' \subseteq Orphans /\ signals' = signals
  BY <1>1, PerfStaysEnded, PerfKeepsSignals
  DEF Orphans, Ended, Actors, mainVars, reporterVars
<1>2. CASE ReporterRuns
  <2>1. UNCHANGED <<perf, actors, signals>>
    BY <1>2 DEF ReporterRuns, ReporterStep, ReportingPoll, ReportingTerminated,
       ReportingHandlePipe, ReporterExit, HandleReporting, StoreReport, channelVars, perfVars,
       mainVars
  <2>2. reporter' # "exited" => reporter # "exited"
    BY <1>2 DEF ReporterRuns, ReporterStep, ReportingPoll, ReportingTerminated,
       ReportingHandlePipe, ReporterExit, HandleReporting, StoreReport
  <2> QED  BY <2>1, <2>2 DEF Orphans, Ended
<1>3. CASE ContainersChange
  BY <1>3 DEF ContainersChange, channelVars, perfVars, reporterVars, mainVars, Orphans, Ended
<1> QED  BY <1>1, <1>2, <1>3

\* Each signal makes main give up one thread at most: however many containers there
\* are, the threads that go on without a handle, and that main's end will not wait
\* for, are no more than the signals received.
THEOREM OneOrphanPerSignal ==
    Spec => [](IsFiniteSet(Orphans) /\ Cardinality(Orphans) <= signals)
<1> DEFINE Few == IsFiniteSet(Orphans) /\ Cardinality(Orphans) <= signals
<1>1. Init => Few
  <2> SUFFICES ASSUME Init
               PROVE  Few
    OBVIOUS
  <2>1. Orphans = {}
    BY ActorsAssumption DEF Init, Orphans, Ended, Actors, Monitors, ReporterInit
  <2>2. signals = 0
    BY DEF Init, ChannelsInit
  <2> QED  BY <2>1, <2>2, FS_EmptySet
<1>2. TypeOK /\ Supervision /\ Few /\ [Next]_vars => Few'
  <2> SUFFICES ASSUME TypeOK, Supervision, Few, [Next]_vars
               PROVE  Few'
    OBVIOUS
  <2>1. Cardinality(Orphans) \in Nat /\ signals \in Nat
    BY FS_CardinalityType DEF TypeOK, ChannelsTypeOK
  <2>2. ASSUME Orphans' \subseteq Orphans, signals' = signals
        PROVE  Few'
    <3>1. /\ IsFiniteSet(Orphans') /\ Cardinality(Orphans') <= Cardinality(Orphans)
          /\ Cardinality(Orphans') \in Nat
      BY <2>2, FS_Subset, FS_CardinalityType
    <3> QED  BY <2>1, <2>2, <3>1
  <2>3. CASE Interrupt
    <3>1. Orphans' \subseteq Orphans \union {waiting} /\ signals' = signals + 1
      BY <2>3 DEF Interrupt, Orphans, Ended, perfVars, reporterVars
    <3>2. /\ IsFiniteSet(Orphans \union {waiting})
          /\ Cardinality(Orphans \union {waiting}) \in Nat
          /\ Cardinality(Orphans \union {waiting}) <= Cardinality(Orphans) + 1
      BY <2>1, FS_AddElement, FS_CardinalityType
    <3>3. /\ IsFiniteSet(Orphans') /\ Cardinality(Orphans') \in Nat
          /\ Cardinality(Orphans') <= Cardinality(Orphans \union {waiting})
      BY <3>1, <3>2, FS_Subset, FS_CardinalityType
    <3> QED  BY <2>1, <3>1, <3>2, <3>3
  <2>4. CASE UNCHANGED vars
    <3>1. Orphans' = Orphans /\ signals' = signals
      BY <2>4 DEF vars, channelVars, perfVars, reporterVars, mainVars, Orphans, Ended
    <3> QED  BY <2>2, <3>1
  <2>5. CASE MainStep \/ ContainersChange \/ ReporterRuns \/ \E m \in Monitors : PerfRuns(m)
    BY <2>2, <2>5, MainLeavesNoOrphan, ThreadsLeaveNoOrphan
  <2> QED  BY <2>3, <2>4, <2>5 DEF Next, SensorStep
<1> QED  BY <1>1, <1>2, TypeCorrect, Supervised, PTL DEF Spec
=============================================================================

--------------------------- MODULE ReportingActor ---------------------------
(***************************************************************************)
(* The reporting actor (src/src/report.c): one thread that receives the    *)
(* payloads of every monitoring actor and hands them, one at a time, to    *)
(* the storage module, which the main thread initialises, deinitialises    *)
(* and destroys.                                                           *)
(***************************************************************************)
EXTENDS Channels

VARIABLES reporter,   \* where the actor stands
          report,     \* payload in the hands of the storage module
          handled,    \* history: payloads the storage module is done with
          storage,    \* life cycle of the storage module
          late        \* history: stores that ended on a closed module

reporterVars == <<reporter, report, handled, storage, late>>

ReporterLocations == {"poll", "wait", "store", "exited"}

ReporterTypeOK ==
    /\ reporter \in ReporterLocations
    /\ report \in Payload \union {NoReport}
    /\ handled \subseteq Payload
    /\ storage \in {"initialized", "deinitialized", "destroyed"}
    /\ late \in Nat

\* main has initialised the storage module, and zactor_new has returned after
\* report_context_create bound the PULL socket.  When there is no memory for the
\* context the thread ends instead, and zactor_new returns all the same.
ReporterInit ==
    /\ \/ reporter = "poll" /\ pull = "bound"
       \/ MayFail /\ reporter = "exited" /\ pull = "unbound"
    /\ report = NoReport
    /\ handled = {}
    /\ storage = "initialized"
    /\ late = 0

\* report_context_destroy: the payloads still in the queues are lost.
ReporterExit ==
    /\ reporter' = "exited"
    /\ pull' = "closed"
    /\ reporting' = {}
    /\ UNCHANGED <<report, handled, storage, late, signals, pipe, inbox, clock, sent>>

\* Variant: the end of zpoller_wait by an interrupt is not noticed.
ReportingPollsOn ==
    /\ reporter = "poll"
    /\ reporter' = "wait"
    /\ UNCHANGED <<report, handled, storage, late, channelVars>>

ReportingPoll ==
    /\ reporter = "poll"
    /\ ~interrupted
    /\ reporter' = "wait"
    /\ UNCHANGED <<report, handled, storage, late, channelVars>>

ReportingTerminated ==
    /\ reporter = "poll"
    /\ interrupted
    /\ ReporterExit

ReportingHandlePipe ==
    /\ reporter = "wait"
    /\ Reporter \in pipe
    /\ ReporterExit

\* handle_reporting: receive a payload and call storage_module_store_report.
HandleReporting ==
    /\ reporter = "wait"
    /\ Reporter \notin pipe
    /\ \E p \in reporting : Pull(p) /\ report' = p
    /\ reporter' = "store"
    /\ UNCHANGED <<handled, storage, late, signals, pipe, inbox, pull, clock, sent>>

\* Variant: a payload can be destroyed before the storage module has had it.
StoreReportOrDrop ==
    /\ reporter = "store"
    /\ handled' \in {handled, handled \union {report}}
    /\ report' = NoReport
    /\ reporter' = "poll"
    /\ UNCHANGED <<storage, late, channelVars>>

\* The storage module returns; success and failure end the same way, with
\* payload_destroy.
StoreReport ==
    /\ reporter = "store"
    /\ handled' = handled \union {report}
    /\ report' = NoReport
    /\ late' = IF storage = "initialized" THEN late ELSE late + 1
    /\ reporter' = "poll"
    /\ UNCHANGED <<storage, channelVars>>

ReporterStep ==
    \/ ReportingPoll
    \/ ReportingTerminated
    \/ ReportingHandlePipe
    \/ HandleReporting
    \/ StoreReport

\* The thread has ended, or waits for a message in zpoller_wait.
ReporterBlocked ==
    \/ reporter = "exited"
    \/ reporter = "wait" /\ Reporter \notin pipe /\ reporting = {}
=============================================================================
